--------------------------- MODULE CircuitBreaker ---------------------------
(***************************************************************************)
(* obase.circuit_breaker.CircuitBreaker: the state is read and changed     *)
(* under a lock, the protected function runs outside it, so any number of  *)
(* calls are between their admission and their outcome.  Time is reduced   *)
(* to whether recovery_timeout has passed since the breaker opened.        *)
(*                                                                         *)
(* A definition named X_Slip is X with a slip a programmer could make; the *)
(* properties are checked to notice it.  Nothing else uses it.             *)
(***************************************************************************)
EXTENDS Naturals

CONSTANTS
  Callers,          \* threads or coroutines that call through the breaker
  Threshold,        \* failure_threshold
  MaxFailures       \* bound: the counter in behaviours of a model

ASSUME ThresholdAssumption == Threshold \in Nat \ {0} /\ MaxFailures \in Nat

VARIABLES
  st,      \* _state
  fails,   \* _failure_count
  cooled,  \* recovery_timeout has passed since _opened_at
  call,    \* per caller: "idle", or the state its call was admitted in
  streak   \* history: failures since the last success or reset

breakerVars == <<st, fails, cooled, call, streak>>

Init ==
  /\ st = "closed" /\ fails = 0 /\ cooled = FALSE
  /\ call = [c \in Callers |-> "idle"] /\ streak = 0

\* _get_state: an open breaker that has cooled down becomes half-open.
Seen == IF st = "open" /\ cooled THEN "half_open" ELSE st

Returns(c) == call' = [call EXCEPT ![c] = "idle"]

\* The state property: a read that may change the state.
ReadState == st # Seen /\ st' = Seen /\ UNCHANGED <<fails, cooled, call, streak>>

\* call(): admitted unless open; a rejected call changes nothing.
Admit(c) ==
  /\ call[c] = "idle" /\ Seen # "open"
  /\ st' = Seen
  /\ call' = [call EXCEPT ![c] = Seen]
  /\ UNCHANGED <<fails, cooled, streak>>

\* The function returned: whatever happened meanwhile, the breaker closes.
Succeed(c) ==
  /\ call[c] # "idle" /\ Returns(c)
  /\ st' = "closed" /\ fails' = 0 /\ cooled' = FALSE /\ streak' = 0

\* The function raised.
Trips_OneLate == st = "half_open" \/ fails + 1 > Threshold
Trips == st = "half_open" \/ fails + 1 >= Threshold
Fail(c) ==
  /\ call[c] # "idle" /\ Returns(c) /\ fails < MaxFailures
  /\ fails' = fails + 1 /\ streak' = streak + 1
  /\ IF Trips THEN st' = "open" /\ cooled' = FALSE ELSE UNCHANGED <<st, cooled>>

\* The call is cancelled, or ran into another open breaker: not counted.
Uncounted(c) == call[c] # "idle" /\ Returns(c) /\ UNCHANGED <<st, fails, cooled, streak>>

Reset == st' = "closed" /\ fails' = 0 /\ cooled' = FALSE /\ streak' = 0 /\ UNCHANGED call

Cool == st = "open" /\ ~cooled /\ cooled' = TRUE /\ UNCHANGED <<st, fails, call, streak>>

Next ==
  \/ ReadState \/ Reset \/ Cool
  \/ \E c \in Callers : Admit(c) \/ Succeed(c) \/ Fail(c) \/ Uncounted(c)

Spec == Init /\ [][Next]_breakerVars

-----------------------------------------------------------------------------
\* Every variable has its type.
TypeOK ==
  /\ st \in {"closed", "open", "half_open"} /\ fails \in 0..MaxFailures
  /\ cooled \in BOOLEAN /\ streak \in 0..MaxFailures
  /\ call \in [Callers -> {"idle", "closed", "half_open"}]

\* The breaker is closed exactly while fewer than failure_threshold failures
\* have come since the last success or reset, late answers of old calls included.
ClosedWhileFewFailures == (st = "closed") <=> (streak < Threshold)

=============================================================================
