------------------------------ MODULE HitlBus ------------------------------
(***************************************************************************)
(* obase.hitl_signal_bus.HitlSignalBus: coroutines wait for the decision   *)
(* of a request, people decide from the same event loop or from other      *)
(* threads.  asyncio.Event is modelled as it is built: set() writes the    *)
(* flag and then wakes the waiters it finds registered; wait() reads the   *)
(* flag and then registers.  On one loop each of the two is one step.      *)
(*                                                                         *)
(* A request made again under the same identifier is a new generation: the *)
(* registry forgets the old one.  The interrupt flag is left out.          *)
(*                                                                         *)
(* A definition named X_Slip is X with a slip a programmer could make; the *)
(* properties are checked to notice it.  Nothing else uses it.             *)
(***************************************************************************)
EXTENDS Naturals

CONSTANTS
  Waiters, Deciders,
  Threads,         \* TRUE: deciders are threads of their own
  Timeouts,        \* TRUE: a wait may time out
  MaxGenerations   \* bound: requests made under the one identifier

BoundsAssumption ==
  Threads \in BOOLEAN /\ Timeouts \in BOOLEAN /\ MaxGenerations \in Nat

VARIABLES
  current,   \* the generation the registry knows, 0 for none
  outcome,   \* per generation, its decision or "none"
  flag,      \* generations whose event is set
  waiter,    \* per waiter, how far its wait is
  waits,     \* per waiter, the generation it looked up
  answer,    \* per waiter, what wait_for_decision returned
  decider    \* per decider, the generation it still has to signal, 0 for none

vars == <<current, outcome, flag, waiter, waits, answer, decider>>

Generations == 1..MaxGenerations
Decisions == {"approved", "rejected", "cancelled"}

Init ==
  /\ current = 0
  /\ outcome = [g \in Generations |-> "none"] /\ flag = {}
  /\ waiter = [w \in Waiters |-> "idle"] /\ waits = [w \in Waiters |-> 0]
  /\ answer = [w \in Waiters |-> "none"]
  /\ decider = [d \in Deciders |-> 0]

\* On one event loop nobody runs while a coroutine or a decision is between
\* two steps without an await.
LoopIsFree ==
  Threads \/ (/\ \A w \in Waiters : waiter[w] \notin {"looked", "registering"}
              /\ \A d \in Deciders : decider[d] = 0)

Request ==
  /\ LoopIsFree /\ current < MaxGenerations
  /\ current' = current + 1
  /\ UNCHANGED <<outcome, flag, waiter, waits, answer, decider>>

\* _decide, under the lock: the first decision is kept.
Undecided(g) == outcome[g] = "none"
Decide(d, o) ==
  /\ LoopIsFree /\ decider[d] = 0 /\ current # 0
  /\ Undecided(current)
  /\ outcome' = [outcome EXCEPT ![current] = o]
  /\ decider' = [decider EXCEPT ![d] = current]
  /\ UNCHANGED <<current, flag, waiter, waits, answer>>

\* event.set(), outside the lock: the flag, then the registered waiters.
SetFlag(d) ==
  /\ decider[d] # 0 /\ decider[d] \notin flag
  /\ flag' = flag \cup {decider[d]}
  /\ UNCHANGED <<current, outcome, waiter, waits, answer, decider>>

Woken_First(g) ==
  LET asleep == {w \in Waiters : waits[w] = g /\ waiter[w] = "asleep"}
  IN IF asleep = {} THEN {} ELSE {CHOOSE w \in asleep : TRUE}
Woken(g) == {w \in Waiters : waits[w] = g /\ waiter[w] = "asleep"}
WakeAll(d) ==
  LET g == decider[d] IN
  /\ g # 0 /\ g \in flag
  /\ waiter' = [w \in Waiters |-> IF w \in Woken(g) THEN "woken" ELSE waiter[w]]
  /\ decider' = [decider EXCEPT ![d] = 0]
  /\ UNCHANGED <<current, outcome, flag, waits, answer>>

Answer(w, a) == answer' = [answer EXCEPT ![w] = a] /\ waiter' = [waiter EXCEPT ![w] = "done"]

\* wait_for_decision: look the request up; a decided one is answered at once.
Look(w) ==
  /\ LoopIsFree /\ waiter[w] = "idle" /\ current # 0
  /\ waits' = [waits EXCEPT ![w] = current]
  /\ IF outcome[current] # "none" THEN Answer(w, outcome[current])
     ELSE waiter' = [waiter EXCEPT ![w] = "looked"] /\ UNCHANGED answer
  /\ UNCHANGED <<current, outcome, flag, decider>>

\* event.wait(): read the flag, then register as a waiter.
CheckFlag(w) ==
  /\ waiter[w] = "looked"
  /\ IF waits[w] \in flag THEN Answer(w, outcome[waits[w]])
     ELSE waiter' = [waiter EXCEPT ![w] = "registering"] /\ UNCHANGED answer
  /\ UNCHANGED <<current, outcome, flag, waits, decider>>

Register(w) ==
  /\ waiter[w] = "registering"
  /\ waiter' = [waiter EXCEPT ![w] = "asleep"]
  /\ UNCHANGED <<current, outcome, flag, waits, answer, decider>>

Wake(w) ==
  /\ waiter[w] = "woken" /\ Answer(w, outcome[waits[w]])
  /\ UNCHANGED <<current, outcome, flag, waits, decider>>

\* wait_for gives up, possibly in the very turn in which the decision comes.
TimedOut(w) ==
  /\ Timeouts /\ LoopIsFree /\ waiter[w] \in {"asleep", "woken"}
  /\ Answer(w, "timed_out")
  /\ UNCHANGED <<current, outcome, flag, waits, decider>>

Next ==
  \/ Request
  \/ \E d \in Deciders : (\E o \in Decisions : Decide(d, o)) \/ SetFlag(d) \/ WakeAll(d)
  \/ \E w \in Waiters : Look(w) \/ CheckFlag(w) \/ Register(w) \/ Wake(w) \/ TimedOut(w)

Spec == Init /\ [][Next]_vars

\* Threads and coroutines run on; an asleep waiter sleeps until it is woken.
Fairness ==
  /\ \A d \in Deciders : WF_vars(SetFlag(d) \/ WakeAll(d))
  /\ \A w \in Waiters : WF_vars(CheckFlag(w) \/ Register(w) \/ Wake(w))

-----------------------------------------------------------------------------
\* Every variable has its type.
TypeOK ==
  /\ current \in 0..MaxGenerations
  /\ outcome \in [Generations -> Decisions \cup {"none"}] /\ flag \subseteq Generations
  /\ waiter \in [Waiters -> {"idle", "looked", "registering", "asleep", "woken", "done"}]
  /\ waits \in [Waiters -> 0..MaxGenerations]
  /\ answer \in [Waiters -> Decisions \cup {"none", "timed_out"}]
  /\ decider \in [Deciders -> 0..MaxGenerations]

\* Nobody sleeps through a decision: while a waiter sleeps on a decided
\* request, some decider has still to signal it.
NoLostWakeup ==
  \A w \in Waiters :
    waiter[w] = "asleep" /\ outcome[waits[w]] # "none" => \E d \in Deciders : decider[d] = waits[w]

\* A waiter of a decided request is answered, without help from a timeout.
DecisionDelivered ==
  \A w \in Waiters :
    waiter[w] = "asleep" /\ outcome[waits[w]] # "none" ~> waiter[w] = "done"

=============================================================================
