-------------------------- MODULE HardenedExecutor --------------------------
(***************************************************************************)
(* obase.hardened_executor.HardenedExecutor and the circuit breaker it is  *)
(* given: every job passes the guards of its entry point (token, breaker,  *)
(* rate limit or command firewall), runs with a bait file planted, and     *)
(* ends with the bait checked, removed and an entry in the audit log.      *)
(* The jobs leave breaker, honeypot and audit switched on.                 *)
(*                                                                         *)
(* The breaker is CircuitBreaker's, driven by its other callers; the       *)
(* executor only asks its is_open attribute, when it has one.              *)
(*                                                                         *)
(* A definition named X_Slip is X with a slip a programmer could make; the *)
(* properties are checked to notice it.  Nothing else uses it.             *)
(***************************************************************************)
EXTENDS CircuitBreaker

CONSTANTS
  Jobs,
  BreakerHasIsOpen  \* whether the breaker object has an is_open attribute

ASSUME BreakerAssumption == BreakerHasIsOpen \in BOOLEAN

VARIABLES
  kind,    \* per job, the entry point: execute, aexecute or execute_subprocess
  pc,      \* per job, how far it got
  result,  \* per job, the status it returned
  baits,   \* jobs whose bait file is on disk
  touched, \* jobs whose bait was changed
  audit    \* audit entries: <<job, outcome>>

jobVars == <<kind, pc, result, baits, touched, audit>>
vars == <<breakerVars, jobVars>>

Kinds == {"sync", "async", "subprocess"}
Awaits(j) == kind[j] # "sync"

JobInit ==
  /\ kind \in [Jobs -> Kinds]
  /\ pc = [j \in Jobs |-> "new"] /\ result = [j \in Jobs |-> "none"]
  /\ baits = {} /\ touched = {} /\ audit = {}

\* _breaker_open: an object without is_open counts as closed.
BreakerOpen == BreakerHasIsOpen /\ Seen = "open"

GoesTo(j, p) == pc' = [pc EXCEPT ![j] = p]
Answers(j, s) == GoesTo(j, "done") /\ result' = [result EXCEPT ![j] = s]
Audited(j, s) == audit' = audit \cup {<<j, s>>}

\* No token, or one that does not verify: nothing is written.
Denied(j) ==
  /\ pc[j] = "new" /\ Answers(j, "denied")
  /\ UNCHANGED <<kind, baits, touched, audit>>

\* A command blocked by the breaker is not audited, the other two kinds are.
BlockedByBreaker(j) ==
  /\ pc[j] = "new" /\ BreakerOpen /\ Answers(j, "blocked")
  /\ IF kind[j] = "subprocess" THEN UNCHANGED audit ELSE Audited(j, "blocked")
  /\ UNCHANGED <<kind, baits, touched>>

PassesBreaker(j) ==
  /\ pc[j] = "new" /\ ~BreakerOpen /\ GoesTo(j, "admitted")
  /\ UNCHANGED <<kind, result, baits, touched, audit>>

\* The rate limiter raises, or the command firewall objects.
Refused_Unaudited(j) ==
  /\ pc[j] = "admitted" /\ Answers(j, "blocked")
  /\ UNCHANGED <<kind, baits, touched, audit>>
Refused(j) ==
  /\ pc[j] = "admitted" /\ Answers(j, "blocked") /\ Audited(j, "blocked")
  /\ UNCHANGED <<kind, baits, touched>>

Starts(j) ==
  /\ pc[j] = "admitted" /\ GoesTo(j, "running")
  /\ baits' = baits \cup {j}
  /\ UNCHANGED <<kind, result, touched, audit>>

Touches(j) ==
  /\ pc[j] = "running" /\ touched' = touched \cup {j}
  /\ UNCHANGED <<kind, pc, result, baits, audit>>

\* Only execute lets a touched bait override an error; the other two kinds
\* keep "timeout" and "error".
Status(j, s) ==
  IF j \in touched /\ (kind[j] = "sync" \/ s = "ok") THEN "honeypot_trip" ELSE s

Cleaned_OnSuccess(j, s) == baits' = IF s = "ok" THEN baits \ {j} ELSE baits
Cleaned(j, s) == baits' = baits \ {j}

Ends(j) ==
  /\ pc[j] = "running"
  /\ \E s \in {"ok", "error"} \cup IF Awaits(j) THEN {"timeout"} ELSE {} :
       Cleaned(j, s) /\ Answers(j, Status(j, s)) /\ Audited(j, Status(j, s))
  /\ UNCHANGED <<kind, touched>>

\* The awaiting coroutine is cancelled: no handler catches CancelledError.
Cancelled(j) ==
  /\ pc[j] \in {"admitted", "running"} /\ Awaits(j) /\ GoesTo(j, "cancelled")
  /\ UNCHANGED <<kind, result, baits, touched, audit>>

JobStep(j) ==
  \/ Denied(j) \/ BlockedByBreaker(j) \/ PassesBreaker(j) \/ Refused(j)
  \/ Starts(j) \/ Touches(j) \/ Ends(j) \/ Cancelled(j)

ExecutorInit == Init /\ JobInit
ExecutorNext ==
  \/ Next /\ UNCHANGED jobVars
  \/ (\E j \in Jobs : JobStep(j)) /\ UNCHANGED breakerVars

ExecutorSpec == ExecutorInit /\ [][ExecutorNext]_vars

-----------------------------------------------------------------------------
\* Every variable has its type.
JobTypeOK ==
  /\ kind \in [Jobs -> Kinds]
  /\ pc \in [Jobs -> {"new", "admitted", "running", "done", "cancelled"}]
  /\ result \in [Jobs -> {"none", "denied", "blocked", "ok", "error", "timeout", "honeypot_trip"}]
  /\ baits \subseteq Jobs /\ touched \subseteq Jobs
  /\ audit \subseteq Jobs \X {"blocked", "ok", "error", "timeout", "honeypot_trip"}

\* Every result of a verified token is audited once, as what it was returned
\* as, except a command the breaker blocked.
ResultsAudited ==
  \A j \in Jobs :
    LET entries == {e \in audit : e[1] = j} IN
    IF result[j] \in {"none", "denied"} THEN entries = {}
    ELSE \/ entries = {<<j, result[j]>>}
         \/ kind[j] = "subprocess" /\ result[j] = "blocked" /\ entries = {}

\* Baits are on disk only while their job runs, or after it was cancelled.
BaitsRemoved == \A j \in baits : pc[j] \in {"running", "cancelled"}

\* No job passes the guard while the breaker is open.
KeptOut == \A j \in Jobs : pc[j] = "new" /\ pc'[j] = "admitted" => Seen # "open"
RespectsBreaker == [][KeptOut]_vars

=============================================================================
