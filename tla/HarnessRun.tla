----------------------------- MODULE HarnessRun -----------------------------
(***************************************************************************)
(* obase.harness_adapter.BaseCLIHarnessAdapter: every run is a coroutine   *)
(* that spawns a CLI process and awaits its end under a timeout; cancel is *)
(* another coroutine that signals the process, awaits the same end for ten *)
(* seconds, and only then marks the run.  One step is what a coroutine     *)
(* does between two awaits; which of two waiters wakes first is open.      *)
(*                                                                         *)
(* Outputs are abstracted to the exit code and to whether a native session *)
(* was found in them; argument building and activity projection are left   *)
(* out.  A process may answer SIGTERM or not, so the signal is no step.    *)
(*                                                                         *)
(* A definition named X_Slip is X with a slip a programmer could make; the *)
(* properties are checked to notice it.  Nothing else uses it.             *)
(***************************************************************************)
EXTENDS Naturals

CONSTANTS
  Runs,        \* run identifiers
  Cancellers,  \* coroutines that call cancel
  NoRun        \* a canceller that is not inside a call

NoRunAssumption == NoRun \notin Runs

VARIABLES
  task,       \* the coroutine of run() or resume()
  proc,       \* the process: none, up, dying (SIGKILL sent) or dead (returncode set)
  rc,         \* its exit code: 0 or 1, standing for any other
  status,     \* the tracked status
  session,    \* runs whose output carried a native session
  result,     \* the status of the result the coroutine returned
  canceller,  \* per canceller, the run it waits for
  granted     \* history: runs a cancel of which returned True

vars == <<task, proc, rc, status, session, result, canceller, granted>>

Canonical == {"completed", "failed", "cancelled", "timeout"}

-----------------------------------------------------------------------------
Init ==
  /\ task = [r \in Runs |-> "new"] /\ proc = [r \in Runs |-> "none"]
  /\ rc = [r \in Runs |-> 0]
  /\ status = [r \in Runs |-> "untracked"]
  /\ session = {}
  /\ result = [r \in Runs |-> "none"]
  /\ canceller = [c \in Cancellers |-> NoRun]
  /\ granted = {}

\* The coroutine returns a result with this status and ends.
Answer(r, s) == result' = [result EXCEPT ![r] = s] /\ task' = [task EXCEPT ![r] = "done"]
Mark(r, s) == status' = [status EXCEPT ![r] = s]
Kill_Forgotten(r) == UNCHANGED proc
Kill(r) == proc' = [proc EXCEPT ![r] = IF @ = "up" THEN "dying" ELSE @]

\* run(), and resume() of a run whose native session is known.
Start(r) ==
  /\ task[r] = "new"
  /\ task' = [task EXCEPT ![r] = "creating"]
  /\ Mark(r, "running")
  /\ UNCHANGED <<proc, rc, session, result, canceller, granted>>

\* resume() of a run without one: rejected, nothing is tracked.
ResumeRejected(r) ==
  /\ task[r] = "new"
  /\ \E parent \in Runs \ {r} : parent \notin session
  /\ Answer(r, "failed")
  /\ UNCHANGED <<proc, rc, status, session, canceller, granted>>

Created(r) ==
  /\ task[r] = "creating"
  /\ task' = [task EXCEPT ![r] = "waiting"]
  /\ proc' = [proc EXCEPT ![r] = "up"]
  /\ UNCHANGED <<rc, status, session, result, canceller, granted>>

\* The binary is not there.
SpawnFails(r) ==
  /\ task[r] = "creating"
  /\ Mark(r, "failed") /\ Answer(r, "failed")
  /\ UNCHANGED <<proc, rc, session, canceller, granted>>

\* The process ends; asyncio sets its returncode and wakes the waiters.
Exit(r) ==
  /\ proc[r] \in {"up", "dying"}
  /\ proc' = [proc EXCEPT ![r] = "dead"]
  /\ \E code \in IF proc[r] = "dying" THEN {1} ELSE {0, 1} : rc' = [rc EXCEPT ![r] = code]
  /\ UNCHANGED <<task, status, session, result, canceller, granted>>

\* communicate() returns: a cancelled mark is kept, else the exit code decides.
Verdict_ExitCode(r) == IF rc[r] = 0 THEN "completed" ELSE "failed"
Verdict_Tracked(r) == IF rc[r] = 0 THEN "completed" ELSE status[r]
Verdict(r) == IF status[r] = "cancelled" THEN "cancelled"
              ELSE IF rc[r] = 0 THEN "completed" ELSE "failed"
Collected(r) ==
  /\ task[r] = "waiting" /\ proc[r] = "dead"
  /\ Mark(r, Verdict(r)) /\ Answer(r, Verdict(r))
  /\ \/ Verdict(r) # "cancelled" /\ session' = session \cup {r}
     \/ UNCHANGED session
  /\ UNCHANGED <<proc, rc, canceller, granted>>

\* wait_for gives up: the process is killed, not waited for.
TimedOut_AfterExit(r) ==
  /\ task[r] = "waiting" /\ proc[r] = "dead"
  /\ Kill(r) /\ Mark(r, "timeout") /\ Answer(r, "timeout")
  /\ UNCHANGED <<rc, session, canceller, granted>>
TimedOut(r) ==
  /\ task[r] = "waiting"
  /\ Kill(r) /\ Mark(r, "timeout") /\ Answer(r, "timeout")
  /\ UNCHANGED <<rc, session, canceller, granted>>

\* The caller of run() cancels the coroutine: nothing handles it.
Abandoned(r) ==
  /\ task[r] = "waiting"
  /\ task' = [task EXCEPT ![r] = "gone"]
  /\ UNCHANGED <<proc, rc, status, session, result, canceller, granted>>

\* cancel: without a process that is up (yet, or still) it answers False.
CancelBegins(c, r) ==
  /\ canceller[c] = NoRun /\ proc[r] \in {"up", "dying"}
  /\ canceller' = [canceller EXCEPT ![c] = r]
  /\ UNCHANGED <<task, proc, rc, status, session, result, granted>>

Granted(c) ==
  /\ Mark(canceller[c], "cancelled")
  /\ granted' = granted \cup {canceller[c]}
  /\ canceller' = [canceller EXCEPT ![c] = NoRun]

\* proc.wait() returns in cancel: only now is the run marked.
CancelSeesExit(c) ==
  LET r == canceller[c] IN
  /\ r # NoRun /\ proc[r] = "dead"
  /\ Granted(c)
  /\ UNCHANGED <<task, proc, rc, session, result>>

\* Ten seconds passed: kill and mark; a process that just ended cannot be
\* killed any more and the call answers False.
CancelGivesUp(c) ==
  LET r == canceller[c] IN
  /\ r # NoRun
  /\ IF proc[r] = "dead"
     THEN canceller' = [canceller EXCEPT ![c] = NoRun] /\ UNCHANGED <<proc, status, granted>>
     ELSE Kill(r) /\ Granted(c)
  /\ UNCHANGED <<task, rc, session, result>>

Next ==
  \/ \E r \in Runs :
       \/ Start(r) \/ ResumeRejected(r) \/ Created(r) \/ SpawnFails(r) \/ Exit(r)
       \/ Collected(r) \/ TimedOut(r) \/ Abandoned(r)
  \/ \E c \in Cancellers :
       \/ \E r \in Runs : CancelBegins(c, r)
       \/ CancelSeesExit(c) \/ CancelGivesUp(c)

Spec == Init /\ [][Next]_vars

\* Timers fire, killed processes die, woken coroutines run.
Fairness ==
  /\ \A r \in Runs :
       /\ WF_vars(Created(r) \/ SpawnFails(r))
       /\ WF_vars(Collected(r) \/ TimedOut(r))
       /\ WF_vars(proc[r] = "dying" /\ Exit(r))
  /\ \A c \in Cancellers : WF_vars(CancelSeesExit(c) \/ CancelGivesUp(c))

-----------------------------------------------------------------------------
\* Every variable has its type.
TypeOK ==
  /\ task \in [Runs -> {"new", "creating", "waiting", "done", "gone"}]
  /\ proc \in [Runs -> {"none", "up", "dying", "dead"}]
  /\ rc \in [Runs -> {0, 1}]
  /\ status \in [Runs -> Canonical \cup {"untracked", "running"}]
  /\ session \subseteq Runs
  /\ result \in [Runs -> Canonical \cup {"none"}]
  /\ canceller \in [Cancellers -> Runs \cup {NoRun}]
  /\ granted \subseteq Runs

\* A result, whatever it is, and a granted cancel leave no process running
\* unkilled: a timeout and a stubborn process are killed.  A process that outlives
\* its caller's coroutine is still tracked as running, where cancel finds it.
NoProcessLeftRunning ==
  \A r \in Runs :
    /\ result[r] # "none" \/ r \in granted => proc[r] # "up"
    /\ proc[r] = "up" /\ task[r] # "waiting" => task[r] = "gone" /\ status[r] = "running"

\* A run a cancel of which was granted first is never reported by its exit code.
KeepsTheGrant ==
  \A r \in Runs :
    r \in granted /\ result[r] = "none" /\ result'[r] # "none" => result'[r] \in {"cancelled", "timeout"}
GrantedFirstIsKept == [][KeepsTheGrant]_vars

\* Every run whose caller stays comes to a result, every cancel returns, and
\* the process of a cancelled or timed-out run dies.
EverythingEnds ==
  /\ \A r \in Runs : task[r] = "creating" ~> task[r] \in {"done", "gone"}
  /\ \A c \in Cancellers : canceller[c] # NoRun ~> canceller[c] = NoRun
  /\ \A r \in Runs : r \in granted \/ result[r] = "timeout" ~> proc[r] = "dead"

=============================================================================
