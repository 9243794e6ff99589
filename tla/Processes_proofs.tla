------------------------- MODULE Processes_proofs -------------------------
(***************************************************************************)
(* Proofs about the parts of obase that run other programs, composed as    *)
(* MCProcesses composes them, for any jobs, runs, cancelling coroutines,   *)
(* clients of Docker and names.                                            *)
(***************************************************************************)
EXTENDS MCProcesses, TLAPS

-----------------------------------------------------------------------------
(* The hardened executor.  A job without an end has no result yet, and so  *)
(* no entry in the audit log.                                              *)
JobsTyped ==
  /\ pc \in [Jobs -> {"new", "admitted", "running", "done", "cancelled"}]
  /\ result \in [Jobs -> {"none", "denied", "blocked", "ok", "error", "timeout", "honeypot_trip"}]
  /\ baits \subseteq Jobs

\* A job that has not ended has no result.
NoResultBeforeTheEnd == \A j \in Jobs : pc[j] # "done" => result[j] = "none"

JobInv == JobsTyped /\ NoResultBeforeTheEnd /\ ResultsAudited /\ BaitsRemoved

EntriesOf(j) == {e \in audit : e[1] = j}

-----------------------------------------------------------------------------
\* An audit entry of one job is no entry of another.
LEMMA Auditing ==
  ASSUME NEW j \in Jobs, NEW s, audit' = audit \cup {<<j, s>>}, EntriesOf(j) = {}
  PROVE  /\ EntriesOf(j)' = {<<j, s>>}
         /\ \A k \in Jobs \ {j} : EntriesOf(k)' = EntriesOf(k)
BY DEF EntriesOf

\* A job that ends with an entry for the result it returns.
LEMMA EndsAudited ==
  ASSUME JobInv, NEW j \in Jobs, pc[j] # "done",
         NEW s \in {"blocked", "ok", "error", "timeout", "honeypot_trip"},
         Answers(j, s), Audited(j, s), kind' = kind,
         baits' = baits \ {j} \/ (baits' = baits /\ j \notin baits)
  PROVE  JobInv'
<1> USE DEF JobInv, JobsTyped, NoResultBeforeTheEnd
<1>1. EntriesOf(j) = {}
  BY DEF ResultsAudited, EntriesOf
<1>2. /\ pc' = [pc EXCEPT ![j] = "done"] /\ result' = [result EXCEPT ![j] = s]
      /\ audit' = audit \cup {<<j, s>>}
  BY DEF Answers, GoesTo, Audited
<1>3. EntriesOf(j)' = {<<j, s>>} /\ \A k \in Jobs \ {j} : EntriesOf(k)' = EntriesOf(k)
  BY <1>1, <1>2, Auditing
<1>4. ResultsAudited'
  BY <1>2, <1>3 DEF ResultsAudited, EntriesOf
<1>5. BaitsRemoved'
  BY <1>2 DEF BaitsRemoved
<1> QED BY <1>2, <1>4, <1>5

\* At the start there is nothing to audit and no bait.
LEMMA JobsStart == ExecutorInit => JobInv
  BY DEF ExecutorInit, JobInit, JobInv, JobsTyped, NoResultBeforeTheEnd, ResultsAudited, BaitsRemoved

\* Every step of a job keeps the invariant.
LEMMA JobStepKeeps ==
  ASSUME JobInv, NEW j \in Jobs, JobStep(j)
  PROVE  JobInv'
<1> USE DEF JobInv, JobsTyped, NoResultBeforeTheEnd
<1>1. CASE Denied(j)
  BY <1>1 DEF Denied, Answers, GoesTo, ResultsAudited, BaitsRemoved
<1>2. CASE BlockedByBreaker(j)
  <2>1. CASE kind[j] = "subprocess"
    BY <1>2, <2>1 DEF BlockedByBreaker, Answers, GoesTo, ResultsAudited, BaitsRemoved
  <2>2. CASE kind[j] # "subprocess"
    BY <1>2, <2>2, EndsAudited DEF BlockedByBreaker, BaitsRemoved
  <2> QED BY <2>1, <2>2
<1>3. CASE PassesBreaker(j)
  BY <1>3 DEF PassesBreaker, GoesTo, ResultsAudited, BaitsRemoved
<1>4. CASE Refused(j)
  BY <1>4, EndsAudited DEF Refused, BaitsRemoved
<1>5. CASE Starts(j)
  BY <1>5 DEF Starts, GoesTo, ResultsAudited, BaitsRemoved
<1>6. CASE Touches(j)
  BY <1>6 DEF Touches, ResultsAudited, BaitsRemoved
<1>7. CASE Ends(j)
  <2>1. PICK s \in {"ok", "error", "timeout"} :
          Cleaned(j, s) /\ Answers(j, Status(j, s)) /\ Audited(j, Status(j, s))
    BY <1>7 DEF Ends
  <2>2. Status(j, s) \in {"ok", "error", "timeout", "honeypot_trip"}
    BY DEF Status
  <2>3. pc[j] # "done" /\ kind' = kind /\ baits' = baits \ {j}
    BY <1>7, <2>1 DEF Ends, Cleaned
  <2> QED BY <2>1, <2>2, <2>3, EndsAudited
<1>8. CASE Cancelled(j)
  BY <1>8 DEF Cancelled, GoesTo, ResultsAudited, BaitsRemoved
<1> QED
  BY <1>1, <1>2, <1>3, <1>4, <1>5, <1>6, <1>7, <1>8 DEF JobStep

\* What is logged, and what no invariant above says of the types.
Outcomes == {"blocked", "ok", "error", "timeout", "honeypot_trip"}
AuditOK == audit \subseteq Jobs \X Outcomes
RestOK == kind \in [Jobs -> Kinds] /\ touched \subseteq Jobs

\* Every step of a job keeps those, too.
LEMMA JobTypes ==
  ASSUME AuditOK, RestOK, NEW j \in Jobs, JobStep(j)
  PROVE  AuditOK' /\ RestOK'
<1>1. kind' = kind /\ touched' \subseteq touched \cup {j}
  BY DEF JobStep, Denied, BlockedByBreaker, PassesBreaker, Refused, Starts, Touches, Ends, Cancelled
<1>2. audit' = audit \/ \E s \in Outcomes : audit' = audit \cup {<<j, s>>}
  <2>1. CASE BlockedByBreaker(j) \/ Refused(j)
    BY <2>1 DEF BlockedByBreaker, Refused, Audited, Outcomes
  <2>2. CASE Ends(j)
    <3>1. PICK s \in {"ok", "error", "timeout"} : Audited(j, Status(j, s))
      BY <2>2 DEF Ends
    <3>2. Status(j, s) \in Outcomes
      BY DEF Status, Outcomes
    <3> QED BY <3>1, <3>2 DEF Audited
  <2> QED
    BY <2>1, <2>2 DEF JobStep, Denied, PassesBreaker, Starts, Touches, Cancelled
<1>3. AuditOK'
  BY <1>2 DEF AuditOK
<1> QED BY <1>1, <1>3 DEF RestOK

\* Neither the breaker's other callers nor stuttering touch a job.
LEMMA ExecutorKeepsJobs ==
  ASSUME JobInv, [ExecutorNext]_vars
  PROVE  JobInv'
<1>1. CASE UNCHANGED jobVars
  BY <1>1 DEF jobVars, JobInv, JobsTyped, NoResultBeforeTheEnd, ResultsAudited, BaitsRemoved
<1>2. ASSUME NEW j \in Jobs, JobStep(j) PROVE JobInv'
  BY <1>2, JobStepKeeps
<1> QED BY <1>1, <1>2 DEF ExecutorNext, vars

-----------------------------------------------------------------------------
\* The breaker counts the failures in a row; the flag is kept apart, so that no
\* obligation mixes numbers and Booleans.
CountersOK ==
  /\ st \in {"closed", "open", "half_open"}
  /\ fails \in 0..MaxFailures /\ streak = fails
  /\ call \in [Callers -> {"idle", "closed", "half_open"}]
FlagOK == cooled \in BOOLEAN

\* The breaker starts typed, its counter at nought.
LEMMA BreakerStarts == Init => CountersOK /\ FlagOK
<1>1. Init => CountersOK
  BY ThresholdAssumption DEF Init, CountersOK
<1>2. Init => FlagOK
  BY DEF Init, FlagOK
<1> QED BY <1>1, <1>2

\* Every step of the breaker's callers keeps its types.
LEMMA BreakerStep ==
  ASSUME CountersOK, FlagOK, [Next]_breakerVars
  PROVE  CountersOK' /\ FlagOK'
<1>1. FlagOK'
  <2>1. cooled' = cooled \/ cooled' = TRUE \/ cooled' = FALSE
    BY DEF Next, ReadState, Reset, Cool, Admit, Succeed, Fail, Uncounted, breakerVars
  <2> QED BY <2>1 DEF FlagOK
<1> SUFFICES CountersOK'
  BY <1>1
<1> USE ThresholdAssumption DEF CountersOK
<1>2. CASE ReadState
  BY <1>2 DEF ReadState, Seen
<1>3. CASE Reset
  BY <1>3 DEF Reset
<1>4. CASE Cool
  BY <1>4 DEF Cool
<1>5. ASSUME NEW c \in Callers, Admit(c) PROVE CountersOK'
  <2>1. Seen \in {"closed", "half_open"}
    BY <1>5 DEF Admit, Seen
  <2> QED BY <1>5, <2>1 DEF Admit
<1>6. ASSUME NEW c \in Callers, Succeed(c) PROVE CountersOK'
  BY <1>6 DEF Succeed, Returns
<1>7. ASSUME NEW c \in Callers, Fail(c) PROVE CountersOK'
  <2>1. fails' = fails + 1 /\ streak' = streak + 1 /\ fails < MaxFailures
    BY <1>7 DEF Fail
  <2>2. st' \in {"closed", "open", "half_open"} /\ call' = [call EXCEPT ![c] = "idle"]
    BY <1>7 DEF Fail, Returns
  <2> QED BY <2>1, <2>2
<1>8. ASSUME NEW c \in Callers, Uncounted(c) PROVE CountersOK'
  BY <1>8 DEF Uncounted, Returns
<1>9. CASE UNCHANGED breakerVars
  BY <1>9 DEF breakerVars
<1> QED
  BY <1>2, <1>3, <1>4, <1>5, <1>6, <1>7, <1>8, <1>9 DEF Next

-----------------------------------------------------------------------------
(* The harness adapter.  A process that is up has a run that is tracked as *)
(* running: only the steps that end the process, or see its end, mark the  *)
(* run as something else.                                                  *)
\* Before it is spawned, a run has no process, and it is tracked from Start on.
Unspawned ==
  \A r \in Runs :
    /\ task[r] \in {"new", "creating"} => proc[r] = "none"
    /\ task[r] = "creating" => status[r] = "running"
\* A process that is up is waited for, or its coroutine is gone; nobody was told
\* of its end.
Alive ==
  \A r \in Runs :
    proc[r] = "up" =>
      /\ task[r] \in {"waiting", "gone"} /\ status[r] = "running"
      /\ answer[r] = "none" /\ r \notin granted
\* A result ends its coroutine; what is cancelled had a process; what was granted
\* is marked as long as the coroutine waits.
RunsTold ==
  /\ \A r \in Runs :
       /\ answer[r] # "none" => task[r] = "done"
       /\ r \in granted => proc[r] # "none"
       /\ r \in granted /\ task[r] = "waiting" => status[r] = "cancelled"
  /\ \A c \in Cancellers : canceller[c] # NoRun => proc[canceller[c]] # "none"
HarnessInv == Harness!TypeOK /\ Unspawned /\ Alive /\ RunsTold

\* At the start there is no process and no call of cancel.
LEMMA HarnessStarts == Harness!Init => HarnessInv
  BY DEF Harness!Init, HarnessInv, Harness!TypeOK, Unspawned, Alive, RunsTold, Harness!Canonical

\* Every step of a run's coroutine and of its process keeps the invariant.
LEMMA RunCoroutine ==
  ASSUME HarnessInv, NEW r \in Runs,
         Harness!Start(r) \/ Harness!ResumeRejected(r) \/ Harness!Created(r) \/ Harness!SpawnFails(r) \/ Harness!Exit(r)
           \/ Harness!Collected(r) \/ Harness!TimedOut(r) \/ Harness!Abandoned(r)
  PROVE  HarnessInv'
<1> USE DEF HarnessInv, Harness!TypeOK, Unspawned, Alive, RunsTold, Harness!Canonical
<1>1. CASE Harness!Start(r)
  BY <1>1 DEF Harness!Start, Harness!Mark
<1>2. CASE Harness!ResumeRejected(r)
  BY <1>2 DEF Harness!ResumeRejected, Harness!Answer
<1>3. CASE Harness!Created(r)
  BY <1>3 DEF Harness!Created
<1>4. CASE Harness!SpawnFails(r)
  BY <1>4 DEF Harness!SpawnFails, Harness!Answer, Harness!Mark
<1>5. CASE Harness!Exit(r)
  BY <1>5 DEF Harness!Exit
<1>6. CASE Harness!Collected(r)
  BY <1>6 DEF Harness!Collected, Harness!Answer, Harness!Mark, Harness!Verdict
<1>7. CASE Harness!TimedOut(r)
  BY <1>7 DEF Harness!TimedOut, Harness!Answer, Harness!Mark, Harness!Kill
<1>8. CASE Harness!Abandoned(r)
  BY <1>8 DEF Harness!Abandoned
<1> QED
  BY <1>1, <1>2, <1>3, <1>4, <1>5, <1>6, <1>7, <1>8

\* So does every step of a cancel.
LEMMA CancelCoroutine ==
  ASSUME HarnessInv, NEW c \in Cancellers,
         (\E r \in Runs : Harness!CancelBegins(c, r)) \/ Harness!CancelSeesExit(c) \/ Harness!CancelGivesUp(c)
  PROVE  HarnessInv'
<1> USE DEF HarnessInv, Harness!TypeOK, Unspawned, Alive, RunsTold, Harness!Canonical
<1>1. CASE \E r \in Runs : Harness!CancelBegins(c, r)
  BY <1>1 DEF Harness!CancelBegins
<1>2. CASE Harness!CancelSeesExit(c)
  BY <1>2 DEF Harness!CancelSeesExit, Harness!Granted, Harness!Mark
<1>3. CASE Harness!CancelGivesUp(c)
  BY <1>3 DEF Harness!CancelGivesUp, Harness!Granted, Harness!Mark, Harness!Kill
<1> QED
  BY <1>1, <1>2, <1>3

\* So does every step of the harness adapter.
LEMMA HarnessStep ==
  ASSUME HarnessInv, [Harness!Next]_(Harness!vars)
  PROVE  HarnessInv'
<1>1. CASE UNCHANGED Harness!vars
  BY <1>1 DEF HarnessInv, Harness!TypeOK, Unspawned, Alive, RunsTold, Harness!vars
<1>2. CASE Harness!Next
  BY <1>2, RunCoroutine, CancelCoroutine DEF Harness!Next
<1> QED
  BY <1>1, <1>2

\* _spawn after a granted cancel: the run is reported cancelled or timed out.
LEMMA GrantKept ==
  ASSUME HarnessInv, Harness!Next
  PROVE  Harness!KeepsTheGrant
<1> SUFFICES ASSUME NEW r \in Runs,
                    r \in granted, answer[r] = "none", answer'[r] # "none"
             PROVE  answer'[r] \in {"cancelled", "timeout"}
  BY DEF Harness!KeepsTheGrant
<1> USE DEF HarnessInv, Harness!TypeOK, Unspawned, RunsTold
<1>1. ~(\E c \in Cancellers : (\E s \in Runs : Harness!CancelBegins(c, s)) \/ Harness!CancelSeesExit(c) \/ Harness!CancelGivesUp(c))
  BY DEF Harness!CancelBegins, Harness!CancelSeesExit, Harness!CancelGivesUp
<1>2. PICK s \in Runs : Harness!Start(s) \/ Harness!ResumeRejected(s) \/ Harness!Created(s) \/ Harness!SpawnFails(s) \/ Harness!Exit(s)
                          \/ Harness!Collected(s) \/ Harness!TimedOut(s) \/ Harness!Abandoned(s)
  BY <1>1 DEF Harness!Next
<1>3. CASE Harness!Collected(s)
  BY <1>3 DEF Harness!Collected, Harness!Answer, Harness!Verdict
<1>4. CASE Harness!TimedOut(s)
  BY <1>4 DEF Harness!TimedOut, Harness!Answer
<1>5. CASE Harness!ResumeRejected(s)
  BY <1>5 DEF Harness!ResumeRejected, Harness!Answer
<1>6. CASE Harness!SpawnFails(s)
  BY <1>6 DEF Harness!SpawnFails, Harness!Answer
<1>7. CASE Harness!Start(s) \/ Harness!Created(s) \/ Harness!Exit(s) \/ Harness!Abandoned(s)
  BY <1>7 DEF Harness!Start, Harness!Created, Harness!Exit, Harness!Abandoned
<1> QED
  BY <1>2, <1>3, <1>4, <1>5, <1>6, <1>7

-----------------------------------------------------------------------------
(* Calls with a timeout.  The invariant follows a call through its phases: *)
(* which runners have the phases of the queue, what is told in each, and   *)
(* that only a call that was cancelled ends with its child running.        *)

\* The types of the call but for its code, which no step changes.
TimedTypes ==
  /\ runner \in Timed!Runners
  /\ phase \in {"called", "waiting", "empty", "verdict", "taken", "simplifying", "over"}
  /\ child \in {"none", "running", "well", "badly", "killed"}
  /\ queued \in {"nothing", "well", "badly"}
  /\ box \in {"none", "created", "started"}
  /\ told \in [how: {"not", "returned", "raised"},
               what: {"yet", "good", "bad", "refused", "missing", "timeout", "lost", "cancelled"}]
TimedFlags == present \in BOOLEAN /\ overdue \in BOOLEAN /\ temp \in BOOLEAN
\* Where a call is tells what there is of it.
Phases ==
  /\ phase = "called" => child = "none" /\ queued = "nothing" /\ ~overdue
  /\ phase # "over" => told = Timed!Untold
  /\ phase \in {"empty", "verdict", "taken", "simplifying"} => runner \in Timed!Sympy
  /\ phase = "verdict" => overdue \/ child # "running"
  /\ phase \in {"taken", "simplifying"} => queued # "nothing"
  /\ phase = "simplifying" => queued = "well" /\ child # "running"
  /\ temp => runner \in Timed!WithTemp
TimedInv ==
  /\ TimedTypes /\ TimedFlags /\ code \in Timed!Codes
  /\ Phases /\ Timed!NothingLeft /\ Timed!TrulyTold

\* A runner is a name in a list.
LEMMA RunnersKnown ==
  /\ "docker" \notin Timed!Sympy /\ "evaluate" \in Timed!Sympy
  /\ Timed!Sympy \cap (Timed!WithTemp \cup Timed!Awaiting \cup Timed!Blocking) = {}
  /\ Timed!Awaiting \cap Timed!WithTemp = {} /\ "docker" \notin Timed!WithTemp \cup Timed!Awaiting
BY DEF Timed!Sympy, Timed!Solving, Timed!Integrating, Timed!Printing, Timed!WithTemp,
   Timed!Awaiting, Timed!Blocking

\* A call starts with nothing of it there.
LEMMA TimedStarts == Timed!Init => TimedInv
<1> SUFFICES ASSUME Timed!Init PROVE TimedInv
  OBVIOUS
<1>1. TimedTypes /\ TimedFlags
  BY DEF Timed!Init, TimedTypes, TimedFlags, Timed!Untold
<1>2. code \in Timed!Codes
  <2>1. 1 \in 1..MaxLength + 1 /\ 1 \in 1..MaxDepth + 1
    BY LimitsAssumption
  <2>2. Timed!Plain \in Timed!Codes
    BY <2>1 DEF Timed!Plain, Timed!Codes, Timed!Nodes
  <2> QED BY <2>2 DEF Timed!Init
<1>3. Phases /\ Timed!NothingLeft /\ Timed!TrulyTold
  BY DEF Timed!Init, Phases, Timed!NothingLeft, Timed!TrulyTold, Timed!Untold
<1> QED BY <1>1, <1>2, <1>3 DEF TimedInv

\* Every step of a call or of its child keeps the invariant.
LEMMA TimedStep ==
  ASSUME TimedInv, [Timed!Next]_(Timed!vars)
  PROVE  TimedInv'
<1> USE RunnersKnown
    DEF TimedInv, TimedTypes, TimedFlags, Phases, Timed!NothingLeft, Timed!TrulyTold,
        Timed!Untold, Timed!Tell, Timed!Returned, Timed!Raised, Timed!End
<1>1. CASE Timed!RefuseExpression
  BY <1>1 DEF Timed!RefuseExpression
<1>2. CASE Timed!RefuseCommand
  BY <1>2 DEF Timed!RefuseCommand
<1>3. CASE Timed!MakeTemp
  BY <1>3 DEF Timed!MakeTemp
<1>4. CASE Timed!StartFails
  BY <1>4 DEF Timed!StartFails, Timed!Ready, Timed!NotStarted
<1>5. CASE Timed!Start
  BY <1>5 DEF Timed!Start, Timed!Ready
<1>6. CASE Timed!WorkerPuts
  BY <1>6 DEF Timed!WorkerPuts
<1>7. CASE Timed!ChildEnds
  BY <1>7 DEF Timed!ChildEnds
<1>8. CASE Timed!DeadlinePasses
  BY <1>8 DEF Timed!DeadlinePasses
<1>9. CASE Timed!PollTakes
  BY <1>9 DEF Timed!PollTakes
<1>10. CASE Timed!PollEmpty
  BY <1>10 DEF Timed!PollEmpty
<1>11. CASE Timed!AskAlive
  BY <1>11 DEF Timed!AskAlive
<1>12. CASE Timed!Verdict
  BY <1>12 DEF Timed!Verdict
<1>13. CASE Timed!Join
  BY <1>13 DEF Timed!Join
<1>14. CASE Timed!Simplify
  BY <1>14 DEF Timed!Simplify
<1>15. CASE Timed!Ended
  <2>1. /\ phase' = "over" /\ temp' = FALSE /\ child \in {"well", "badly"} /\ runner \notin Timed!Sympy
        /\ UNCHANGED <<runner, present, code, child, queued, overdue, box>>
    BY <1>15 DEF Timed!Ended
  <2>2. \/ told' = Timed!Returned("good") /\ child = "well"
        \/ told' = Timed!Returned("bad") \/ told' = Timed!Raised("bad")
    BY <1>15 DEF Timed!Ended, Timed!Bad
  <2>3. CASE told' = Timed!Returned("good") /\ child = "well"
    BY <2>1, <2>3
  <2>4. CASE told' = Timed!Returned("bad")
    BY <2>1, <2>4
  <2>5. CASE told' = Timed!Raised("bad")
    BY <2>1, <2>5
  <2> QED BY <2>2, <2>3, <2>4, <2>5
<1>16. CASE Timed!Expired
  BY <1>16 DEF Timed!Expired
<1>17. CASE Timed!Cancelled
  BY <1>17 DEF Timed!Cancelled
<1>18. CASE Timed!DockerEnded
  BY <1>18 DEF Timed!DockerEnded, Timed!Remove
<1>19. CASE Timed!DockerWaitFails
  BY <1>19 DEF Timed!DockerWaitFails, Timed!Remove
<1>20. CASE UNCHANGED Timed!vars
  BY <1>20 DEF Timed!vars
<1> QED
  BY <1>1, <1>2, <1>3, <1>4, <1>5, <1>6, <1>7, <1>8, <1>9, <1>10, <1>11, <1>12, <1>13, <1>14,
     <1>15, <1>16, <1>17, <1>18, <1>19, <1>20 DEF Timed!Next, Timed!CallerNext

-----------------------------------------------------------------------------
(* Operations on Docker.  A container keeps its id and is gone for good    *)
(* once it is gone, so that a call that looked one up may tell of it later;*)
(* what a call has changed is known from the step it is at.                *)

Steps == {"idle", "get", "do", "reload", "exec", "late", "prune more", "over"}
Replies == {"nothing", "ok", "not found", "invalid", "auth", "connection", "raw", "unreachable"}
CallRecords ==
  [op: Docker!Ops \cup {"none"}, name: Names \cup {"none"}, id: 0..MaxIds,
   step: Steps, done: BOOLEAN, lost: BOOLEAN, said: Replies]

\* The daemon: names and containers are one to one, and no id is given out twice.
DaemonInv ==
  /\ ids \in 1..MaxIds /\ names \in [Names -> 0..ids]
  /\ state \in [1..MaxIds -> Docker!States] /\ things \subseteq Docker!Things
  /\ Docker!NamesAreExact

\* What the step of a call tells of what it did.
CallOK(r) ==
  /\ r.id <= ids
  /\ r.op \in Docker!OnContainer \cup {"create"} => r.name \in Names
  /\ r.step = "get" => r.op \in Docker!OnContainer
  /\ r.step \in {"idle", "get", "do"} => ~r.done
  /\ r.step # "over" => r.said = "nothing"
  /\ r.step \in {"reload", "exec", "late"} \/ (r.step = "do" /\ r.op \in Docker!OnContainer) => r.id # 0
  /\ r.step \in {"exec", "late"} => r.op = "exec"
  /\ r.step = "prune more" => r.op = "prune"
  /\ r.said \in {"not found", "invalid", "auth", "unreachable"} => ~r.done
  /\ r.said = "connection" /\ r.done => r.op \in {"exec", "prune"} \cup Docker!Compose
  /\ r.said = "raw" => r.lost \/ (r.id # 0 /\ state[r.id] = "absent")
CallsOK == request \in [Clients -> CallRecords] /\ \A c \in Clients : CallOK(request[c])

DockerInv == DaemonInv /\ CallsOK

\* Nothing that is gone comes back.
Later == ids <= ids' /\ \A i \in 1..ids : state[i] = "absent" => state'[i] = "absent"
\* Only this client's call goes on.
Only(c) ==
  request' \in [Clients -> CallRecords] /\ \A d \in Clients \ {c} : request'[d] = request[d]

\* It stays a call of the same operation on the same container.
Same(c) ==
  request'[c].op = request[c].op /\ request'[c].name = request[c].name /\ request'[c].id = request[c].id

\* The daemon starts with one container, under one name; no call is under way.
LEMMA DockerStarts == Docker!Init => DockerInv
<1> SUFFICES ASSUME Docker!Init PROVE DockerInv
  OBVIOUS
<1>1. PICK one \in Names : names = [n \in Names |-> IF n = one THEN 1 ELSE 0]
  <2>1. (CHOOSE n \in Names : TRUE) \in Names
    BY DockerAssumption
  <2> QED BY <2>1 DEF Docker!Init
<1>2. /\ ids = 1 /\ MaxIds \in Nat \ {0} /\ state \in [1..MaxIds -> Docker!States]
      /\ state[1] # "absent" /\ \A i \in 2..MaxIds : state[i] = "absent"
  BY DockerAssumption DEF Docker!Init, Docker!States
<1>3. Docker!NamesAreExact
  <2>1. Docker!Existing = {1}
    BY <1>2 DEF Docker!Existing
  <2> QED BY <1>1, <1>2, <2>1 DEF Docker!NamesAreExact
<1>4. DaemonInv
  <2>1. things \subseteq Docker!Things
    BY DEF Docker!Init, Docker!Things
  <2> QED BY <1>1, <1>2, <1>3, <2>1 DEF DaemonInv
<1>5. CallsOK
  <2>1. Docker!Idle \in CallRecords
    BY <1>2 DEF Docker!Idle, CallRecords, Steps, Replies
  <2>2. request = [c \in Clients |-> Docker!Idle]
    BY DEF Docker!Init
  <2>3. CallOK(Docker!Idle)
    BY <1>2 DEF CallOK, Docker!Idle, Docker!OnContainer, Docker!Turns
  <2> QED BY <2>1, <2>2, <2>3 DEF CallsOK
<1> QED BY <1>4, <1>5 DEF DockerInv

\* Whatever leaves the containers and their names alone keeps the daemon sound.
LEMMA NothingMoved ==
  ASSUME DaemonInv, UNCHANGED <<names, state, ids>>, things' \subseteq Docker!Things
  PROVE  DaemonInv' /\ Later
<1>1. Docker!NamesAreExact'
  BY DEF DaemonInv, Docker!NamesAreExact, Docker!Existing
<1> QED BY <1>1 DEF DaemonInv, Later

\* So does a change of the state of containers that exist to another than absent.
LEMMA Moved ==
  ASSUME DaemonInv, UNCHANGED <<names, ids, things>>,
         state' \in [1..MaxIds -> Docker!States],
         \A i \in 1..MaxIds : state'[i] = "absent" <=> state[i] = "absent"
  PROVE  DaemonInv' /\ Later
<1> USE DockerAssumption
<1>1. Docker!Existing' = Docker!Existing
  BY DEF DaemonInv, Docker!Existing
<1>2. Docker!NamesAreExact'
  BY <1>1 DEF DaemonInv, Docker!NamesAreExact
<1> QED BY <1>2 DEF DaemonInv, Later

\* So does removing containers with their names.
LEMMA Forgotten ==
  ASSUME DaemonInv, NEW is, Docker!Forget(is), UNCHANGED <<ids, things>>
  PROVE  DaemonInv' /\ Later
<1> USE DockerAssumption
<1>1. /\ state' = [i \in 1..MaxIds |-> IF i \in is THEN "absent" ELSE state[i]]
      /\ names' = [n \in Names |-> IF names[n] \in is THEN 0 ELSE names[n]]
  BY DEF Docker!Forget, DaemonInv
<1>2. state' \in [1..MaxIds -> Docker!States] /\ names' \in [Names -> 0..ids]
  BY <1>1 DEF DaemonInv, Docker!States
<1>3. Docker!NamesAreExact'
  <2>1. Docker!Existing' = Docker!Existing \ is
    BY <1>1 DEF Docker!Existing, DaemonInv
  <2>2. \A n \in Names : names'[n] # 0 => names[n] \notin is /\ names'[n] = names[n] /\ names[n] \in 1..MaxIds
    BY <1>1 DEF DaemonInv
  <2>3. \A n \in Names : names'[n] # 0 => state'[names'[n]] # "absent"
    BY <1>1, <2>2 DEF DaemonInv, Docker!NamesAreExact
  <2>4. ASSUME NEW i \in Docker!Existing'
        PROVE  \E n \in Names : names'[n] = i /\ \A m \in Names \ {n} : names'[m] # i
    <3>1. i \in Docker!Existing /\ i \notin is /\ i # 0
      BY <2>1 DEF Docker!Existing
    <3>2. PICK n \in Names : names[n] = i /\ \A m \in Names \ {n} : names[m] # i
      BY <3>1 DEF DaemonInv, Docker!NamesAreExact
    <3> QED BY <1>1, <3>1, <3>2
  <2> QED BY <2>3, <2>4 DEF Docker!NamesAreExact
<1> QED BY <1>1, <1>2, <1>3 DEF DaemonInv, Later

\* So does giving a container that exists a name that is free instead of its own.
LEMMA Renamed ==
  ASSUME DaemonInv, NEW i \in 1..ids, state[i] # "absent", NEW n \in Names, names[n] = 0,
         names' = [m \in Names |-> CASE m = n -> i [] names[m] = i -> 0 [] OTHER -> names[m]],
         UNCHANGED <<state, ids, things>>
  PROVE  DaemonInv' /\ Later
<1> USE DockerAssumption
<1>1. /\ names'[n] = i
      /\ \A m \in Names \ {n} : names'[m] = IF names[m] = i THEN 0 ELSE names[m]
      /\ names' \in [Names -> 0..ids]
  BY DEF DaemonInv
<1>2. Docker!Existing' = Docker!Existing
  BY DEF Docker!Existing
<1>3. Docker!NamesAreExact'
  <2>1. \A m \in Names : names'[m] # 0 => state'[names'[m]] # "absent"
    BY <1>1 DEF DaemonInv, Docker!NamesAreExact
  <2>2. ASSUME NEW k \in Docker!Existing'
        PROVE  \E m \in Names : names'[m] = k /\ \A o \in Names \ {m} : names'[o] # k
    <3>1. CASE k = i
      <4>1. \A o \in Names \ {n} : names'[o] # i
        BY <1>1
      <4> QED BY <1>1, <3>1, <4>1
    <3>2. CASE k # i
      <4>1. PICK m \in Names : names[m] = k /\ \A o \in Names \ {m} : names[o] # k
        BY <1>2 DEF DaemonInv, Docker!NamesAreExact
      <4>2. k # 0
        BY <1>2 DEF Docker!Existing
      <4>3. m # n /\ names'[m] = k /\ \A o \in Names \ {m} : names'[o] # k
        BY <1>1, <3>2, <4>1, <4>2
      <4> QED BY <4>3
    <3> QED BY <3>1, <3>2
  <2> QED BY <2>1, <2>2 DEF Docker!NamesAreExact
<1> QED BY <1>1, <1>3 DEF DaemonInv, Later

\* So does making a container, under the next id and a name that is free.
LEMMA MadeContainer ==
  ASSUME DaemonInv, ids < MaxIds, NEW n \in Names, names[n] = 0,
         ids' = ids + 1, state' = [state EXCEPT ![ids'] = "created"],
         names' = [names EXCEPT ![n] = ids'], UNCHANGED things
  PROVE  DaemonInv' /\ Later
<1> USE DockerAssumption
<1>1. ids' \in 1..MaxIds /\ ids' \notin 0..ids /\ 1..ids' = 1..ids \cup {ids'}
  BY DEF DaemonInv
<1>2. /\ names'[n] = ids' /\ \A m \in Names \ {n} : names'[m] = names[m]
      /\ state'[ids'] = "created" /\ \A k \in 1..ids : state'[k] = state[k]
      /\ names' \in [Names -> 0..ids'] /\ state' \in [1..MaxIds -> Docker!States]
  BY <1>1 DEF DaemonInv, Docker!States
<1>3. \A m \in Names : names[m] \in 0..ids
  BY DEF DaemonInv
<1>4. Docker!NamesAreExact'
  <2>1. \A m \in Names : names'[m] # 0 => state'[names'[m]] # "absent"
    BY <1>2, <1>3 DEF DaemonInv, Docker!NamesAreExact
  <2>2. ASSUME NEW k \in Docker!Existing'
        PROVE  \E m \in Names : names'[m] = k /\ \A o \in Names \ {m} : names'[o] # k
    <3>1. CASE k = ids'
      <4>1. \A o \in Names \ {n} : names'[o] # ids'
        BY <1>1, <1>2, <1>3
      <4> QED BY <1>2, <3>1, <4>1
    <3>2. CASE k # ids'
      <4>1. k \in 1..ids /\ k \in Docker!Existing /\ k # 0
        BY <1>1, <1>2, <3>2 DEF Docker!Existing
      <4>2. PICK m \in Names : names[m] = k /\ \A o \in Names \ {m} : names[o] # k
        BY <4>1 DEF DaemonInv, Docker!NamesAreExact
      <4>3. m # n /\ names'[m] = k /\ \A o \in Names \ {m} : names'[o] # k
        BY <1>2, <3>2, <4>1, <4>2
      <4> QED BY <4>3
    <3> QED BY <3>1, <3>2
  <2> QED BY <2>1, <2>2 DEF Docker!NamesAreExact
<1> QED BY <1>1, <1>2, <1>4 DEF DaemonInv, Later

-----------------------------------------------------------------------------
\* A call that answers does so at its end.
LEMMA Answering ==
  ASSUME CallsOK, NEW c \in Clients, NEW what \in Replies, NEW did \in BOOLEAN,
         Docker!Says(c, what, did)
  PROVE  /\ Only(c) /\ Same(c)
         /\ request'[c].step = "over" /\ request'[c].said = what
         /\ request'[c].lost = request[c].lost
         /\ did = FALSE => request'[c].done = request[c].done
<1>1. request[c] \in CallRecords /\ request \in [Clients -> CallRecords]
  BY DEF CallsOK
<1>2. request' = [request EXCEPT ![c] = [request[c] EXCEPT !.step = "over", !.said = what,
                                                          !.done = request[c].done \/ did]]
  BY <1>1 DEF Docker!Says
<1>3. (request[c].done \/ did) \in BOOLEAN
  BY <1>1 DEF CallRecords
<1>4. [request[c] EXCEPT !.step = "over", !.said = what, !.done = request[c].done \/ did]
        \in CallRecords
  BY <1>1, <1>3 DEF CallRecords, Steps
<1> QED BY <1>1, <1>2, <1>4 DEF CallRecords, Only, Same

\* A call that goes on is at its next step.
LEMMA GoingOn ==
  ASSUME CallsOK, NEW c \in Clients, NEW step \in Steps, NEW did \in BOOLEAN,
         Docker!Goes(c, step, did)
  PROVE  /\ Only(c) /\ Same(c)
         /\ request'[c].step = step /\ request'[c].said = request[c].said
<1>1. request[c] \in CallRecords /\ request \in [Clients -> CallRecords]
  BY DEF CallsOK
<1>2. request' = [request EXCEPT ![c] = [request[c] EXCEPT !.step = step, !.done = request[c].done \/ did]]
  BY <1>1 DEF Docker!Goes
<1>3. (request[c].done \/ did) \in BOOLEAN
  BY <1>1 DEF CallRecords
<1>4. [request[c] EXCEPT !.step = step, !.done = request[c].done \/ did] \in CallRecords
  BY <1>1, <1>3 DEF CallRecords
<1> QED BY <1>1, <1>2, <1>4 DEF CallRecords, Only, Same

\* What one client does, and what becomes of the containers, leaves the other
\* calls as sound as they were.
LEMMA OthersKept ==
  ASSUME DockerInv, DaemonInv', Later, NEW c \in Clients, Only(c), CallOK(request[c])'
  PROVE  DockerInv'
<1>1. ASSUME NEW d \in Clients PROVE CallOK(request[d])'
  <2>1. CASE d = c
    BY <2>1
  <2>2. CASE d # c
    <3>1. request'[d] = request[d] /\ CallOK(request[d]) /\ request[d] \in CallRecords
      BY <2>2 DEF Only, DockerInv, CallsOK
    <3>2. request[d].id \in 0..MaxIds /\ ids \in 1..MaxIds /\ ids' \in 1..MaxIds
      BY <3>1 DEF CallRecords, DockerInv, DaemonInv
    <3>3. request[d].id <= ids /\ ids <= ids'
      BY <3>1 DEF CallOK, Later
    <3>4. request[d].id <= ids'
      BY <3>2, <3>3, DockerAssumption
    <3>5. request[d].id # 0 => request[d].id \in 1..ids
      BY <3>2, <3>3, DockerAssumption
    <3>6. request[d].id # 0 /\ state[request[d].id] = "absent" => state'[request[d].id] = "absent"
      BY <3>5 DEF Later
    <3> QED BY <3>1, <3>4, <3>6 DEF CallOK
  <2> QED BY <2>1, <2>2
<1> QED BY <1>1 DEF DockerInv, CallsOK, Only

\* The id a call has found stays given out, and the name it is about a name.
LEMMA AboutKept ==
  ASSUME DockerInv, DaemonInv', Later, NEW c \in Clients, Same(c)
  PROVE  /\ request'[c].id <= ids'
         /\ request'[c].op \in Docker!OnContainer \cup {"create"} => request'[c].name \in Names
<1>1. request[c].id \in 0..MaxIds /\ ids \in 1..MaxIds /\ ids' \in 1..MaxIds
  BY DEF CallRecords, DockerInv, CallsOK, DaemonInv
<1>2. request[c].id <= ids /\ ids <= ids'
  BY DEF DockerInv, CallsOK, CallOK, Later
<1>3. request[c].id <= ids'
  BY <1>1, <1>2, DockerAssumption
<1> QED BY <1>3 DEF Same, DockerInv, CallsOK, CallOK

\* An answer, but for raw errors, of a call that has changed nothing.
LEMMA AnswersUnchanged ==
  ASSUME DockerInv, NEW c \in Clients, Docker!Kept, request[c].step \in {"get", "do"},
         NEW what \in Replies \ {"nothing", "raw"}, Docker!Says(c, what, FALSE)
  PROVE  DockerInv'
<1>1. DaemonInv' /\ Later
  BY NothingMoved DEF DockerInv, DaemonInv, Docker!Kept
<1>2. /\ Only(c) /\ Same(c) /\ request'[c].step = "over" /\ request'[c].said = what
      /\ request'[c].done = request[c].done
  BY Answering DEF DockerInv
<1>3. ~request'[c].done
  BY <1>2 DEF DockerInv, CallsOK, CallOK
<1>4. /\ request'[c].id <= ids'
      /\ request'[c].op \in Docker!OnContainer \cup {"create"} => request'[c].name \in Names
  BY <1>1, <1>2, AboutKept
<1>5. CallOK(request[c])'
  BY <1>2, <1>3, <1>4 DEF CallOK, Same
<1> QED BY <1>1, <1>2, <1>5, OthersKept

\* An answer that all went well.
LEMMA AnswersWell ==
  ASSUME DockerInv, DaemonInv', Later, NEW c \in Clients,
         \E did \in BOOLEAN : Docker!Says(c, "ok", did)
  PROVE  DockerInv'
<1>1. Only(c) /\ Same(c) /\ request'[c].step = "over" /\ request'[c].said = "ok"
  BY Answering DEF DockerInv, Replies
<1>2. /\ request'[c].id <= ids'
      /\ request'[c].op \in Docker!OnContainer \cup {"create"} => request'[c].name \in Names
  BY <1>1, AboutKept
<1>3. CallOK(request[c])'
  BY <1>1, <1>2 DEF CallOK, Same
<1> QED BY <1>1, <1>3, OthersKept

\* A connection error of a call that does several things.
LEMMA AnswersInPart ==
  ASSUME DockerInv, DaemonInv', Later, NEW c \in Clients,
         request[c].op \in {"exec", "prune"} \cup Docker!Compose,
         \E did \in BOOLEAN : Docker!Says(c, "connection", did)
  PROVE  DockerInv'
<1>1. /\ Only(c) /\ Same(c) /\ request'[c].step = "over" /\ request'[c].said = "connection"
  BY Answering DEF DockerInv, Replies
<1>2. /\ request'[c].id <= ids'
      /\ request'[c].op \in Docker!OnContainer \cup {"create"} => request'[c].name \in Names
  BY <1>1, AboutKept
<1>3. CallOK(request[c])'
  BY <1>1, <1>2 DEF CallOK, Same
<1> QED BY <1>1, <1>3, OthersKept

\* The next step of a call that has not answered.
LEMMA GoesOn ==
  ASSUME DockerInv, DaemonInv', Later, NEW c \in Clients, request[c].step # "over",
         NEW step \in {"reload", "exec", "late", "prune more"},
         \E did \in BOOLEAN : Docker!Goes(c, step, did),
         step = "prune more" => request[c].op = "prune",
         step \in {"exec", "late"} => request[c].op = "exec",
         step # "prune more" => request[c].id # 0
  PROVE  DockerInv'
<1>1. /\ Only(c) /\ Same(c) /\ request'[c].step = step /\ request'[c].said = request[c].said
  BY GoingOn DEF DockerInv, Steps
<1>2. /\ request'[c].id <= ids'
      /\ request'[c].op \in Docker!OnContainer \cup {"create"} => request'[c].name \in Names
  BY <1>1, AboutKept
<1>3. request'[c].said = "nothing"
  BY <1>1 DEF DockerInv, CallsOK, CallOK
<1>4. CallOK(request[c])'
  BY <1>1, <1>2, <1>3 DEF CallOK, Same
<1> QED BY <1>1, <1>4, OthersKept

\* A call that looks a container up, or reads, changes nothing.
LEMMA DockerReads ==
  ASSUME DockerInv, NEW c \in Clients,
         \/ Docker!Unreachable(c) \/ Docker!GetContainer(c) \/ Docker!Logs(c) \/ Docker!Stats(c)
         \/ Docker!Inspect(c) \/ Docker!ListContainers(c) \/ Docker!ListImages(c)
         \/ Docker!ListNetworks(c) \/ Docker!ListVolumes(c) \/ Docker!NodeInfo(c) \/ Docker!Reload(c)
  PROVE  DockerInv'
<1>1. CASE Docker!Unreachable(c)
  BY <1>1, AnswersUnchanged DEF Docker!Unreachable, Replies
<1>2. CASE Docker!GetContainer(c)
  <2>1. CASE names[request[c].name] = 0
    BY <1>2, <2>1, AnswersUnchanged DEF Docker!GetContainer, Replies
  <2>2. CASE names[request[c].name] # 0
    <3> DEFINE i == names[request[c].name]
               r == [request[c] EXCEPT !.id = i, !.step = "do"]
    <3>0. /\ Docker!Kept /\ request[c].step = "get"
          /\ request' = [request EXCEPT ![c].id = names[request[c].name], ![c].step = "do"]
      BY <1>2, <2>2 DEF Docker!GetContainer
    <3>1. Docker!Kept /\ request[c].step = "get" /\ request' = [request EXCEPT ![c] = r]
      <4>1. request \in [Clients -> CallRecords]
        BY DEF DockerInv, CallsOK
      <4>2. request' = [request EXCEPT ![c] = [request[c] EXCEPT !.id = names[request[c].name], !.step = "do"]]
        BY <3>0, <4>1
      <4> QED BY <3>0, <4>2
    <3>2. DaemonInv' /\ Later
      BY <3>1, NothingMoved DEF DockerInv, DaemonInv, Docker!Kept
    <3>3. request[c].op \in Docker!OnContainer /\ request[c].name \in Names
      BY <3>1 DEF DockerInv, CallsOK, CallOK
    <3>4. i \in 1..ids /\ ids' = ids
      BY <2>2, <3>1, <3>3 DEF Docker!Kept, DockerInv, DaemonInv
    <3>5. /\ request[c] \in CallRecords /\ request \in [Clients -> CallRecords]
          /\ request[c].said = "nothing" /\ ~request[c].done
      BY <3>1 DEF DockerInv, CallsOK, CallOK
    <3>6. i \in 0..MaxIds /\ i <= ids' /\ i # 0
      BY <3>4, DockerAssumption DEF DockerInv, DaemonInv
    <3>7. /\ r \in CallRecords /\ r.id = i /\ r.step = "do" /\ r.said = "nothing" /\ ~r.done
          /\ r.op = request[c].op /\ r.name = request[c].name
      BY <3>5, <3>6 DEF CallRecords, Steps
    <3>8. Only(c) /\ request'[c] = r
      BY <3>1, <3>5, <3>7 DEF Only
    <3> HIDE DEF i, r
    <3>9. CallOK(request[c])'
      BY <3>3, <3>6, <3>7, <3>8 DEF CallOK
    <3> QED BY <3>2, <3>8, <3>9, OthersKept
  <2> QED BY <2>1, <2>2
<1>3. CASE Docker!Logs(c) \/ Docker!Stats(c)
  BY <1>3, AnswersUnchanged DEF Docker!Logs, Docker!Stats, Docker!Read, Docker!Here, Replies
<1>4. CASE Docker!Inspect(c)
  <2>1. DaemonInv' /\ Later
    BY <1>4, NothingMoved DEF DockerInv, DaemonInv, Docker!Kept, Docker!Inspect
  <2>2. request[c].step # "over" /\ request[c].id # 0
    BY <1>4 DEF Docker!Inspect, Docker!Here, DockerInv, CallsOK, CallOK, Docker!OnContainer
  <2> QED BY <1>4, <2>1, <2>2, GoesOn DEF Docker!Inspect
<1>5. CASE \/ Docker!ListContainers(c) \/ Docker!ListImages(c) \/ Docker!ListNetworks(c)
           \/ Docker!ListVolumes(c) \/ Docker!NodeInfo(c)
  BY <1>5, AnswersUnchanged
     DEF Docker!ListContainers, Docker!ListImages, Docker!ListNetworks, Docker!ListVolumes,
         Docker!NodeInfo, Docker!Here, Replies
<1>6. CASE Docker!Reload(c)
  <2>1. DaemonInv' /\ Later
    BY <1>6, NothingMoved DEF DockerInv, DaemonInv, Docker!Kept, Docker!Reload
  <2>2. CASE state[request[c].id] # "absent"
    BY <1>6, <2>1, <2>2, AnswersWell DEF Docker!Reload
  <2>3. CASE state[request[c].id] = "absent"
    <3>1. Only(c) /\ Same(c) /\ request'[c].step = "over" /\ request'[c].said = "raw"
      BY <1>6, <2>3, Answering DEF Docker!Reload, DockerInv, Replies
    <3>2. request[c].id # 0 /\ state'[request[c].id] = "absent"
      BY <1>6, <2>3 DEF Docker!Reload, Docker!Kept, DockerInv, CallsOK, CallOK
    <3>3. /\ request'[c].id <= ids'
          /\ request'[c].op \in Docker!OnContainer \cup {"create"} => request'[c].name \in Names
      BY <2>1, <3>1, AboutKept
    <3>4. CallOK(request[c])'
      BY <3>1, <3>2, <3>3 DEF CallOK, Same
    <3> QED BY <2>1, <3>1, <3>4, OthersKept
  <2> QED BY <2>2, <2>3
<1> QED BY <1>1, <1>2, <1>3, <1>4, <1>5, <1>6

\* A call that acts on a container it found.
LEMMA DockerActs ==
  ASSUME DockerInv, NEW c \in Clients,
         \/ Docker!Turn(c) \/ Docker!Remove(c) \/ (\E n \in Names : Docker!Rename(c, n)) \/ Docker!Create(c)
         \/ Docker!Exec(c) \/ Docker!ExecEnds(c) \/ Docker!ExecDue(c)
  PROVE  DockerInv'
<1> DEFINE i == request[c].id
<1> USE DockerAssumption
<1>0. /\ request[c] \in CallRecords /\ CallOK(request[c]) /\ DaemonInv /\ CallsOK
      /\ ids \in 1..MaxIds /\ i \in 0..MaxIds
  BY DEF DockerInv, CallsOK, CallRecords, DaemonInv
<1>a. i # 0 => i \in 1..ids /\ i \in 1..MaxIds
  <2>1. i <= ids
    BY <1>0 DEF CallOK
  <2> QED BY <1>0, <2>1
<1>b. Docker!Kept => DaemonInv' /\ Later
  BY NothingMoved DEF DockerInv, DaemonInv, Docker!Kept
<1>1. CASE Docker!Turn(c)
  <2>0. request[c].op \in Docker!Turns /\ request[c].step = "do" /\ i # 0
    BY <1>0, <1>1 DEF Docker!Turn, CallOK, Docker!OnContainer
  <2>1. CASE state[i] = "absent" \/ (request[c].op # "stop" /\ "network" \notin things)
    BY <1>1, <2>0, <2>1, AnswersUnchanged DEF Docker!Turn, Docker!Refused, Replies
  <2>2. CASE ~(state[i] = "absent" \/ (request[c].op # "stop" /\ "network" \notin things))
    <3>1. /\ state' = [state EXCEPT ![i] = Docker!Turned(request[c].op, state[i])]
          /\ UNCHANGED <<names, ids, things>> /\ state[i] # "absent"
          /\ Docker!Goes(c, "reload", state' # state)
      BY <1>1, <2>2 DEF Docker!Turn
    <3>2. Docker!Turned(request[c].op, state[i]) \in Docker!States \ {"absent"}
      BY <1>0, <1>a, <2>0, <3>1 DEF Docker!Turned, Docker!States, DaemonInv
    <3>3. /\ state' \in [1..MaxIds -> Docker!States]
          /\ \A k \in 1..MaxIds : state'[k] = "absent" <=> state[k] = "absent"
      BY <1>0, <3>1, <3>2 DEF DaemonInv
    <3>4. DaemonInv' /\ Later
      BY <1>0, <3>1, <3>3, Moved
    <3>5. \E did \in BOOLEAN : Docker!Goes(c, "reload", did)
      BY <3>1
    <3> QED BY <2>0, <3>4, <3>5, GoesOn
  <2> QED BY <2>1, <2>2
<1>2. CASE Docker!Remove(c)
  <2>0. request[c].step = "do" /\ i # 0
    BY <1>0, <1>2 DEF Docker!Remove, Docker!Here, CallOK, Docker!OnContainer
  <2>1. CASE state[i] = "absent"
    BY <1>2, <2>0, <2>1, AnswersUnchanged DEF Docker!Remove, Docker!Refused, Replies
  <2>2. CASE state[i] = "running" /\ request[c].op = "remove"
    BY <1>2, <2>0, <2>2, AnswersUnchanged DEF Docker!Remove, Replies
  <2>3. CASE state[i] # "absent" /\ ~(state[i] = "running" /\ request[c].op = "remove")
    <3>1. Docker!Forget({i}) /\ Docker!Says(c, "ok", TRUE) /\ UNCHANGED <<ids, things>>
      BY <1>2, <2>3 DEF Docker!Remove
    <3>2. DaemonInv' /\ Later
      BY <1>0, <3>1, Forgotten
    <3> QED BY <3>1, <3>2, AnswersWell
  <2> QED BY <2>1, <2>2, <2>3
<1>3. ASSUME NEW n \in Names, Docker!Rename(c, n) PROVE DockerInv'
  <2>0. request[c].step = "do" /\ i # 0
    BY <1>0, <1>3 DEF Docker!Rename, Docker!Here, CallOK, Docker!OnContainer
  <2>1. CASE state[i] = "absent"
    BY <1>3, <2>0, <2>1, AnswersUnchanged DEF Docker!Rename, Docker!Refused, Replies
  <2>2. CASE state[i] # "absent" /\ names[n] # 0
    BY <1>3, <2>0, <2>2, AnswersUnchanged DEF Docker!Rename, Replies
  <2>3. CASE state[i] # "absent" /\ names[n] = 0
    <3>1. /\ names' = [m \in Names |-> CASE m = n -> i [] names[m] = i -> 0 [] OTHER -> names[m]]
          /\ Docker!Says(c, "ok", TRUE) /\ UNCHANGED <<state, ids, things>>
      BY <1>3, <2>3 DEF Docker!Rename
    <3>2. i \in 1..ids
      BY <1>a, <2>0
    <3>3. DaemonInv' /\ Later
      BY <1>0, <2>3, <3>1, <3>2, Renamed
    <3> QED BY <3>1, <3>3, AnswersWell
  <2> QED BY <2>1, <2>2, <2>3
<1>4. CASE Docker!Create(c)
  <2> DEFINE n == request[c].name
  <2>0. request[c].step = "do" /\ n \in Names /\ ids < MaxIds
    BY <1>0, <1>4 DEF Docker!Create, Docker!Here, CallOK
  <2>1. CASE "image" \notin things
    BY <1>4, <2>0, <2>1, AnswersUnchanged DEF Docker!Create, Replies
  <2>2. CASE "image" \in things /\ names[n] # 0
    BY <1>4, <2>0, <2>2, AnswersUnchanged DEF Docker!Create, Docker!Refused, Replies
  <2>3. CASE "image" \in things /\ names[n] = 0
    <3>1. CASE Docker!Kept /\ Docker!Says(c, "invalid", FALSE)
      BY <2>0, <3>1, AnswersUnchanged DEF Replies
    <3>2. CASE /\ ids' = ids + 1 /\ state' = [state EXCEPT ![ids'] = "created"]
               /\ names' = [names EXCEPT ![n] = ids']
               /\ Docker!Says(c, "ok", TRUE) /\ UNCHANGED things
      <4>1. DaemonInv' /\ Later
        BY <1>0, <2>0, <2>3, <3>2, MadeContainer
      <4> QED BY <3>2, <4>1, AnswersWell
    <3> QED BY <1>4, <2>3, <3>1, <3>2 DEF Docker!Create
  <2> QED BY <2>1, <2>2, <2>3
<1>5. CASE Docker!Exec(c)
  <2>0. request[c].step = "do" /\ i # 0 /\ request[c].op = "exec"
    BY <1>0, <1>5 DEF Docker!Exec, Docker!Here, CallOK, Docker!OnContainer
  <2>1. CASE state[i] = "running"
    <3>1. Docker!Kept /\ Docker!Goes(c, "exec", TRUE)
      BY <1>5, <2>1 DEF Docker!Exec
    <3> QED BY <1>b, <2>0, <3>1, GoesOn
  <2>2. CASE state[i] # "running"
    BY <1>5, <2>0, <2>2, AnswersUnchanged DEF Docker!Exec, Docker!Refused, Replies
  <2> QED BY <2>1, <2>2
<1>6. CASE Docker!ExecEnds(c)
  <2>0. request[c].op = "exec" /\ Docker!Kept
    BY <1>0, <1>6 DEF Docker!ExecEnds, CallOK
  <2>1. CASE request[c].step = "late"
    BY <1>6, <1>b, <2>0, <2>1, AnswersInPart DEF Docker!ExecEnds
  <2>2. CASE request[c].step # "late"
    BY <1>6, <1>b, <2>0, <2>2, AnswersWell DEF Docker!ExecEnds
  <2> QED BY <2>1, <2>2
<1>7. CASE Docker!ExecDue(c)
  <2>1. request[c].op = "exec" /\ i # 0 /\ request[c].step = "exec" /\ Docker!Kept /\ Docker!Goes(c, "late", FALSE)
    BY <1>0, <1>7 DEF Docker!ExecDue, CallOK
  <2> QED BY <1>b, <2>1, GoesOn
<1> QED BY <1>1, <1>2, <1>3, <1>4, <1>5, <1>6, <1>7

\* A call that puts a thing there, or takes one away.
LEMMA DockerThings ==
  ASSUME DockerInv, NEW c \in Clients,
         \/ Docker!PullImage(c) \/ Docker!MakeNetwork(c) \/ Docker!MakeVolume(c)
         \/ Docker!DropImage(c) \/ Docker!DropVolume(c) \/ Docker!DropNetwork(c)
  PROVE  DockerInv'
<1>1. ASSUME NEW t \in Docker!Things, Docker!Puts(c, t) PROVE DockerInv'
  <2>1. things' \subseteq Docker!Things /\ UNCHANGED <<names, state, ids>>
    BY <1>1 DEF Docker!Puts, DockerInv, DaemonInv
  <2>2. DaemonInv' /\ Later
    BY <2>1, NothingMoved DEF DockerInv
  <2>3. \E did \in BOOLEAN : Docker!Says(c, "ok", did)
    <3>1. Docker!Says(c, "ok", t \notin things)
      BY <1>1 DEF Docker!Puts
    <3> WITNESS (t \notin things) \in BOOLEAN
    <3> QED BY <3>1
  <2> QED BY <2>2, <2>3, AnswersWell
<1>2. ASSUME request[c].step = "do", NEW t \in Docker!Things, NEW used,
             NEW refusal \in {"connection", "invalid"}, Docker!Drop(c, t, used, refusal)
      PROVE  DockerInv'
  <2>1. CASE t \notin things
    BY <1>2, <2>1, AnswersUnchanged DEF Docker!Drop, Replies
  <2>2. CASE t \in things /\ used
    BY <1>2, <2>2, AnswersUnchanged DEF Docker!Drop, Replies
  <2>3. CASE t \in things /\ ~used
    <3>1. things' = things \ {t} /\ Docker!Says(c, "ok", TRUE) /\ UNCHANGED <<names, state, ids>>
      BY <1>2, <2>3 DEF Docker!Drop
    <3>2. DaemonInv' /\ Later
      BY <3>1, NothingMoved DEF DockerInv, DaemonInv
    <3> QED BY <3>1, <3>2, AnswersWell
  <2> QED BY <2>1, <2>2, <2>3
<1>3. {"image", "network", "volume"} \subseteq Docker!Things
  BY DEF Docker!Things
<1>4. CASE Docker!PullImage(c)
  BY <1>1, <1>3, <1>4, AnswersUnchanged DEF Docker!PullImage, Docker!Here, Replies
<1>5. CASE Docker!MakeNetwork(c)
  BY <1>1, <1>3, <1>5, AnswersUnchanged DEF Docker!MakeNetwork, Docker!Here, Replies
<1>6. CASE Docker!MakeVolume(c)
  BY <1>1, <1>3, <1>6, AnswersUnchanged DEF Docker!MakeVolume, Docker!Here, Replies
<1>7. CASE Docker!DropImage(c)
  BY <1>2, <1>3, <1>7 DEF Docker!DropImage, Docker!Here
<1>8. CASE Docker!DropVolume(c)
  BY <1>2, <1>3, <1>8 DEF Docker!DropVolume, Docker!Here
<1>9. CASE Docker!DropNetwork(c)
  BY <1>2, <1>3, <1>9 DEF Docker!DropNetwork, Docker!Here
<1> QED BY <1>4, <1>5, <1>6, <1>7, <1>8, <1>9

\* A call that does several things.
LEMMA DockerSweeps ==
  ASSUME DockerInv, NEW c \in Clients,
         Docker!Prune(c) \/ Docker!PruneMore(c) \/ Docker!ComposeRun(c)
  PROVE  DockerInv'
<1>0. CallOK(request[c]) /\ DaemonInv /\ ids \in 1..MaxIds
  BY DEF DockerInv, CallsOK, DaemonInv
<1>1. CASE Docker!Prune(c)
  <2>1. /\ request[c].step = "do" /\ request[c].op = "prune"
        /\ Docker!Forget({i \in Docker!Existing : state[i] # "running"}) /\ UNCHANGED <<ids, things>>
        /\ Docker!Goes(c, "prune more", \E i \in Docker!Existing : state[i] # "running")
    BY <1>1 DEF Docker!Prune, Docker!Here
  <2>2. DaemonInv' /\ Later
    BY <1>0, <2>1, Forgotten
  <2>3. \E did \in BOOLEAN : Docker!Goes(c, "prune more", did)
    <3> WITNESS (\E i \in Docker!Existing : state[i] # "running") \in BOOLEAN
    <3> QED BY <2>1
  <2> QED BY <2>1, <2>2, <2>3, GoesOn
<1>2. CASE Docker!PruneMore(c)
  <2>0. request[c].op = "prune"
    BY <1>0, <1>2 DEF Docker!PruneMore, CallOK
  <2>1. CASE Docker!Refused(c)
    <3>1. DaemonInv' /\ Later
      BY <1>0, <2>1, NothingMoved DEF DaemonInv, Docker!Refused, Docker!Kept
    <3> QED BY <2>0, <2>1, <3>1, AnswersInPart DEF Docker!Refused
  <2>2. CASE /\ things' \in {things} \cup (IF Docker!Existing = {} THEN {things \ {"volume"}} ELSE {})
             /\ Docker!Says(c, "ok", things' # things) /\ UNCHANGED <<names, state, ids>>
    <3>1. DaemonInv' /\ Later
      BY <1>0, <2>2, NothingMoved DEF DaemonInv
    <3>2. \E did \in BOOLEAN : Docker!Says(c, "ok", did)
      BY <2>2
    <3> QED BY <3>1, <3>2, AnswersWell
  <2> QED BY <1>2, <2>1, <2>2 DEF Docker!PruneMore
<1>3. CASE Docker!ComposeRun(c)
  <2>0. request[c].op \in Docker!Compose /\ request[c].step = "do"
    BY <1>3 DEF Docker!ComposeRun
  <2>1. CASE Docker!Kept /\ Docker!Says(c, "not found", FALSE)
    BY <2>0, <2>1, AnswersUnchanged DEF Replies
  <2>2. ASSUME NEW is \in SUBSET Docker!Existing, NEW said \in {"ok", "connection"},
               CASE request[c].op = "up" ->
                      /\ is # {} => "network" \in things
                      /\ state' = [i \in DOMAIN state |-> IF i \in is THEN "running" ELSE state[i]]
                      /\ UNCHANGED <<names, things>>
                 [] request[c].op = "down" -> Docker!Forget(is) /\ UNCHANGED things
                 [] OTHER -> /\ things' = IF said = "ok" THEN things \cup {"image"} ELSE things
                             /\ UNCHANGED <<names, state>>,
               Docker!Says(c, said, <<state, things>>' # <<state, things>>), UNCHANGED ids
        PROVE  DockerInv'
    <3>1. DaemonInv' /\ Later
      <4>1. CASE request[c].op = "up"
        <5>1. /\ state' = [i \in 1..MaxIds |-> IF i \in is THEN "running" ELSE state[i]]
              /\ UNCHANGED <<names, ids, things>>
          BY <1>0, <2>2, <4>1 DEF DaemonInv
        <5>2. /\ state' \in [1..MaxIds -> Docker!States]
              /\ \A k \in 1..MaxIds : state'[k] = "absent" <=> state[k] = "absent"
          BY <1>0, <5>1 DEF DaemonInv, Docker!States, Docker!Existing
        <5> QED BY <1>0, <5>1, <5>2, Moved
      <4>2. CASE request[c].op = "down"
        BY <1>0, <2>2, <4>2, Forgotten
      <4>3. CASE request[c].op \notin {"up", "down"}
        <5>1. things' \subseteq Docker!Things /\ UNCHANGED <<names, state, ids>>
          BY <1>0, <2>2, <4>3 DEF DaemonInv, Docker!Things
        <5> QED BY <1>0, <5>1, NothingMoved
      <4> QED BY <4>1, <4>2, <4>3
    <3>2. \E did \in BOOLEAN : Docker!Says(c, said, did)
      BY <2>2
    <3>3. CASE said = "ok"
      BY <3>1, <3>2, <3>3, AnswersWell
    <3>4. CASE said = "connection"
      BY <2>0, <3>1, <3>2, <3>4, AnswersInPart
    <3> QED BY <3>3, <3>4
  <2> QED BY <1>3, <2>1, <2>2 DEF Docker!ComposeRun
<1> QED BY <1>1, <1>2, <1>3

\* A call begins, or the reply to one is lost.
LEMMA DockerCalls ==
  ASSUME DockerInv, NEW c \in Clients,
         \/ Docker!ReplyLost(c)
         \/ \E op \in Docker!OnContainer \cup {"create"} : \E n \in Names : Docker!Call(c, op, n)
         \/ \E op \in Docker!Ops \ (Docker!OnContainer \cup {"create"}) : Docker!Call(c, op, "none")
  PROVE  DockerInv'
<1>0. /\ request[c] \in CallRecords /\ request \in [Clients -> CallRecords] /\ CallOK(request[c])
  BY DEF DockerInv, CallsOK
<1>1. Docker!Kept
  BY DEF Docker!ReplyLost, Docker!Call
<1>2. DaemonInv' /\ Later
  BY <1>1, NothingMoved DEF DockerInv, DaemonInv, Docker!Kept
<1>3. CASE Docker!ReplyLost(c)
  <2> DEFINE r == [request[c] EXCEPT !.step = "over", !.said = "raw", !.lost = TRUE]
  <2>1. request' = [request EXCEPT ![c] = r]
    BY <1>0, <1>3 DEF Docker!ReplyLost
  <2>2. /\ r \in CallRecords /\ r.id = request[c].id /\ r.op = request[c].op /\ r.name = request[c].name
        /\ r.step = "over" /\ r.said = "raw" /\ r.lost
    BY <1>0 DEF CallRecords, Steps, Replies
  <2> HIDE DEF r
  <2>3. Only(c) /\ Same(c) /\ request'[c] = r
    BY <1>0, <2>1, <2>2 DEF Only, Same
  <2>4. /\ request'[c].id <= ids'
        /\ request'[c].op \in Docker!OnContainer \cup {"create"} => request'[c].name \in Names
    BY <1>2, <2>3, AboutKept
  <2>5. CallOK(request[c])'
    BY <2>2, <2>3, <2>4 DEF CallOK
  <2> QED BY <1>2, <2>3, <2>5, OthersKept
<1>4. ASSUME NEW op \in Docker!Ops, NEW n \in Names \cup {"none"}, Docker!Call(c, op, n),
             op \in Docker!OnContainer \cup {"create"} => n \in Names
      PROVE  DockerInv'
  <2> DEFINE step == IF op \in Docker!OnContainer THEN "get" ELSE "do"
             r == [request[c] EXCEPT !.op = op, !.name = n, !.step = step]
  <2>1. request' = [request EXCEPT ![c] = r] /\ request[c].step = "idle"
    BY <1>0, <1>4 DEF Docker!Call
  <2>2. /\ r \in CallRecords /\ r.id = request[c].id /\ r.op = op /\ r.name = n
        /\ r.step = step /\ r.said = request[c].said /\ r.done = request[c].done
    BY <1>0 DEF CallRecords, Steps
  <2>3. request[c].said = "nothing" /\ ~request[c].done /\ request[c].id <= ids /\ ids' = ids
    BY <1>0, <1>1, <2>1 DEF CallOK, Docker!Kept
  <2>4. \/ step = "get" /\ op \in Docker!OnContainer
        \/ step = "do" /\ op \notin Docker!OnContainer
    OBVIOUS
  <2> HIDE DEF r, step
  <2>5. Only(c) /\ request'[c] = r
    BY <1>0, <2>1, <2>2 DEF Only
  <2>6. CallOK(request[c])'
    BY <1>4, <2>2, <2>3, <2>4, <2>5 DEF CallOK
  <2> QED BY <1>2, <2>5, <2>6, OthersKept
<1>5. Docker!OnContainer \cup {"create"} \subseteq Docker!Ops
  BY DEF Docker!Ops
<1> QED BY <1>3, <1>4, <1>5

\* So every step of the clients keeps the invariant.
LEMMA DockerStep ==
  ASSUME DockerInv, [Docker!Next]_(Docker!vars)
  PROVE  DockerInv'
<1>1. CASE UNCHANGED Docker!vars
  <2>1. UNCHANGED <<names, state, ids, things, request>>
    BY <1>1 DEF Docker!vars
  <2>2. DaemonInv'
    BY <2>1, NothingMoved DEF DockerInv, DaemonInv
  <2>3. CallsOK'
    BY <2>1 DEF DockerInv, CallsOK, CallOK
  <2> QED BY <2>2, <2>3 DEF DockerInv
<1>2. ASSUME NEW c \in Clients, Docker!Step(c) PROVE DockerInv'
  BY <1>2, DockerReads, DockerActs, DockerThings, DockerSweeps, DockerCalls DEF Docker!Step
<1> QED BY <1>1, <1>2, DockerCalls DEF Docker!Next

\* What the invariant says of the answers and of the types.
LEMMA DockerConsequences == DockerInv => Docker!TypeOK /\ Docker!ErrorsTellWhatHappened
<1> SUFFICES ASSUME DockerInv PROVE Docker!TypeOK /\ Docker!ErrorsTellWhatHappened
  OBVIOUS
<1>1. Docker!ErrorsTellWhatHappened
  BY DEF DockerInv, CallsOK, CallOK, Docker!ErrorsTellWhatHappened
<1>2. names \in [Names -> 0..MaxIds]
  BY DockerAssumption DEF DockerInv, DaemonInv
<1>3. \A c \in Clients : request[c] \in CallRecords
  BY DEF DockerInv, CallsOK
<1>4. \A c \in Clients : /\ request[c].op \in Docker!Ops \cup {"none"}
                         /\ request[c].step \in Steps /\ request[c].said \in Replies
  BY <1>3 DEF CallRecords
<1> QED BY <1>1, <1>2, <1>4 DEF DockerInv, DaemonInv, Docker!TypeOK, Steps, Replies

-----------------------------------------------------------------------------
(* All of them together.                                                   *)

ProcessesInv ==
  /\ CountersOK /\ FlagOK /\ AuditOK /\ RestOK /\ JobInv
  /\ HarnessInv
  /\ scenario = "timed" => TimedInv
  /\ scenario = "docker" => DockerInv

\* At the start of every scenario the invariant holds.
LEMMA ProcessesStart == ProcessesInit => ProcessesInv
<1>1. JobInit => AuditOK /\ RestOK
  BY DEF JobInit, AuditOK, RestOK
<1> QED
  BY <1>1, BreakerStarts, JobsStart, HarnessStarts, TimedStarts, DockerStarts
     DEF ProcessesInit, ExecutorInit, ProcessesInv

\* And every step keeps it.
LEMMA ProcessesStep ==
  ASSUME ProcessesInv,
         [ProcessesNext]_<<scenario, vars, harnessVars, timedVars, dockerVars>>
  PROVE  ProcessesInv'
<1>1. scenario' = scenario
  BY DEF ProcessesNext
<1>2. CountersOK' /\ FlagOK' /\ AuditOK' /\ RestOK' /\ JobInv'
  <2>1. [ExecutorNext]_vars
    BY DEF ProcessesNext
  <2>2. [Next]_breakerVars
    BY <2>1 DEF ExecutorNext, vars
  <2>3. CountersOK' /\ FlagOK'
    BY <2>2, BreakerStep DEF ProcessesInv
  <2>4. JobInv'
    BY <2>1, ExecutorKeepsJobs DEF ProcessesInv
  <2>5. CASE UNCHANGED jobVars
    <3>1. AuditOK' /\ RestOK'
      BY <2>5 DEF ProcessesInv, AuditOK, RestOK, jobVars
    <3> QED BY <2>3, <2>4, <3>1
  <2>6. CASE ~UNCHANGED jobVars
    <3>1. AuditOK' /\ RestOK'
      BY <2>1, <2>6, JobTypes DEF ExecutorNext, vars, ProcessesInv
    <3> QED BY <2>3, <2>4, <3>1
  <2> QED BY <2>5, <2>6
<1>3. HarnessInv'
  <2>1. [Harness!Next]_(Harness!vars)
    BY DEF ProcessesNext, harnessVars, Harness!vars
  <2> QED BY <2>1, HarnessStep DEF ProcessesInv
<1>4. scenario = "timed" => TimedInv'
  <2>1. [Timed!Next]_(Timed!vars)
    BY DEF ProcessesNext, timedVars, Timed!vars
  <2> QED BY <2>1, TimedStep DEF ProcessesInv
<1>5. scenario = "docker" => DockerInv'
  <2>1. [Docker!Next]_(Docker!vars)
    BY DEF ProcessesNext, dockerVars, Docker!vars
  <2> QED BY <2>1, DockerStep DEF ProcessesInv
<1> QED BY <1>1, <1>2, <1>3, <1>4, <1>5 DEF ProcessesInv

\* So it holds always.
LEMMA ProcessesInvariant == ProcessesSpec => []ProcessesInv
  BY ProcessesStart, ProcessesStep, PTL DEF ProcessesSpec

\* Every result a job with a valid token returned is audited once and as what it
\* was (execute, aexecute, execute_subprocess of hardened_executor).
THEOREM EveryResultAudited == ProcessesSpec => []ResultsAudited
<1>1. ProcessesInv => ResultsAudited
  BY DEF ProcessesInv, JobInv
<1> QED BY <1>1, ProcessesInvariant, PTL

\* A bait is on disk only while its job runs, or after it was cancelled
\* (HardenedExecutor's clean-up of the honeypot file).
THEOREM NoBaitLeft == ProcessesSpec => []BaitsRemoved
<1>1. ProcessesInv => BaitsRemoved
  BY DEF ProcessesInv, JobInv
<1> QED BY <1>1, ProcessesInvariant, PTL

\* A breaker object that has an is_open attribute keeps jobs out while it is open
\* (HardenedExecutor._breaker_open).
THEOREM OpenBreakerKeepsOut ==
  ASSUME BreakerHasIsOpen
  PROVE  ProcessesSpec => RespectsBreaker
<1>1. ASSUME JobsTyped, ExecutorNext,
             NEW j \in Jobs, pc[j] = "new", pc'[j] = "admitted"
      PROVE  Seen # "open"
  <2>1. PICK k \in Jobs : JobStep(k)
    BY <1>1 DEF ExecutorNext, jobVars
  <2>2. k = j /\ PassesBreaker(j)
    BY <1>1, <2>1 DEF JobStep, Denied, BlockedByBreaker, PassesBreaker, Refused, Starts,
       Touches, Ends, Cancelled, Answers, GoesTo, JobsTyped
  <2> QED BY <2>2 DEF PassesBreaker, BreakerOpen
<1>2. /\ ProcessesInv
      /\ [ProcessesNext]_<<scenario, vars, harnessVars, timedVars, dockerVars>>
      => [KeptOut]_vars
  BY <1>1 DEF ProcessesInv, JobInv, ProcessesNext, KeptOut
<1> QED
  BY <1>2, ProcessesInvariant, PTL DEF ProcessesSpec, RespectsBreaker

\* A harness result, a granted cancel and the end of a call with a timeout leave
\* no process and no temporary file behind, but for a call that was cancelled.
THEOREM NothingLeftRunning == ProcessesSpec => []NoProcessLeftRunning
<1>1. HarnessInv => Harness!NoProcessLeftRunning
  BY DEF HarnessInv, Harness!TypeOK, Alive, Harness!NoProcessLeftRunning
<1>2. ProcessesInv => NoProcessLeftRunning
  BY <1>1 DEF ProcessesInv, TimedInv, NoProcessLeftRunning
<1> QED BY <1>2, ProcessesInvariant, PTL

\* BaseCLIHarnessAdapter._spawn after a granted cancel: the run is reported
\* cancelled or timed out, never by its exit code.
THEOREM GrantsKept == ProcessesSpec => GrantedFirstIsKept
<1>1. /\ ProcessesInv
      /\ [ProcessesNext]_<<scenario, vars, harnessVars, timedVars, dockerVars>>
      => [Harness!KeepsTheGrant]_(Harness!vars)
  BY GrantKept DEF ProcessesInv, ProcessesNext, harnessVars, Harness!vars
<1> QED
  BY <1>1, ProcessesInvariant, PTL DEF ProcessesSpec, GrantedFirstIsKept, Harness!GrantedFirstIsKept

\* What the callers of a timed call and of Docker are told did happen, and one
\* name stands for one container.
THEOREM AnswersTrue == ProcessesSpec => []AnswersAreTrue
<1>1. ProcessesInv => AnswersAreTrue
  BY DockerConsequences DEF ProcessesInv, TimedInv, DockerInv, DaemonInv, AnswersAreTrue
<1> QED BY <1>1, ProcessesInvariant, PTL

\* All variables keep their types, whichever the parameters.
THEOREM TypesCorrect == ProcessesSpec => []TypesOK
<1>1. CountersOK /\ FlagOK => TypeOK
  BY DEF CountersOK, FlagOK, TypeOK
<1>2. TimedInv => Timed!TypeOK
  BY DEF TimedInv, TimedTypes, TimedFlags, Timed!TypeOK
<1>3. AuditOK /\ RestOK /\ JobInv => JobTypeOK
  BY DEF AuditOK, RestOK, Outcomes, JobInv, JobsTyped, JobTypeOK
<1>4. ProcessesInv => TypesOK
  BY <1>1, <1>2, <1>3, DockerConsequences DEF ProcessesInv, HarnessInv, TypesOK
<1> QED BY <1>4, ProcessesInvariant, PTL

=============================================================================
