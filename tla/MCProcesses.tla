---------------------------- MODULE MCProcesses ----------------------------
(***************************************************************************)
(* The parts of obase that run other programs, for TLC: jobs of the        *)
(* hardened executor behind a circuit breaker, CLI harness runs, calls of  *)
(* programs with a timeout, and the operations on Docker.  They share no   *)
(* state, so a behaviour exercises one of them (scenario) and leaves the   *)
(* others as they are at their start.                                      *)
(***************************************************************************)
EXTENDS HardenedExecutor

CONSTANTS
  Runs, Cancellers, NoRun,   \* of the harness adapter
  MaxLength, MaxDepth,       \* of the calls with a timeout
  Names, Clients, MaxIds     \* of the operations on Docker

VARIABLES
  scenario,
  task, proc, rc, status, session, answer, canceller, granted,
  runner, present, code, phase, child, queued, overdue, temp, box, told,
  names, state, ids, things, request
harnessVars == <<task, proc, rc, status, session, answer, canceller, granted>>
timedVars == <<runner, present, code, phase, child, queued, overdue, temp, box, told>>
dockerVars == <<names, state, ids, things, request>>

Harness == INSTANCE HarnessRun WITH result <- answer
Timed == INSTANCE TimedRuns
Docker == INSTANCE DockerOps WITH call <- request

ASSUME HarnessAssumption == Harness!NoRunAssumption
\* An expression has a length and a depth.
ASSUME LimitsAssumption == MaxLength \in Nat /\ MaxDepth \in Nat
\* Docker starts with one container, which has a name.
ASSUME DockerAssumption == Names # {} /\ MaxIds \in Nat \ {0}

\* Scenarios whose components start in several states fix them in the others.
ProcessesInit ==
  /\ scenario \in {"executor", "harness", "timed", "docker"}
  /\ ExecutorInit /\ (scenario # "executor" => kind = [j \in Jobs |-> "sync"])
  /\ Harness!Init
  /\ IF scenario = "timed" THEN Timed!Init
     ELSE /\ runner = "" /\ present = TRUE /\ code = "" /\ phase = "over" /\ child = "none"
          /\ queued = "nothing" /\ overdue = FALSE /\ temp = FALSE /\ box = "none" /\ told = ""
  /\ IF scenario = "docker" THEN Docker!Init
     ELSE names = << >> /\ state = << >> /\ ids = 0 /\ things = {} /\ request = << >>
ProcessesNext ==
  /\ UNCHANGED scenario
  /\ \/ scenario = "executor" /\ ExecutorNext
     \/ scenario = "harness" /\ Harness!Next
     \/ scenario = "timed" /\ Timed!Next
     \/ scenario = "docker" /\ Docker!Next
  /\ scenario # "executor" => UNCHANGED vars
  /\ scenario # "harness" => UNCHANGED harnessVars
  /\ scenario # "timed" => UNCHANGED timedVars
  /\ scenario # "docker" => UNCHANGED dockerVars

ProcessesSpec ==
  /\ ProcessesInit /\ [][ProcessesNext]_<<scenario, vars, harnessVars, timedVars, dockerVars>>
  /\ Harness!Fairness /\ Timed!Fairness

\* All keep their types.
TypesOK ==
  /\ TypeOK /\ JobTypeOK /\ Harness!TypeOK
  /\ scenario = "timed" => Timed!TypeOK
  /\ scenario = "docker" => Docker!TypeOK
\* A run that answered, or was cancelled, leaves no process unkilled; a timed call
\* that is over and was not cancelled leaves no child and no temporary file.
NoProcessLeftRunning == Harness!NoProcessLeftRunning /\ (scenario = "timed" => Timed!NothingLeft)
\* _spawn never answers a run cancelled before it by its exit code.
GrantedFirstIsKept == Harness!GrantedFirstIsKept
\* What a caller is told of its child, or of what it asked of Docker, happened;
\* and a name stands for one container.
AnswersAreTrue ==
  /\ scenario = "timed" => Timed!TrulyTold
  /\ scenario = "docker" => Docker!ErrorsTellWhatHappened /\ Docker!NamesAreExact
\* Harness runs and cancels return, killed processes die, and timed calls end,
\* but for the simplification that has no deadline.
EverythingEnds == Harness!EverythingEnds /\ Timed!CallsEnd

=============================================================================
