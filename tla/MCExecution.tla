---------------------------- MODULE MCExecution ----------------------------
(***************************************************************************)
(* The two executors of obase.orchestrator for TLC: run_pipeline, and the  *)
(* runbook driven by one caller or by two at once.  They share no state,   *)
(* so a behaviour exercises one of them (scenario) and leaves the other as *)
(* it is at its start.                                                     *)
(***************************************************************************)
EXTENDS Pipeline

CONSTANTS
  Nodes, Edges, Initial, MaxAttempts, Checks, Callers,
  MaxEntries, MaxRounds, MaxRestarts, MaxAbandons,  \* the runbook's, see Runbook
  Lead,                                             \* the caller that drives it alone
  MaxSharedRounds                                   \* bound: MaxRounds when callers share it

VARIABLES scenario, run, call, nextEntry, failures, acked, restarts, abandons

bookVars == <<run, call, nextEntry, failures, acked, restarts, abandons>>

RetryFirst == [k \in Stages |-> IF k = 1 THEN 2 ELSE 1]
LoopEdges == {<<"plan", "build">>, <<"build", "plan">>, <<"build", "ship">>, <<"plan", "ship">>}

Book == INSTANCE Runbook

ASSUME BookAssumptions == Book!GraphAssumption /\ Book!BoundsAssumption /\ Lead \in Callers

ExecutionInit == scenario \in {"pipeline", "runbook", "shared runbook"} /\ Init /\ Book!Init
\* Two callers at once: no restart, no lost call, and failed rounds in
\* the first visit only.
SharedStep ==
  /\ Book!Next
  /\ restarts' = 0 /\ abandons' = 0
  /\ \A n \in Book!Entries, e \in Edges : failures'[n][e] <= IF n = 1 THEN MaxSharedRounds ELSE 0
ExecutionNext ==
  /\ UNCHANGED scenario
  /\ \/ scenario = "pipeline" /\ Next /\ UNCHANGED bookVars
     \/ /\ \/ scenario = "runbook" /\ Book!Step(Lead)
           \/ scenario = "shared runbook" /\ SharedStep
        /\ UNCHANGED vars

ExecutionSpec ==
  /\ ExecutionInit /\ [][ExecutionNext]_<<scenario, vars, bookVars>>
  /\ scenario = "pipeline" => Fairness
  /\ scenario = "runbook" => Book!Fairness

\* Both executors keep their types.
TypesOK == TypeOK /\ Book!TypeOK
\* A stage starts with the inputs that it needs, after a resume too, and an answer
\* given to a paused stage is not lost.
StagesKeepTheirData == InputsReady /\ AnswersKept
\* When one caller drives the run, runbook_goto evaluates every check that was
\* registered before it started, and max_attempts failed rounds block the run, not
\* fewer or more.
ChecksDecide == scenario = "runbook" => Book!RegisteredChecksEvaluated /\ Book!BlockedIsEarned
\* run_pipeline, resumed after pauses and interrupts, comes to an end, and one
\* runbook caller that keeps trying gets every visit of a node to an end.
ExecutionEnds ==
  /\ scenario = "pipeline" => RunEnds
  /\ scenario = "runbook" => Book!EveryVisitEnds
\* The history is a walk through the graph, with one caller and with two.
HistoryIsAWalk == Book!HistoryIsAWalk

=============================================================================
