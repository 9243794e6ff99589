----------------------------- MODULE Pipeline -----------------------------
(***************************************************************************)
(* obase.orchestrator.run_pipeline: stages run one after the other, the    *)
(* run state is written to run_state.json around every stage, and a run    *)
(* that paused or died is resumed by a new call with resume=True.          *)
(*                                                                         *)
(* One run identifier, one call in progress at a time.  The file is        *)
(* rewritten in place (write_text truncates it first), so a crash in the   *)
(* middle of a save leaves a file that no longer parses.                   *)
(*                                                                         *)
(* A definition named X_Slip is X with a slip a programmer could make; the *)
(* properties are checked to notice it.  Nothing else uses it.             *)
(***************************************************************************)
EXTENDS Naturals

CONSTANTS
  NStages,        \* number of stages of the pipeline
  MaxRetries,     \* max_retries of each stage
  MaxPauses,      \* bound: pauses requested per run
  MaxInterrupts,  \* bound: crashes, cancellations and contract violations
  MaxResumes      \* bound: calls with resume=True

Stages == 1..NStages
\* What a run's data can hold: a stage's output, a pause's resume_data.
Out(k) == <<"out", k>>
Answer(k) == <<"answer", k>>
Data == {"out", "answer"} \X Stages

ASSUME StagesAssumption == NStages \in Nat \ {0}
ASSUME RetriesAssumption == MaxRetries \in [Stages -> Nat]
ASSUME BoundsAssumption ==
  MaxPauses \in Nat /\ MaxInterrupts \in Nat /\ MaxResumes \in Nat

VARIABLES
  disk,        \* run_state.json
  mem,         \* the RunState of the call in progress
  pc,          \* where that call is
  attempts,    \* failed attempts of the stage being executed
  succeeded,   \* history: how often each stage's function returned
  pauses,      \* history: stages whose pause was reported to the caller
  npauses, interrupts, resumes  \* history: the bounded events so far

vars == <<disk, mem, pc, attempts, succeeded, pauses, npauses, interrupts, resumes>>
history == <<succeeded, pauses, npauses, interrupts, resumes>>

RunState == [state: {"running", "paused", "failed", "completed"},
             index: Stages, data: SUBSET Data, paused: Stages \cup {0}]
NoFile == [state |-> "none"]
Torn == [state |-> "torn"]
Readable == disk \notin {NoFile, Torn}

Fresh_ZeroIndex == [state |-> "running", index |-> 0, data |-> {}, paused |-> 0]
Fresh == [state |-> "running", index |-> 1, data |-> {}, paused |-> 0]

\* _save_run_state, at the end of a step that changed the state to s.
Save(s) == mem' = s /\ disk' = s
Return == pc' = "idle"

-----------------------------------------------------------------------------
Init ==
  /\ disk = NoFile /\ mem = NoFile /\ pc = "idle" /\ attempts = 0
  /\ succeeded = [k \in Stages |-> 0]
  /\ pauses = {}
  /\ npauses = 0 /\ interrupts = 0 /\ resumes = 0

\* A new run.
Start ==
  /\ pc = "idle" /\ disk = NoFile
  /\ Save(Fresh)
  /\ pc' = "enter"
  /\ UNCHANGED <<attempts, history>>

\* resume=True: whatever the state says, continue at the last stage started.
\* A missing or torn file raises and changes nothing.
Resume_NextStage ==
  /\ pc = "idle" /\ Readable /\ resumes < MaxResumes
  /\ resumes' = resumes + 1
  /\ Save([disk EXCEPT !.state = "running", !.paused = 0,
                       !.index = IF @ < NStages THEN @ + 1 ELSE @])
  /\ pc' = "enter"
  /\ UNCHANGED <<attempts, succeeded, pauses, npauses, interrupts>>
Resume ==
  /\ pc = "idle" /\ Readable /\ resumes < MaxResumes
  /\ resumes' = resumes + 1
  /\ Save([disk EXCEPT !.state = "running", !.paused = 0])
  /\ pc' = "enter"
  /\ UNCHANGED <<attempts, succeeded, pauses, npauses, interrupts>>

\* The loop head names the stage on disk, then the stage's function runs.
Enter ==
  /\ pc = "enter"
  /\ Save(mem)
  /\ pc' = "stage" /\ attempts' = 0
  /\ UNCHANGED history

\* The function returns the keys it may return.
StageReturns ==
  /\ pc = "stage"
  /\ LET s == [mem EXCEPT !.data = @ \cup {Out(mem.index)}] IN
       /\ disk' = s
       /\ IF mem.index < NStages
          THEN mem' = [s EXCEPT !.index = @ + 1] /\ pc' = "enter"
          ELSE mem' = s /\ pc' = "finish"
  /\ succeeded' = [succeeded EXCEPT ![mem.index] = @ + 1]
  /\ UNCHANGED <<attempts, pauses, npauses, interrupts, resumes>>

Finish ==
  /\ pc = "finish"
  /\ Save([mem EXCEPT !.state = "completed"])
  /\ Return
  /\ UNCHANGED <<attempts, history>>

\* PauseRequested: resume_data joins the data, then the state is saved.
StagePauses ==
  /\ pc = "stage" /\ npauses < MaxPauses
  /\ Save([mem EXCEPT !.data = @ \cup {Answer(mem.index)},
                      !.state = "paused", !.paused = mem.index])
  /\ Return
  /\ pauses' = pauses \cup {mem.index} /\ npauses' = npauses + 1
  /\ UNCHANGED <<attempts, succeeded, interrupts, resumes>>

\* BudgetExceeded, or a function that returned None, fails the run at once.
StageFails ==
  /\ pc = "stage"
  /\ Save([mem EXCEPT !.state = "failed"])
  /\ Return
  /\ UNCHANGED <<attempts, history>>

\* Any other exception is retried max_retries times, then fails the run.
StageRaises ==
  /\ pc = "stage"
  /\ attempts' = attempts + 1
  /\ IF attempts' <= MaxRetries[mem.index]
     THEN UNCHANGED <<disk, mem, pc>>
     ELSE Save([mem EXCEPT !.state = "failed"]) /\ Return
  /\ UNCHANGED history

\* StageContractViolation and CancelledError leave run_pipeline at once; a
\* process that dies may do so in the middle of a save.
Interrupted ==
  /\ pc # "idle" /\ interrupts < MaxInterrupts
  /\ interrupts' = interrupts + 1
  /\ disk' \in {disk, Torn}
  /\ Return
  /\ UNCHANGED <<mem, attempts, succeeded, pauses, npauses, resumes>>

Next ==
  \/ Start \/ Resume \/ Enter
  \/ StageReturns \/ StagePauses \/ StageFails \/ StageRaises
  \/ Finish \/ Interrupted

Spec == Init /\ [][Next]_vars

\* The event loop runs the call in progress, a stage's function ends some
\* day, and an unfinished run is resumed.
StageEnds == StageReturns \/ StagePauses \/ StageFails \/ StageRaises
Unfinished == Readable /\ disk.state \in {"running", "paused"}
Fairness ==
  /\ WF_vars(Start) /\ WF_vars(Enter) /\ WF_vars(StageEnds) /\ WF_vars(Finish)
  /\ WF_vars(Unfinished /\ Resume)

-----------------------------------------------------------------------------
\* Every variable has its type.
TypeOK ==
  /\ disk \in RunState \cup {NoFile, Torn}
  /\ mem \in RunState \cup {NoFile}
  /\ pc \in {"idle", "enter", "stage", "finish"}
  /\ pc # "idle" => mem \in RunState
  /\ attempts \in Nat
  /\ succeeded \in [Stages -> Nat]
  /\ pauses \subseteq Stages
  /\ npauses \in Nat /\ interrupts \in Nat /\ resumes \in Nat

\* A stage's function is only called with the outputs of every stage before it
\* in the data, however often the run was paused, killed and resumed.
InputsReady ==
  pc = "stage" => \A k \in 1..(mem.index - 1) : Out(k) \in mem.data

\* resume_data given with a pause is there when the paused stage runs again
\* (design_principles.md, "Pause is a first-class primitive"), and stays in any
\* file that can still be read.
AnswersKept ==
  /\ Readable => \A k \in pauses : Answer(k) \in disk.data
  /\ pc = "stage" /\ mem.index \in pauses => Answer(mem.index) \in mem.data

\* A run whose file is never torn reaches an end, if unfinished runs are
\* resumed and pauses and interrupts stop.
RunEnds == <>(disk = Torn \/ (Readable /\ disk.state \in {"completed", "failed"}))

=============================================================================
