-------------------------- MODULE Execution_proofs --------------------------
(***************************************************************************)
(* The two executors of obase.orchestrator: run_pipeline keeps the data of *)
(* its stages through pauses, crashes and resumes; a runbook's history is  *)
(* a walk for any number of callers that load, work and save without a     *)
(* lock, and its counters are exact for one.                               *)
(***************************************************************************)
EXTENDS MCExecution, Sequences, TLAPS

-----------------------------------------------------------------------------
\* The history of one state, saved or copied, is a walk to its node.
Walks(s) ==
  /\ s.path = <<>> => s.node = Initial
  /\ s.path # <<>> => s.path[1][1] = Initial /\ s.path[Len(s.path)][2] = s.node
  /\ \A k \in 1..(Len(s.path) - 1) : s.path[k][2] = s.path[k + 1][1]
  /\ s.st = "completed" => s.path # <<>> /\ Book!Final(s.node)

\* What a call carries is well formed: a goto loaded a running state and an edge
\* out of its node.
GotoCall(g) ==
  /\ g.op = "goto" /\ g.copy \in Book!RunState /\ Walks(g.copy)
  /\ g.edge \in Edges /\ g.edge[1] = g.copy.node /\ g.due \subseteq Checks
RegisterCall(r) ==
  /\ r.op = "register" /\ r.check \in Checks
  /\ r.copy \in Book!RunState /\ Walks(r.copy)

BookInv ==
  /\ run = Book!NoRun \/ (run \in Book!RunState /\ Walks(run))
  /\ call = [c \in Callers |-> call[c]]
  /\ \A c \in Callers : call[c] = Book!Idle \/ GotoCall(call[c]) \/ RegisterCall(call[c])
  /\ nextEntry \in 1..(MaxEntries + 1)
  /\ failures \in [Book!Entries -> [Edges -> Nat]]
  /\ acked \in [Book!Entries -> SUBSET Checks]

\* Another step along an edge out of the node extends the walk.
LEMMA MoveWalks ==
  ASSUME NEW s \in Book!RunState, Walks(s),
         NEW e \in Edges, e[1] = s.node, NEW n \in Book!Entries
  PROVE  Book!AfterMove(s, e, n) \in Book!RunState /\ Walks(Book!AfterMove(s, e, n))
<1> USE BookAssumptions
<1> DEFINE p == s.path
           t == Book!AfterMove(s, e, n)
<1>1. p \in Seq(Edges) /\ Len(p) \in Nat /\ (p = <<>> <=> Len(p) = 0)
  BY DEF Book!RunState
<1>2. t.path = Append(p, e) /\ t.node = e[2] /\ t.st = (IF Book!Final(e[2]) THEN "completed" ELSE s.st)
  BY DEF Book!AfterMove, Book!RunState
<1>3. t \in Book!RunState
  <2>1. Append(p, e) \in Seq(Edges) /\ e[2] \in Nodes
    BY <1>1 DEF Book!GraphAssumption
  <2>2. Book!NoAttempts \in [Edges -> 0..MaxAttempts]
    BY DEF Book!NoAttempts, Book!BoundsAssumption
  <2> QED
    BY <2>1, <2>2 DEF Book!AfterMove, Book!RunState
<1>4. /\ Append(p, e) # <<>> /\ Len(Append(p, e)) = Len(p) + 1
      /\ Append(p, e)[Len(p) + 1] = e
      /\ \A k \in 1..Len(p) : Append(p, e)[k] = p[k]
  BY <1>1
<1>5. Append(p, e)[1][1] = Initial
  <2>1. CASE p = <<>>
    BY <1>1, <1>4, <2>1 DEF Walks
  <2>2. CASE p # <<>>
    BY <1>1, <1>4, <2>2 DEF Walks
  <2> QED BY <2>1, <2>2
<1>6. ASSUME NEW k \in 1..Len(p) PROVE Append(p, e)[k][2] = Append(p, e)[k + 1][1]
  <2>1. CASE k = Len(p)
    BY <1>1, <1>4, <2>1 DEF Walks
  <2>2. CASE k # Len(p)
    <3>1. k \in 1..(Len(p) - 1) /\ k + 1 \in 1..Len(p)
      BY <1>1, <2>2
    <3> QED BY <1>4, <3>1 DEF Walks
  <2> QED BY <2>1, <2>2
<1>7. Walks(t)
  <2>1. t.st = "completed" => Book!Final(t.node)
    BY <1>2 DEF Walks, Book!Final
  <2> QED BY <1>1, <1>2, <1>4, <1>5, <1>6, <2>1 DEF Walks
<1> QED
  BY <1>3, <1>7

\* Every step keeps the walk of the saved state and of every copy.
LEMMA BookStep ==
  ASSUME BookInv, [Book!Next]_(Book!vars)
  PROVE  BookInv'
<1> USE BookAssumptions DEF BookInv
<1>0. 0..MaxAttempts \subseteq Nat /\ Book!NoAttempts \in [Edges -> 0..MaxAttempts]
  BY DEF Book!NoAttempts, Book!BoundsAssumption
<1>1. ASSUME NEW c \in Callers, Book!StartRunbook(c) PROVE BookInv'
  <2>1. run' \in Book!RunState
    BY <1>0, <1>1 DEF Book!StartRunbook, Book!RunState, Book!GraphAssumption, Book!Entries
  <2>2. Walks(run)'
    BY <1>1 DEF Book!StartRunbook, Walks
  <2> QED
    BY <1>1, <2>1, <2>2 DEF Book!StartRunbook, Book!BoundsAssumption
<1>2. ASSUME NEW c \in Callers, NEW t \in Nodes, Book!GotoLoad(c, t) PROVE BookInv'
  <2>1. GotoCall(call'[c])
    BY <1>2 DEF Book!GotoLoad, GotoCall, Book!RunState
  <2> QED
    BY <1>2, <2>1 DEF Book!GotoLoad
<1>3. ASSUME NEW c \in Callers, call[c] # Book!Idle, run' \in Book!RunState, Walks(run)',
             call' = [call EXCEPT ![c] = Book!Idle], nextEntry' \in 1..(MaxEntries + 1),
             failures' \in [Book!Entries -> [Edges -> Nat]], acked' \in [Book!Entries -> SUBSET Checks]
      PROVE  BookInv'
  BY <1>3
<1>4. ASSUME NEW c \in Callers, Book!GotoBlocked(c) PROVE BookInv'
  <2>1. GotoCall(call[c])
    BY <1>4 DEF Book!GotoBlocked, Book!Idle, RegisterCall
  <2>2. run' \in Book!RunState /\ Walks(run)'
    BY <1>4, <2>1 DEF Book!GotoBlocked, Book!SaveAs, GotoCall, Book!RunState, Walks
  <2> QED
    BY <1>3, <1>4, <2>2 DEF Book!GotoBlocked, Book!SaveAs, Book!Idle
<1>5. ASSUME NEW c \in Callers, Book!GotoCheckFails(c) PROVE BookInv'
  <2>1. GotoCall(call[c])
    BY <1>5 DEF Book!GotoCheckFails, Book!Idle, RegisterCall
  <2>2. call[c].copy.attempts[call[c].edge] + 1 \in 0..MaxAttempts
    BY SMTT(60), <1>5, <2>1 DEF Book!GotoCheckFails, Book!Exhausted, GotoCall, Book!RunState, Book!BoundsAssumption
  <2>3. run' = [call[c].copy EXCEPT !.attempts[call[c].edge] = @ + 1]
    BY <1>5 DEF Book!GotoCheckFails, Book!SaveAs
  <2>4. run' \in Book!RunState /\ Walks(run)'
    BY <2>1, <2>2, <2>3 DEF GotoCall, Book!RunState, Walks
  <2>5. failures' \in [Book!Entries -> [Edges -> Nat]]
    BY <1>5, <2>1 DEF Book!GotoCheckFails, GotoCall, Book!RunState
  <2> QED
    BY <1>3, <1>5, <2>4, <2>5 DEF Book!GotoCheckFails, Book!SaveAs, Book!Idle
<1>6. ASSUME NEW c \in Callers, Book!GotoMoves(c) PROVE BookInv'
  <2>1. GotoCall(call[c])
    BY <1>6 DEF Book!GotoMoves, Book!Idle, RegisterCall
  <2>2. nextEntry \in Book!Entries
    BY <1>6 DEF Book!GotoMoves, Book!Entries
  <2>3. run' \in Book!RunState /\ Walks(run)'
    BY <1>6, <2>1, <2>2, MoveWalks DEF Book!GotoMoves, Book!SaveAs, GotoCall
  <2>4. nextEntry' \in 1..(MaxEntries + 1)
    BY <1>6 DEF Book!GotoMoves, Book!BoundsAssumption
  <2> QED
    BY <1>3, <1>6, <2>3, <2>4 DEF Book!GotoMoves, Book!SaveAs, Book!Idle
<1>7. ASSUME NEW c \in Callers, NEW k \in Checks, Book!RegisterLoad(c, k) PROVE BookInv'
  <2>1. RegisterCall(call'[c])
    BY <1>7 DEF Book!RegisterLoad, RegisterCall
  <2> QED
    BY <1>7, <2>1 DEF Book!RegisterLoad
<1>8. ASSUME NEW c \in Callers, Book!RegisterSave(c) PROVE BookInv'
  <2>1. RegisterCall(call[c])
    BY <1>8 DEF Book!RegisterSave, Book!Idle, GotoCall
  <2>2. run' \in Book!RunState /\ Walks(run)'
    BY <1>8, <2>1 DEF Book!RegisterSave, Book!SaveAs, RegisterCall, Book!RunState, Walks
  <2>3. acked' \in [Book!Entries -> SUBSET Checks]
    BY <1>8, <2>1 DEF Book!RegisterSave, RegisterCall, Book!RunState
  <2> QED
    BY <1>3, <1>8, <2>2, <2>3 DEF Book!RegisterSave, Book!SaveAs, Book!Idle
<1>9. ASSUME NEW c \in Callers, Book!Abandon(c) PROVE BookInv'
  BY <1>9 DEF Book!Abandon
<1>10. CASE UNCHANGED Book!vars
  BY <1>10 DEF Book!vars
<1> QED
  BY <1>1, <1>2, <1>4, <1>5, <1>6, <1>7, <1>8, <1>9, <1>10 DEF Book!Next, Book!Step

-----------------------------------------------------------------------------
\* Nobody but c is in a call, so nothing is saved between its load and its save.
Alone(c) == \A d \in Callers \ {c} : call[d] = Book!Idle

\* The saved state agrees with the histories, the entries to come have none, and
\* a call in flight carries the saved state itself.
Counted(s) ==
  /\ s.entry < nextEntry
  /\ s.attempts = failures[s.entry] /\ s.dyn = acked[s.entry]
  /\ s.st = "blocked" => \E e \in Edges : e[1] = s.node /\ s.attempts[e] = MaxAttempts
Agrees ==
  /\ failures \in [Book!Entries -> [Edges -> Nat]] /\ acked \in [Book!Entries -> SUBSET Checks]
  /\ \A n \in Book!Entries : n >= nextEntry => failures[n] = Book!NoAttempts /\ acked[n] = {}
  /\ run # Book!NoRun => Counted(run)
  /\ \A c \in Callers :
       call[c] # Book!Idle =>
         /\ run # Book!NoRun /\ call[c].copy = run
         /\ call[c].op = "goto" => run.st = "running" /\ call[c].due = acked[run.entry]

\* At the start nothing was saved and nobody is in a call.
LEMMA BookStarts ==
  ASSUME Book!Init
  PROVE  BookInv /\ Agrees /\ \A c \in Callers : Alone(c)
  BY BookAssumptions DEF Book!Init, BookInv, Agrees, Alone, Book!BoundsAssumption, Book!NoAttempts, Book!Idle

\* One caller keeps the saved state and the histories in agreement.
LEMMA AgreesKept ==
  ASSUME BookInv, Agrees, NEW c \in Callers, Alone(c), Book!Step(c)
  PROVE  Agrees' /\ Alone(c)'
<1> USE BookAssumptions DEF Agrees, Alone, Book!Entries
<1>0. /\ Book!NoAttempts \in [Edges -> Nat]
      /\ \A d \in Callers : call[d] # Book!Idle => run \in Book!RunState
  BY DEF Book!NoAttempts, BookInv
<1>1. CASE Book!StartRunbook(c)
  <2>1. Counted(run)'
    BY <1>1 DEF Book!StartRunbook, Counted, BookInv
  <2>2. \A d \in Callers : call'[d] = Book!Idle
    BY <1>1 DEF Book!StartRunbook, Book!Ready
  <2> QED
    BY <1>1, <2>1, <2>2 DEF Book!StartRunbook, BookInv
<1>2. ASSUME NEW t \in Nodes, Book!GotoLoad(c, t) PROVE Agrees' /\ Alone(c)'
  BY <1>2 DEF Book!GotoLoad, BookInv, Counted
<1>3. ASSUME call' = [call EXCEPT ![c] = Book!Idle]
      PROVE  \A d \in Callers : call'[d] = Book!Idle
  BY <1>3 DEF BookInv
<1>4. CASE Book!GotoBlocked(c)
  <2>1. GotoCall(call[c]) /\ call[c].copy = run /\ run \in Book!RunState /\ Counted(run)
    BY <1>0, <1>4 DEF Book!GotoBlocked, Book!Idle, RegisterCall, BookInv
  <2>2. run.attempts[call[c].edge] = MaxAttempts
    BY SMTT(60), <1>4, <2>1 DEF Book!GotoBlocked, Book!Exhausted, GotoCall, Book!RunState, Book!BoundsAssumption
  <2>3. run' = [run EXCEPT !.st = "blocked"] /\ UNCHANGED <<nextEntry, failures, acked>>
    BY <1>4, <2>1 DEF Book!GotoBlocked, Book!SaveAs
  <2>4. Counted(run)'
    BY <2>1, <2>2, <2>3 DEF Counted, GotoCall, Book!RunState
  <2> QED
    BY <1>3, <1>4, <2>3, <2>4 DEF Book!GotoBlocked, Book!SaveAs
<1>5. CASE Book!GotoCheckFails(c)
  <2> DEFINE e == call[c].edge
  <2>1. /\ GotoCall(call[c]) /\ call[c].copy = run /\ run \in Book!RunState /\ Counted(run)
        /\ run.st = "running" /\ e \in Edges
    BY <1>0, <1>5 DEF Book!GotoCheckFails, Book!Idle, RegisterCall, BookInv, GotoCall
  <2>2. /\ run' = [run EXCEPT !.attempts[e] = @ + 1]
        /\ failures' = [failures EXCEPT ![run.entry][e] = @ + 1]
        /\ UNCHANGED <<nextEntry, acked>>
    BY <1>5, <2>1 DEF Book!GotoCheckFails, Book!SaveAs
  <2>3. run.entry \in Book!Entries /\ run.entry < nextEntry /\ run.attempts = failures[run.entry]
    BY <2>1 DEF Counted, Book!RunState
  <2>4. Counted(run)'
    BY <2>1, <2>2, <2>3 DEF Counted, Book!RunState
  <2>5. failures' \in [Book!Entries -> [Edges -> Nat]]
    BY <2>1, <2>2, <2>3
  <2>6. \A n \in Book!Entries : n >= nextEntry => failures'[n] = failures[n]
    BY <2>2, <2>3, <2>1 DEF BookInv
  <2> QED
    BY <1>3, <1>5, <2>2, <2>4, <2>5, <2>6 DEF Book!GotoCheckFails, Book!SaveAs
<1>6. CASE Book!GotoMoves(c)
  <2>1. /\ GotoCall(call[c]) /\ call[c].copy = run /\ run \in Book!RunState
        /\ run.st = "running"
    BY <1>0, <1>6 DEF Book!GotoMoves, Book!Idle, RegisterCall, BookInv
  <2>2. /\ run' = Book!AfterMove(run, call[c].edge, nextEntry)
        /\ nextEntry' = nextEntry + 1 /\ nextEntry \in Book!Entries
        /\ UNCHANGED <<failures, acked>>
    BY <1>6, <2>1 DEF Book!GotoMoves, Book!SaveAs, BookInv
  <2>3. /\ run'.entry = nextEntry /\ run'.attempts = Book!NoAttempts /\ run'.dyn = {}
        /\ run'.st \in {"running", "completed"}
    BY <2>1, <2>2 DEF Book!AfterMove, Book!RunState
  <2>4. Counted(run)'
    BY <2>2, <2>3 DEF Counted
  <2>5. \A d \in Callers : call'[d] = Book!Idle
    BY <1>3, <1>6 DEF Book!GotoMoves, Book!SaveAs
  <2>6. \A n \in Book!Entries : n >= nextEntry' => failures'[n] = Book!NoAttempts /\ acked'[n] = {}
    BY <2>2
  <2> QED
    BY <2>2, <2>4, <2>5, <2>6
<1>7. ASSUME NEW k \in Checks, Book!RegisterLoad(c, k) PROVE Agrees' /\ Alone(c)'
  BY <1>7 DEF Book!RegisterLoad, BookInv, Counted
<1>8. CASE Book!RegisterSave(c)
  <2> DEFINE k == call[c].check
  <2>1. RegisterCall(call[c]) /\ call[c].copy = run /\ run \in Book!RunState /\ Counted(run)
    BY <1>0, <1>8 DEF Book!RegisterSave, Book!Idle, GotoCall, BookInv
  <2>2. /\ run' = [run EXCEPT !.dyn = @ \cup {k}]
        /\ acked' = [acked EXCEPT ![run.entry] = @ \cup {k}]
        /\ UNCHANGED <<nextEntry, failures>> /\ k \in Checks
    BY <1>8, <2>1 DEF Book!RegisterSave, Book!SaveAs, RegisterCall
  <2>3. run.entry \in Book!Entries /\ run.entry < nextEntry
    BY <2>1 DEF Counted, Book!RunState
  <2>4. Counted(run)'
    BY <2>1, <2>2, <2>3 DEF Counted, Book!RunState
  <2>5. /\ acked' \in [Book!Entries -> SUBSET Checks]
        /\ \A n \in Book!Entries : n >= nextEntry => acked'[n] = acked[n]
    BY <2>2, <2>3 DEF BookInv
  <2> QED
    BY SMTT(60), <1>3, <1>8, <2>2, <2>4, <2>5 DEF Book!RegisterSave, Book!SaveAs
<1>9. CASE Book!Abandon(c)
  BY <1>9 DEF Book!Abandon, BookInv, Counted
<1> QED
  BY <1>1, <1>2, <1>4, <1>5, <1>6, <1>7, <1>8, <1>9 DEF Book!Step

\* The runbook functions, for any graph and any number of callers: however their
\* calls overlap, the saved history is a walk from the initial node to the current
\* one, and a completed run stands on a node with no way out.
THEOREM HistoryWalks == Book!Spec => []Book!HistoryIsAWalk
<1>1. BookInv => Book!HistoryIsAWalk
  BY DEF BookInv, Book!HistoryIsAWalk, Walks
<1> QED
  BY <1>1, BookStarts, BookStep, PTL DEF Book!Spec

-----------------------------------------------------------------------------
\* run_pipeline.

\* A run's data has the output of every stage before its index, and the answer
\* given to every pause.
Sound(s) ==
  /\ \A k \in 1..(s.index - 1) : Out(k) \in s.data
  /\ \A k \in pauses : Answer(k) \in s.data

\* The file, while it can be read, and the state of a call in progress are sound;
\* a pause was only reported by a run that has a file.
PipelineInv ==
  /\ TypeOK
  /\ Readable => Sound(disk)
  /\ pc # "idle" => Sound(mem) /\ disk # NoFile
  /\ disk = NoFile => pauses = {}

\* At the start there is no file.
LEMMA PipelineStarts == Init => PipelineInv
  BY StagesAssumption DEF Init, PipelineInv, TypeOK, Readable, NoFile, Torn, RunState, Stages

\* Every step of run_pipeline, an interrupted save included, keeps the data sound.
LEMMA PipelineStep ==
  ASSUME PipelineInv, [Next]_vars
  PROVE  PipelineInv'
<1> USE StagesAssumption, RetriesAssumption
    DEF PipelineInv, TypeOK, Sound, Readable, RunState, Stages, Save, Return, history
<1>1. disk \in RunState => disk # NoFile /\ disk # Torn
  BY DEF NoFile, Torn
<1>2. CASE Start
  BY <1>1, <1>2 DEF Start, Fresh, NoFile, Torn
<1>3. CASE Resume
  <2>1. disk \in RunState
    BY <1>3 DEF Resume
  <2>2. /\ disk' = [disk EXCEPT !.state = "running", !.paused = 0] /\ mem' = disk'
        /\ pc' = "enter" /\ resumes' \in Nat
        /\ UNCHANGED <<attempts, succeeded, pauses, npauses, interrupts>>
    BY <1>3 DEF Resume
  <2>3. disk' \in RunState /\ disk'.index = disk.index /\ disk'.data = disk.data
    BY <2>1, <2>2
  <2>4. Sound(disk)'
    BY <1>3, <2>2, <2>3 DEF Resume
  <2> QED
    BY <2>2, <2>3, <2>4, <1>1 DEF NoFile, Torn
<1>4. CASE Enter
  BY <1>4 DEF Enter, NoFile, Torn
<1>5. CASE StageReturns
  <2> DEFINE i == mem.index
             d == mem.data \cup {Out(i)}
  <2>1. mem \in RunState /\ Sound(mem) /\ Out(i) \in Data
    BY <1>5 DEF StageReturns, Out, Data
  <2>2. /\ pc' \in {"enter", "finish"}
        /\ succeeded' = [succeeded EXCEPT ![i] = @ + 1]
        /\ UNCHANGED <<attempts, pauses, npauses, interrupts, resumes>>
    BY <1>5 DEF StageReturns
  <2>3. disk' \in RunState /\ disk'.index = i /\ disk'.data = d
    BY <1>5, <2>1 DEF StageReturns
  <2>4. mem' \in RunState /\ mem'.data = d /\ mem'.index \in {i, i + 1}
    <3>1. CASE i < NStages
      <4>1. i + 1 \in 1..NStages
        BY <2>1, <3>1
      <4>2. mem' = [[mem EXCEPT !.data = d] EXCEPT !.index = i + 1]
        BY <1>5, <2>1, <3>1 DEF StageReturns
      <4>3. mem' = [mem EXCEPT !.data = d, !.index = i + 1]
        BY <4>2
      <4> QED BY <2>1, <4>1, <4>3
    <3>2. CASE ~(i < NStages)
      BY <1>5, <2>1, <3>2 DEF StageReturns
    <3> QED BY <3>1, <3>2
  <2>5. \A k \in 1..i : Out(k) \in d
    BY <2>1
  <2>6. \A k \in pauses' : Answer(k) \in d
    BY <2>1, <2>2
  <2>7. i \in Stages
    BY <2>1
  <2> HIDE DEF i, d
  <2>8. Sound(disk)' /\ Sound(mem)'
    BY SMTT(60), <2>3, <2>4, <2>5, <2>6, <2>7
  <2>9. succeeded' \in [Stages -> Nat]
    BY SMTT(60), <2>2, <2>7
  <2>10. pauses' \subseteq Stages /\ disk' # NoFile /\ disk' # Torn
    BY SMTT(60), <2>2, <2>3 DEF NoFile, Torn
  <2> QED
    BY <2>2, <2>3, <2>4, <2>8, <2>9, <2>10
<1>6. CASE StagePauses
  <2>1. mem \in RunState /\ Sound(mem) /\ Answer(mem.index) \in Data
    BY <1>6 DEF StagePauses, Answer, Data
  <2>2. /\ disk' = [mem EXCEPT !.data = @ \cup {Answer(mem.index)}, !.state = "paused", !.paused = mem.index]
        /\ mem' = disk' /\ pc' = "idle" /\ pauses' = pauses \cup {mem.index} /\ npauses' \in Nat
        /\ UNCHANGED <<attempts, succeeded, interrupts, resumes>>
    BY <1>6 DEF StagePauses
  <2>3. disk' \in RunState /\ disk'.index = mem.index /\ disk'.data = mem.data \cup {Answer(mem.index)}
    BY <2>1, <2>2
  <2>4. Sound(disk)'
    BY <2>1, <2>2, <2>3
  <2> QED
    BY <2>1, <2>2, <2>3, <2>4 DEF NoFile, Torn
<1>7. CASE StageFails
  BY <1>7 DEF StageFails, NoFile, Torn
<1>8. CASE StageRaises
  <2>1. CASE UNCHANGED <<disk, mem, pc>>
    BY SMTT(60), <1>8, <2>1 DEF StageRaises
  <2>2. CASE Save([mem EXCEPT !.state = "failed"]) /\ Return
    <3>1. mem \in RunState /\ attempts' \in Nat
      BY <1>8 DEF StageRaises
    <3>2. mem' = [mem EXCEPT !.state = "failed"] /\ disk' = mem' /\ pc' = "idle"
      BY <2>2
    <3>3. UNCHANGED <<succeeded, pauses, npauses, interrupts, resumes>>
      BY <1>8 DEF StageRaises
    <3> QED BY <1>8, <3>1, <3>2, <3>3 DEF StageRaises, NoFile, Torn
  <2> QED
    BY <1>8, <2>1, <2>2 DEF StageRaises
<1>9. CASE Finish
  BY <1>9 DEF Finish, NoFile, Torn
<1>10. CASE Interrupted
  <2>1. CASE disk' = disk
    BY <1>10, <2>1 DEF Interrupted
  <2>2. CASE disk' = Torn
    BY <1>10, <2>2 DEF Interrupted, NoFile, Torn
  <2> QED
    BY <1>10, <2>1, <2>2 DEF Interrupted
<1>11. CASE UNCHANGED vars
  BY <1>11 DEF vars
<1> QED
  BY <1>2, <1>3, <1>4, <1>5, <1>6, <1>7, <1>8, <1>9, <1>10, <1>11 DEF Next

-----------------------------------------------------------------------------
\* The executors side by side, as they are checked.

\* Whichever executor runs keeps its invariant, and the other one's state.
ExecutionInv ==
  /\ PipelineInv /\ BookInv
  /\ scenario = "runbook" => Agrees /\ Alone(Lead)
everything == <<scenario, vars, bookVars>>

\* The composition is inductive because each step is a step of one executor.
LEMMA ExecutionStep ==
  ASSUME ExecutionInv, [ExecutionNext]_everything
  PROVE  ExecutionInv'
<1> USE DEF ExecutionInv
<1>1. CASE scenario = "pipeline" /\ Next /\ UNCHANGED <<scenario, bookVars>>
  <2>1. UNCHANGED Book!vars
    BY <1>1 DEF bookVars, Book!vars
  <2> QED
    BY <1>1, <2>1, PipelineStep, BookStep
<1>2. CASE scenario = "runbook" /\ Book!Step(Lead) /\ UNCHANGED <<scenario, vars>>
  <2>1. Book!Next
    BY <1>2, BookAssumptions DEF Book!Next
  <2> QED
    BY <1>2, <2>1, BookAssumptions, PipelineStep, BookStep, AgreesKept
<1>3. CASE scenario = "shared runbook" /\ SharedStep /\ UNCHANGED <<scenario, vars>>
  BY <1>3, PipelineStep, BookStep DEF SharedStep
<1>4. CASE UNCHANGED everything
  <2>1. UNCHANGED <<scenario, vars, Book!vars>>
    BY <1>4 DEF everything, bookVars, Book!vars
  <2>2. (Agrees <=> Agrees') /\ (Alone(Lead) <=> Alone(Lead)')
    BY <2>1 DEF Book!vars, Agrees, Counted, Alone
  <2> QED
    BY <2>1, <2>2, PipelineStep, BookStep
<1> QED
  BY <1>1, <1>2, <1>3, <1>4 DEF ExecutionNext

\* The invariant holds of every behaviour of the two executors.
LEMMA ExecutionInvariant == ExecutionSpec => []ExecutionInv
<1>1. ExecutionInit => ExecutionInv
  BY BookAssumptions, PipelineStarts, BookStarts DEF ExecutionInit, ExecutionInv
<1> QED
  BY <1>1, ExecutionStep, PTL DEF ExecutionSpec, everything

\* run_pipeline, for any number of stages, pauses and crashes: a stage's function is
\* called with the outputs of all stages before it, and no answer is lost.
THEOREM StageData == ExecutionSpec => []StagesKeepTheirData
<1>1. ExecutionInv => StagesKeepTheirData
  BY DEF ExecutionInv, PipelineInv, TypeOK, RunState, Sound, StagesKeepTheirData, InputsReady, AnswersKept
<1> QED
  BY <1>1, ExecutionInvariant, PTL

\* register_dynamic_check and runbook_goto with one caller, for any graph: what was
\* registered before a goto is evaluated by it, the attempts are the failed rounds
\* of this visit, and a run is blocked only when one edge used them up.
THEOREM ChecksCount == ExecutionSpec => []ChecksDecide
<1>1. ExecutionInv => ChecksDecide
  BY DEF ExecutionInv, BookInv, Agrees, Counted, ChecksDecide, Book!Idle,
         Book!RegisteredChecksEvaluated, Book!BlockedIsEarned
<1> QED
  BY <1>1, ExecutionInvariant, PTL

\* The saved history of a runbook is a walk in every scenario that is checked.
THEOREM CheckedHistoryWalks == ExecutionSpec => []HistoryIsAWalk
<1>1. ExecutionInv => HistoryIsAWalk
  BY DEF ExecutionInv, BookInv, Walks, HistoryIsAWalk, Book!HistoryIsAWalk
<1> QED
  BY <1>1, ExecutionInvariant, PTL

\* Every variable of the two executors keeps its type.
THEOREM TypesCorrect == ExecutionSpec => []TypesOK
<1>1. ExecutionInv => TypesOK
  BY DEF ExecutionInv, PipelineInv, BookInv, GotoCall, RegisterCall, TypesOK, Book!TypeOK
<1> QED
  BY <1>1, ExecutionInvariant, PTL

=============================================================================
