------------------------------ MODULE Runbook ------------------------------
(***************************************************************************)
(* obase.orchestrator's runbook half: a run walks a directed graph, one    *)
(* runbook_goto per step.  Each function loads the run state, works on its *)
(* copy (running checks and hooks, arbitrary callbacks, in between), and   *)
(* saves the whole copy back; nothing locks the run.                       *)
(*                                                                         *)
(* One run identifier.  A load and a save are atomic (the SQLite backend;  *)
(* the file backend's reader may also meet a half-written file).           *)
(* Checks are abstracted to their verdict, hooks and the optional context  *)
(* and causal stores to nothing.                                           *)
(*                                                                         *)
(* A definition named X_Slip is X with a slip a programmer could make; the *)
(* properties are checked to notice it.  Nothing else uses it.             *)
(***************************************************************************)
EXTENDS Naturals, Sequences

CONSTANTS
  Nodes, Edges, Initial,  \* the runbook
  MaxAttempts,            \* max_attempts of every edge
  Checks,                 \* dynamic checks, each registered at most once
  Callers,                \* threads or processes that drive the run
  MaxEntries,             \* bound: entries (visits of a node) per behaviour
  MaxRounds,              \* bound: failed check rounds per visit and edge
  MaxRestarts,            \* bound: start_runbook(resume=False) calls
  MaxAbandons             \* bound: calls lost to an exception or a crash

GraphAssumption == Edges \subseteq Nodes \X Nodes /\ Initial \in Nodes
BoundsAssumption ==
  /\ MaxAttempts \in Nat \ {0} /\ MaxEntries \in Nat \ {0}
  /\ MaxRounds \in Nat
  /\ MaxRestarts \in Nat /\ MaxAbandons \in Nat

VARIABLES
  run,        \* the saved RunState
  call,       \* per caller, the call between its load and its save
  nextEntry,  \* entry identifiers are fresh
  failures,   \* history: failed check rounds, per entry and edge
  acked,      \* history: per entry, checks whose registration returned
  restarts, abandons

vars == <<run, call, nextEntry, failures, acked, restarts, abandons>>

Entries == 1..MaxEntries
NoRun == [st |-> "none"]
Idle == [op |-> "idle"]
RunState == [st: {"running", "completed", "blocked"}, node: Nodes, entry: Entries,
             attempts: [Edges -> 0..MaxAttempts], dyn: SUBSET Checks,
             path: Seq(Edges)]

NoAttempts == [e \in Edges |-> 0]
Final(n) == \A e \in Edges : e[1] # n
Ready(c) == call[c] = Idle

\* A call ends: its copy becomes the saved state.
SaveAs(c, s) == run' = s /\ call' = [call EXCEPT ![c] = Idle]

-----------------------------------------------------------------------------
Init ==
  /\ run = NoRun
  /\ call = [c \in Callers |-> Idle]
  /\ nextEntry = 1
  /\ failures = [n \in Entries |-> NoAttempts]
  /\ acked = [n \in Entries |-> {}]
  /\ restarts = 0 /\ abandons = 0

\* start_runbook on a new run, or with resume=False on any run.
StartRunbook(c) ==
  /\ Ready(c) /\ nextEntry <= MaxEntries
  /\ IF run = NoRun THEN UNCHANGED restarts
     ELSE restarts < MaxRestarts /\ restarts' = restarts + 1
  /\ run' = [st |-> "running", node |-> Initial, entry |-> nextEntry,
             attempts |-> NoAttempts, dyn |-> {}, path |-> <<>>]
  /\ nextEntry' = nextEntry + 1
  /\ UNCHANGED <<call, failures, acked, abandons>>

\* runbook_goto loads the run; a run that is not running, or a target with no
\* edge to it, is refused without a change.
GotoLoad(c, t) ==
  /\ Ready(c) /\ run # NoRun
  /\ run.st = "running"
  /\ <<run.node, t>> \in Edges
  /\ call' = [call EXCEPT ![c] =
                [op |-> "goto", edge |-> <<run.node, t>>, copy |-> run, due |-> acked[run.entry]]]
  /\ UNCHANGED <<run, nextEntry, failures, acked, restarts, abandons>>

Exhausted_OneEarly(s, e) == s.attempts[e] + 1 >= MaxAttempts
Exhausted(s, e) == s.attempts[e] >= MaxAttempts

\* The edge has no attempts left.
GotoBlocked(c) ==
  LET g == call[c] IN
  /\ g.op = "goto" /\ Exhausted(g.copy, g.edge)
  /\ SaveAs(c, [g.copy EXCEPT !.st = "blocked"])
  /\ UNCHANGED <<nextEntry, failures, acked, restarts, abandons>>

\* A blocking check fails: the run stays, the attempt is counted.
GotoCheckFails_NotCounted(c) ==
  LET g == call[c] IN
  /\ g.op = "goto" /\ ~Exhausted(g.copy, g.edge)
  /\ SaveAs(c, g.copy)
  /\ failures' = [failures EXCEPT ![g.copy.entry][g.edge] = IF @ < MaxRounds THEN @ + 1 ELSE @]
  /\ UNCHANGED <<nextEntry, acked, restarts, abandons>>
GotoCheckFails(c) ==
  LET g == call[c] IN
  /\ g.op = "goto" /\ ~Exhausted(g.copy, g.edge)
  /\ failures[g.copy.entry][g.edge] < MaxRounds
  /\ SaveAs(c, [g.copy EXCEPT !.attempts[g.edge] = @ + 1])
  /\ failures' = [failures EXCEPT ![g.copy.entry][g.edge] = @ + 1]
  /\ UNCHANGED <<nextEntry, acked, restarts, abandons>>

\* The state after a move along an edge: a new entry with no attempts and no
\* dynamic checks; a node without edges completes the run.
AfterMove_NoTrace(s, e, n) ==
  [s EXCEPT !.node = e[2], !.entry = n, !.attempts = NoAttempts, !.dyn = {},
            !.st = IF Final(e[2]) THEN "completed" ELSE @]
AfterMove(s, e, n) ==
  [s EXCEPT !.node = e[2], !.entry = n, !.attempts = NoAttempts, !.dyn = {},
            !.path = Append(@, e),
            !.st = IF Final(e[2]) THEN "completed" ELSE @]

GotoMoves(c) ==
  LET g == call[c] IN
  /\ g.op = "goto" /\ ~Exhausted(g.copy, g.edge)
  /\ nextEntry <= MaxEntries
  /\ SaveAs(c, AfterMove(g.copy, g.edge, nextEntry))
  /\ nextEntry' = nextEntry + 1
  /\ UNCHANGED <<failures, acked, restarts, abandons>>

\* register_dynamic_check, in any state of the run.
RegisterLoad(c, k) ==
  /\ Ready(c) /\ run # NoRun
  /\ \A n \in Entries : k \notin acked[n]
  /\ \A d \in Callers : call[d].op = "register" => call[d].check # k
  /\ call' = [call EXCEPT ![c] = [op |-> "register", check |-> k, copy |-> run]]
  /\ UNCHANGED <<run, nextEntry, failures, acked, restarts, abandons>>

RegisterSave(c) ==
  LET r == call[c] IN
  /\ r.op = "register"
  /\ SaveAs(c, [r.copy EXCEPT !.dyn = @ \cup {r.check}])
  /\ acked' = [acked EXCEPT ![r.copy.entry] = @ \cup {r.check}]
  /\ UNCHANGED <<nextEntry, failures, restarts, abandons>>

\* A check runner or a hook raises, or the caller's process dies: nothing of
\* the call is saved.
Abandon(c) ==
  /\ call[c] # Idle /\ abandons < MaxAbandons
  /\ call' = [call EXCEPT ![c] = Idle]
  /\ abandons' = abandons + 1
  /\ UNCHANGED <<run, nextEntry, failures, acked, restarts>>

Step(c) ==
  \/ StartRunbook(c)
  \/ \E t \in Nodes : GotoLoad(c, t)
  \/ GotoBlocked(c) \/ GotoCheckFails(c) \/ GotoMoves(c)
  \/ \E k \in Checks : RegisterLoad(c, k)
  \/ RegisterSave(c) \/ Abandon(c)

Next == \E c \in Callers : Step(c)

Spec == Init /\ [][Next]_vars

\* A started call returns, and somebody keeps trying to move the run on.
Fairness ==
  /\ \A c \in Callers :
       /\ WF_vars(GotoBlocked(c))
       /\ WF_vars(GotoCheckFails(c) \/ GotoMoves(c))
       /\ WF_vars(RegisterSave(c))
  /\ WF_vars(\E c \in Callers, t \in Nodes : GotoLoad(c, t))

-----------------------------------------------------------------------------
\* Every variable has its type (histories up to the bounds).
TypeOK ==
  /\ run = NoRun \/ run \in RunState
  /\ \A c \in Callers :
       \/ call[c] = Idle
       \/ call[c].op = "goto" /\ call[c].edge \in Edges /\ call[c].copy \in RunState
            /\ call[c].due \subseteq Checks
       \/ call[c].op = "register" /\ call[c].check \in Checks /\ call[c].copy \in RunState
  /\ nextEntry \in 1..(MaxEntries + 1)
  /\ failures \in [Entries -> [Edges -> Nat]]
  /\ acked \in [Entries -> SUBSET Checks]

\* A check whose registration returned before a goto started is among the
\* checks that goto evaluates (register_dynamic_check's promise).
RegisteredChecksEvaluated ==
  \A c \in Callers : call[c].op = "goto" => call[c].due \subseteq call[c].copy.dyn

\* The saved counter is the number of failed rounds of this visit, and a run
\* is blocked only by an edge that used up its attempts.
BlockedIsEarned ==
  run # NoRun =>
    /\ \A e \in Edges : run.attempts[e] = failures[run.entry][e]
    /\ run.st = "blocked" => \E e \in Edges : e[1] = run.node /\ failures[run.entry][e] = MaxAttempts

\* The recorded transitions are a walk from the initial node to the current
\* one, and a completed run stands on a node with no way out.
HistoryIsAWalk ==
  run # NoRun =>
    LET p == run.path IN
    /\ p = <<>> => run.node = Initial
    /\ p # <<>> => p[1][1] = Initial /\ p[Len(p)][2] = run.node
    /\ \A k \in 1..(Len(p) - 1) : p[k][2] = p[k + 1][1]
    /\ run.st = "completed" => p # <<>> /\ Final(run.node)

\* While somebody keeps trying, a visit of a node with a way out ends: the run
\* moves on or is blocked.
Visiting(n) == run # NoRun /\ run.entry = n /\ run.st = "running" /\ ~Final(run.node)
EveryVisitEnds == \A n \in Entries : Visiting(n) ~> ~Visiting(n)

=============================================================================
