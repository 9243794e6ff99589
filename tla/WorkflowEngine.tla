--------------------------- MODULE WorkflowEngine ---------------------------
(***************************************************************************)
(* obase.workflow_engine.WorkflowEngine: a graph of nodes is refused when  *)
(* it has a cycle, sorted into layers, and executed layer by layer, the    *)
(* nodes of a layer concurrently.                                          *)
(*                                                                         *)
(* Abstracted: what a node returns; outputs are the nodes they are of.     *)
(* Edges join nodes of the list.  The order within a layer is any.         *)
(*                                                                         *)
(* A definition named X_Slip is X with a slip a programmer could make; the *)
(* properties are checked to notice it.  Nothing else uses it.             *)
(***************************************************************************)
EXTENDS Naturals, FiniteSets, Sequences
LOCAL INSTANCE FiniteSetsExt

CONSTANTS
  Nodes,
  Cyclic       \* the answer CycleError

VARIABLES
  edges,       \* the edges given
  onError,     \* "rollback" or "continue"
  layers,      \* what topological_sort returned: Cyclic or a sequence of layers
  layer,       \* the layer execute is at, 0 before it starts
  state,       \* per node: "waiting", "running", "done", "failed", "cancelled"
  upstream,    \* per node, the nodes whose outputs it was given
  outputs,     \* the nodes outputs has entries of
  verdict      \* "none", "finished", "failed" (WorkflowExecutionError), "broken"

vars == <<edges, onError, layers, layer, state, upstream, outputs, verdict>>

Successors(n) == {m \in Nodes : <<n, m>> \in edges}

-----------------------------------------------------------------------------
\* detect_cycle: depth-first search with three colours; a colouring, or
\* Cyclic when an edge led back to a grey node.
Colours == {"white", "grey", "black"}
Search[n \in Nodes, colour \in [Nodes -> Colours]] ==
  LET Visit(m, acc) ==
        IF acc = Cyclic \/ acc[m] = "black" THEN acc
        ELSE IF acc[m] = "grey" THEN Cyclic ELSE Search[m, acc]
      below == FoldSet(Visit, [colour EXCEPT ![n] = "grey"], Successors(n))
  IN IF below = Cyclic THEN Cyclic ELSE [below EXCEPT ![n] = "black"]
DetectsCycle ==
  LET Visit(n, acc) == IF acc = Cyclic \/ acc[n] # "white" THEN acc ELSE Search[n, acc]
  IN FoldSet(Visit, [n \in Nodes |-> "white"], Nodes) = Cyclic

\* The layers that follow, given the remaining in-degrees and a layer; a node
\* enters the next one when its in-degree reaches zero.
InDegree == [n \in Nodes |-> Cardinality({m \in Nodes : <<m, n>> \in edges})]
Ready_Slip(degree, left, queue) == {n \in Nodes : left[n] < degree[n]}
Ready(degree, left, queue) == {n \in Nodes : left[n] = 0 /\ left[n] < degree[n]}
Layers[degree \in [Nodes -> 0..Cardinality(Nodes)], queue \in SUBSET Nodes] ==
  IF queue = {} THEN <<>>
  ELSE LET left == [n \in Nodes |-> degree[n] - Cardinality({m \in queue : <<m, n>> \in edges})]
       IN <<queue>> \o Layers[left, Ready(degree, left, queue)]

TopologicalSort ==
  IF DetectsCycle THEN Cyclic ELSE Layers[InDegree, {n \in Nodes : InDegree[n] = 0}]

-----------------------------------------------------------------------------
Init ==
  /\ edges \in SUBSET (Nodes \X Nodes) /\ onError \in {"rollback", "continue"}
  /\ layers = <<>> /\ layer = 0 /\ verdict = "none"
  /\ state = [n \in Nodes |-> "waiting"]
  /\ upstream = [n \in Nodes |-> {}] /\ outputs = {}

Current == layers[layer]

Sort ==
  /\ layer = 0 /\ verdict = "none"
  /\ layers' = TopologicalSort
  /\ IF layers' = Cyclic \/ Nodes = {} THEN verdict' = "finished" /\ UNCHANGED layer
     ELSE layer' = 1 /\ UNCHANGED verdict
  /\ UNCHANGED <<edges, onError, state, upstream, outputs>>

\* A task of the layer starts with a copy of outputs; the executor returns,
\* raises or is cancelled.
Begin(n) ==
  /\ layer > 0 /\ verdict = "none" /\ n \in Current /\ state[n] = "waiting"
  /\ state' = [state EXCEPT ![n] = "running"] /\ upstream' = [upstream EXCEPT ![n] = outputs]
  /\ UNCHANGED <<edges, onError, layers, layer, outputs, verdict>>
End(n, how) ==
  /\ state[n] = "running" /\ state' = [state EXCEPT ![n] = how]
  /\ UNCHANGED <<edges, onError, layers, layer, upstream, outputs, verdict>>

\* gather returns when all have ended.  The outcomes are taken in order: a
\* failure ends a rollback execution, a cancelled task breaks the unpacking.
Gathered ==
  /\ layer > 0 /\ verdict = "none"
  /\ \A n \in Current : state[n] \in {"done", "failed", "cancelled"}
Raises(n) == state[n] = "cancelled" \/ (state[n] = "failed" /\ onError = "rollback")

LastLayer_Slip == layer > Len(layers)
LastLayer == layer = Len(layers)
NextLayer ==
  /\ Gathered /\ \A n \in Current : ~Raises(n)
  /\ outputs' = outputs \cup Current
  /\ IF LastLayer THEN verdict' = "finished" /\ UNCHANGED layer
     ELSE layer' = layer + 1 /\ UNCHANGED verdict
  /\ UNCHANGED <<edges, onError, layers, state, upstream>>
Raise(n) ==
  /\ Gathered /\ n \in Current /\ Raises(n)
  /\ \E before \in SUBSET {m \in Current : ~Raises(m)} : outputs' = outputs \cup before
  /\ verdict' = IF state[n] = "failed" THEN "failed" ELSE "broken"
  /\ UNCHANGED <<edges, onError, layers, layer, state, upstream>>

Next ==
  \/ Sort \/ NextLayer
  \/ \E n \in Nodes :
       \/ Begin(n) \/ Raise(n)
       \/ \E how \in {"done", "failed", "cancelled"} : End(n, how)

Spec == Init /\ [][Next]_vars

-----------------------------------------------------------------------------
\* Every variable has its type.
TypeOK ==
  /\ edges \subseteq Nodes \X Nodes /\ onError \in {"rollback", "continue"}
  /\ layers = Cyclic \/ \A i \in DOMAIN layers : layers[i] \subseteq Nodes
  /\ layer = 0 \/ layer \in 1..Len(layers)
  /\ state \in [Nodes -> {"waiting", "running", "done", "failed", "cancelled"}]
  /\ upstream \in [Nodes -> SUBSET Nodes] /\ outputs \subseteq Nodes
  /\ verdict \in {"none", "finished", "failed", "broken"}

\* A graph is refused exactly when some edges lead back to where they start;
\* in any other, a node runs after every node it depends on has ended and is
\* given its output, and none is left out when the execution finishes.
Reaches == [n \in Nodes |->
  {m \in Nodes : \E k \in 1..Cardinality(Nodes) :
     \E path \in [0..k -> Nodes] :
       path[0] = n /\ path[k] = m /\ \A i \in 0..(k-1) : <<path[i], path[i+1]>> \in edges}]
DependenciesFirst ==
  /\ layers # <<>> => (layers = Cyclic <=> \E n \in Nodes : n \in Reaches[n])
  /\ \A n \in Nodes : state[n] # "waiting" => \A m \in Nodes : <<m, n>> \in edges => m \in upstream[n]
  /\ verdict = "finished" /\ layers # Cyclic => outputs = Nodes

=============================================================================
