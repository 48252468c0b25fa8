------------------------------ MODULE Planner ------------------------------
(***************************************************************************)
(* What LPAStar and DStarLite of pathfinding_lab.py have in common: the    *)
(* graph they share with its owner, which changes edges between calls, one *)
(* or several, and notifies the planner of each; and the state of a        *)
(* search.  One step is one turn of the loop of compute_shortest_path or   *)
(* of the loop in _top.  The heap is the set of its entries: which of two  *)
(* entries with the same key comes first is left open, and equal entries   *)
(* for one node count once, since the second one is thrown away by _top or *)
(* finds the node as a new push would leave it.  max_steps has no effect:  *)
(* a call that returns leaves nothing to do for a call with a budget.      *)
(***************************************************************************)
EXTENDS PathGraph

CONSTANTS
  Start, Goal,
  Heuristic,    \* heuristic(a, b), as a function of the pair
  FirstGraphs,  \* graphs the planner may be made with
  EdgeCosts,    \* costs the owner may give to each edge, Inf for no edge
  MaxChanges    \* bound: changes of edges

\* _require_endpoints, _require_positive_incremental_costs
ASSUME PlannerAssumption ==
  /\ Start \in Nodes /\ Goal \in Nodes /\ MaxChanges \in Nat
  /\ Heuristic \in [Nodes \X Nodes -> Nat]
  /\ FirstGraphs \subseteq Graphs
  /\ EdgeCosts \in [Nodes \X Nodes -> SUBSET Cost]
  /\ \A e \in Nodes \X Nodes : 0 \notin EdgeCosts[e] /\ \A w \in FirstGraphs : w[e] # 0

VARIABLES
  cost,         \* the graph
  unnotified,   \* edges changed since the planner was last told of them
  changes,      \* changes made
  g, rhs,
  queue,        \* entries [key, node] of the heap
  phase         \* "searching" inside a call, "idle" after it

graph == <<cost, unnotified, changes>>
search == <<g, rhs, queue>>

\* An edge keeps the heuristic below it: what a consistent heuristic asks for.
Above(u, v, bound) ==
  \A c \in EdgeCosts[<<u, v>>] \cup {w[<<u, v>>] : w \in FirstGraphs} : c = Inf \/ bound <= c

InitGraph == cost \in FirstGraphs /\ unnotified = {} /\ changes = 0

\* The owner changes one edge.
ChangeEdge(u, v, c) ==
  /\ phase = "idle" /\ changes < MaxChanges
  /\ c # cost[<<u, v>>]
  /\ cost' = SetEdge(cost, u, v, c)
  /\ unnotified' = unnotified \cup {<<u, v>>}
  /\ changes' = changes + 1
  /\ UNCHANGED <<search, phase>>

\* The owner is about to notify the planner of an edge.
Notified(u, v) ==
  /\ phase = "idle" /\ phase' = "searching"
  /\ <<u, v>> \in unnotified
  /\ unnotified' = unnotified \ {<<u, v>>}
  /\ UNCHANGED <<cost, changes>>

AtTop(e) == e \in queue /\ \A d \in queue : ~KeyLess(d.key, e.key)

SearchTypeOK ==
  /\ cost \in Graphs /\ unnotified \subseteq Nodes \X Nodes /\ changes \in 0 .. MaxChanges
  /\ g \in [Nodes -> Cost] /\ rhs \in [Nodes -> Cost]
  /\ queue \subseteq [key : Cost \X Cost, node : Nodes]
  /\ phase \in {"searching", "idle"}
=============================================================================
