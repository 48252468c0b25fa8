------------------------------ MODULE LPAStar ------------------------------
(***************************************************************************)
(* class LPAStar of pathfinding_lab.py: a planner between two fixed nodes  *)
(* that keeps its search and repairs it when the cost of an edge changes.  *)
(* The parent map it fills is never read and is left out.                  *)
(***************************************************************************)
EXTENDS Planner

\* What the distances rest on besides PlannerAssumption.
ConsistentHeuristic ==
  /\ Heuristic[<<Goal, Goal>>] = 0
  /\ \A u, v \in Nodes : Above(u, v, Heuristic[<<u, Goal>>] - Heuristic[<<v, Goal>>])

vars == <<graph, search, phase>>

KeyOf(gs, rs, v) ==
  LET base == Least({gs[v], rs[v]}) IN <<CheckedAdd(base, Heuristic[<<v, Goal>>]), base>>
Key(v) == KeyOf(g, rhs, v)

\* One step lookahead of _update_vertex.
Lookahead(gs, v) ==
  IF v = Start THEN 0 ELSE Least({CheckedAdd(gs[u], cost[<<u, v>>]) : u \in Predecessors(cost, v)})

\* _update_vertex for every node of changed, once g is gs: the calls do not
\* read each other's result.
UpdateVertices(gs, changed, entries) ==
  LET rs == [v \in Nodes |-> IF v \in changed THEN Lookahead(gs, v) ELSE rhs[v]]
  IN /\ g' = gs
     /\ rhs' = rs
     /\ queue' = entries \cup {[key |-> KeyOf(gs, rs, v), node |-> v] :
                               v \in {x \in changed : gs[x] # rs[x]}}

Init ==
  /\ InitGraph
  /\ g = [v \in Nodes |-> Inf]
  /\ rhs = [v \in Nodes |-> IF v = Start THEN 0 ELSE Inf]
  /\ queue = {[key |-> <<Heuristic[<<Start, Goal>>], 0>>, node |-> Start]}
  /\ phase = "searching"

NotifyEdgeChange(u, v) == Notified(u, v) /\ UpdateVertices(g, {v}, queue)

Current(e) == g[e.node] # rhs[e.node] /\ e.key = Key(e.node)

\* _top: an entry whose node became consistent is dropped, one whose key is
\* out of date is pushed again.
DropConsistent(e) ==
  /\ phase = "searching" /\ AtTop(e)
  /\ g[e.node] = rhs[e.node]
  /\ queue' = queue \ {e}
  /\ UNCHANGED <<graph, g, rhs, phase>>

PushAgain(e) ==
  /\ phase = "searching" /\ AtTop(e)
  /\ g[e.node] # rhs[e.node] /\ e.key # Key(e.node)
  /\ queue' = (queue \ {e}) \cup {[key |-> Key(e.node), node |-> e.node]}
  /\ UNCHANGED <<graph, g, rhs, phase>>

\* Mutant: the goal's consistency taken for the end of the search.
UnfinishedGoalOnly(key) == rhs[Goal] # g[Goal]

\* The test that ends compute_shortest_path, with the key _top returned.
Unfinished(key) == KeyLess(key, Key(Goal)) \/ rhs[Goal] # g[Goal]

Lower(e) ==
  /\ phase = "searching" /\ AtTop(e) /\ Current(e) /\ Unfinished(e.key)
  /\ Less(rhs[e.node], g[e.node])
  /\ UpdateVertices([g EXCEPT ![e.node] = rhs[e.node]], Successors(cost, e.node), queue \ {e})
  /\ UNCHANGED <<graph, phase>>

Raise(e) ==
  /\ phase = "searching" /\ AtTop(e) /\ Current(e) /\ Unfinished(e.key)
  /\ ~Less(rhs[e.node], g[e.node])
  /\ UpdateVertices([g EXCEPT ![e.node] = Inf],
                    Successors(cost, e.node) \cup {e.node}, queue \ {e})
  /\ UNCHANGED <<graph, phase>>

Return ==
  /\ phase = "searching"
  /\ \/ queue = {} /\ rhs[Goal] = g[Goal]
     \/ \E e \in queue : AtTop(e) /\ Current(e) /\ ~Unfinished(e.key)
  /\ phase' = "idle"
  /\ UNCHANGED <<graph, search>>

\* Where the code raises "queue exhausted while goal remained inconsistent".
Exhausted == phase = "searching" /\ queue = {} /\ rhs[Goal] # g[Goal]

Compute ==
  \/ \E e \in queue : DropConsistent(e) \/ PushAgain(e) \/ Lower(e) \/ Raise(e)
  \/ Return

Next ==
  \/ \E u, v \in Nodes : NotifyEdgeChange(u, v) \/ \E c \in EdgeCosts[<<u, v>>] : ChangeEdge(u, v, c)
  \/ Compute

Spec == Init /\ [][Next]_vars
\* A call of the planner runs on until it returns.
FairSpec == Spec /\ WF_vars(Compute)

\* The routes path can return, by _restore_path along edges that are tight for g.
Routes ==
  BacktrackingPaths(Start, Goal,
    [u \in Nodes |-> {v \in Successors(cost, u) : g[v] # Inf /\ CheckedAdd(g[u], cost[<<u, v>>]) = g[v]}])
-----------------------------------------------------------------------------
TypeOK == SearchTypeOK

\* What the repair of the search rests on, in the middle of a call as well as
\* between the changes of several edges: rhs is the lookahead of every node
\* none of whose edges waits for its notification, and each inconsistent node
\* is in the heap under its present key, so that the loop can neither miss it
\* nor run out of entries while the goal is inconsistent.
Repairable ==
  /\ \A v \in Nodes : (\A u \in Nodes : <<u, v>> \notin unnotified) => rhs[v] = Lookahead(g, v)
  /\ \A v \in Nodes : g[v] # rhs[v] => [key |-> Key(v), node |-> v] \in queue
  /\ ~Exhausted

\* d solves the equations of Bellman for the distances from Start.
Solves(d) == \A v \in Nodes : d[v] = Lookahead(d, v)

\* After a call, with every change notified, the planner knows the distance.
DistanceKnown(d) == phase = "idle" /\ unnotified = {} /\ Solves(d) => g[Goal] = d[Goal]

\* After a call, with every change notified, the planner knows the distance
\* of a fresh search, and each route it can restore has that cost; it has one
\* exactly if there is one.
ShortestPathKnown ==
  phase = "idle" /\ unnotified = {} =>
    /\ LET d == Distances(cost, Start) IN Solves(d) /\ DistanceKnown(d)
    /\ g[Goal] = Inf \/ Routes # {}
    /\ g[Goal] # Inf => \A p \in Routes : PathCost(cost, p) = g[Goal]

\* Every call returns, whatever was changed before it.
Returns == phase = "searching" ~> phase = "idle"
=============================================================================
