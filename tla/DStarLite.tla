----------------------------- MODULE DStarLite -----------------------------
(***************************************************************************)
(* class DStarLite of pathfinding_lab.py: the incremental planner of an    *)
(* agent that moves.  It searches from the goal back to the agent, so that *)
(* g is the distance to the goal, and instead of computing every key again *)
(* after a move it adds the agent's progress to km and lets _top find out. *)
(* s_last always equals start between calls and is not kept.               *)
(***************************************************************************)
EXTENDS Planner

CONSTANT MaxMoves    \* bound: moves of the agent

\* What the keys and the distances rest on besides PlannerAssumption: the
\* heuristic is a distance.
MetricHeuristic ==
  \A u, v \in Nodes :
    /\ Above(u, v, Heuristic[<<u, v>>])
    /\ Heuristic[<<u, u>>] = 0
    /\ \A w \in Nodes : Heuristic[<<u, w>>] <= Heuristic[<<u, v>>] + Heuristic[<<v, w>>]

VARIABLES
  start, km,
  moves        \* moves made

agent == <<start, km, moves>>
vars == <<graph, agent, search, phase>>

KeyOf(gs, rs, v) ==
  LET base == Least({gs[v], rs[v]})
  IN <<CheckedAdd(CheckedAdd(base, Heuristic[<<start, v>>]), km), base>>
Key(v) == KeyOf(g, rhs, v)

\* One step lookahead of _update_vertex.
Lookahead(gs, v) ==
  IF v = Goal THEN 0 ELSE Least({CheckedAdd(cost[<<v, w>>], gs[w]) : w \in Successors(cost, v)})

\* _update_vertex for every node of changed, once g is gs: the calls do not
\* read each other's result.
UpdateVertices(gs, changed, entries) ==
  LET rs == [v \in Nodes |-> IF v \in changed THEN Lookahead(gs, v) ELSE rhs[v]]
  IN /\ g' = gs
     /\ rhs' = rs
     /\ queue' = entries \cup {[key |-> KeyOf(gs, rs, v), node |-> v] :
                               v \in {x \in changed : gs[x] # rs[x]}}

Init ==
  /\ InitGraph
  /\ start = Start /\ km = 0 /\ moves = 0
  /\ g = [v \in Nodes |-> Inf]
  /\ rhs = [v \in Nodes |-> IF v = Goal THEN 0 ELSE Inf]
  /\ queue = {[key |-> <<Heuristic[<<Start, Goal>>], 0>>, node |-> Goal]}
  /\ phase = "searching"

NotifyEdgeChange(u, v) == Notified(u, v) /\ UpdateVertices(g, {u}, queue) /\ UNCHANGED agent

\* Mutant: the move is not made up for.
KmKept(v) == km

KmAfter(v) == km + Heuristic[<<start, v>>]
MoveStart(v) ==
  /\ phase = "idle" /\ moves < MaxMoves
  /\ km' = KmAfter(v)
  /\ start' = v
  /\ moves' = moves + 1
  /\ phase' = "searching"
  /\ UNCHANGED <<graph, search>>

Current(e) == g[e.node] # rhs[e.node] /\ e.key = Key(e.node)

\* Mutant: the entry with the old key is not popped.
RepushedUnpopped(e) == queue \cup {[key |-> Key(e.node), node |-> e.node]}

Repushed(e) == (queue \ {e}) \cup {[key |-> Key(e.node), node |-> e.node]}

\* _top: an entry whose node became consistent is dropped, one whose key is
\* out of date is pushed again.
DropConsistent(e) ==
  /\ phase = "searching" /\ AtTop(e)
  /\ g[e.node] = rhs[e.node]
  /\ queue' = queue \ {e}
  /\ UNCHANGED <<graph, agent, g, rhs, phase>>

PushAgain(e) ==
  /\ phase = "searching" /\ AtTop(e)
  /\ g[e.node] # rhs[e.node] /\ e.key # Key(e.node)
  /\ queue' = Repushed(e)
  /\ UNCHANGED <<graph, agent, g, rhs, phase>>

\* The test that ends compute_shortest_path, with the key _top returned.
Unfinished(key) == KeyLess(key, Key(start)) \/ rhs[start] # g[start]

Lower(e) ==
  /\ phase = "searching" /\ AtTop(e) /\ Current(e) /\ Unfinished(e.key)
  /\ Less(rhs[e.node], g[e.node])
  /\ UpdateVertices([g EXCEPT ![e.node] = rhs[e.node]], Predecessors(cost, e.node), queue \ {e})
  /\ UNCHANGED <<graph, agent, phase>>

Raise(e) ==
  /\ phase = "searching" /\ AtTop(e) /\ Current(e) /\ Unfinished(e.key)
  /\ ~Less(rhs[e.node], g[e.node])
  /\ UpdateVertices([g EXCEPT ![e.node] = Inf],
                    Predecessors(cost, e.node) \cup {e.node}, queue \ {e})
  /\ UNCHANGED <<graph, agent, phase>>

Return ==
  /\ phase = "searching"
  /\ \/ queue = {} /\ rhs[start] = g[start]
     \/ \E e \in queue : AtTop(e) /\ Current(e) /\ ~Unfinished(e.key)
  /\ phase' = "idle"
  /\ UNCHANGED <<graph, agent, search>>

\* Where the code raises "queue exhausted while start remained inconsistent".
Exhausted == phase = "searching" /\ queue = {} /\ rhs[start] # g[start]

Compute ==
  \/ \E e \in queue : DropConsistent(e) \/ PushAgain(e) \/ Lower(e) \/ Raise(e)
  \/ Return

Next ==
  \/ \E u, v \in Nodes : NotifyEdgeChange(u, v)
  \/ \E u, v \in Nodes : \E c \in EdgeCosts[<<u, v>>] : ChangeEdge(u, v, c) /\ UNCHANGED agent
  \/ \E v \in Nodes : MoveStart(v)
  \/ Compute

Spec == Init /\ [][Next]_vars
\* A call of the planner runs on until it returns.
FairSpec == Spec /\ WF_vars(Compute)

\* _next_step: the first of the best successors outside seen, as the loop of
\* reconstruct_successor_path asks for it; <<>> stands for its PathError.
NextStep(u, seen) ==
  LET open == {v \in Successors(cost, u) \ seen : g[v] # Inf}
      through(v) == CheckedAdd(cost[<<u, v>>], g[v])
  IN IF open = {} THEN None
     ELSE CHOOSE v \in open : \A w \in open :
            Less(through(v), through(w)) \/ (through(v) = through(w) /\ v <= w)
Route == SuccessorPath(start, Goal, [at \in Nodes \X SUBSET Nodes |-> NextStep(at[1], at[2])])
-----------------------------------------------------------------------------
TypeOK == SearchTypeOK /\ start \in Nodes /\ km \in Nat /\ moves \in 0 .. MaxMoves

\* What the repair rests on: rhs is the lookahead of every node none of whose
\* edges waits for its notification, and each inconsistent node is in the heap
\* under a key that is not above its present one, however the agent moved:
\* km makes up for what a move takes from the heuristic.
Repairable ==
  /\ \A v \in Nodes : (\A w \in Nodes : <<v, w>> \notin unnotified) => rhs[v] = Lookahead(g, v)
  /\ \A v \in Nodes : g[v] # rhs[v] =>
       \E e \in queue : e.node = v /\ ~KeyLess(Key(v), e.key)
  /\ ~Exhausted

\* d solves the equations of Bellman for the distances to Goal.
Solves(d) == \A v \in Nodes : d[v] = Lookahead(d, v)

\* After a call, with every change notified, the planner knows the distance
\* from where the agent is.
DistanceKnown(d) == phase = "idle" /\ unnotified = {} /\ Solves(d) => g[start] = d[start]

\* After a call, with every change notified, the planner knows the distance
\* of a fresh search from where the agent is, and if the goal can be reached
\* the route it follows gets there at that cost.
ShortestPathKnown ==
  phase = "idle" /\ unnotified = {} =>
    /\ LET d == Distances(Reversed(cost), Goal) IN Solves(d) /\ DistanceKnown(d)
    /\ g[start] # Inf => Route # <<>> /\ PathCost(cost, Route) = g[start]

\* Every call returns, whatever was changed before it.
Returns == phase = "searching" ~> phase = "idle"
=============================================================================
