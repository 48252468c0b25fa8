---------------------------- MODULE StaticSearch ----------------------------
(***************************************************************************)
(* bfs, dijkstra and astar of pathfinding_lab.py.  A heap is the set of    *)
(* its entries, which their sequence numbers tell apart.  goal is None for *)
(* a search of all distances.  The lists of expanded nodes are left out.   *)
(***************************************************************************)
EXTENDS PathGraph

\* Edges leave a node in the order of their targets.
InOrder(S) == SetToSortSeq(S, <)

\* Lexicographic order of the entries [priority, snapshot, sequence, node].
Earlier(a, b) ==
  \/ a.priority < b.priority
  \/ a.priority = b.priority /\ \/ a.snapshot < b.snapshot
                                \/ a.snapshot = b.snapshot /\ a.sequence < b.sequence
HeapTop(heap) == CHOOSE e \in heap : \A d \in heap \ {e} : Earlier(e, d)

InitialSearch(start, priority) ==
  [distance |-> [v \in Nodes |-> IF v = start THEN 0 ELSE Inf],
   parent |-> [v \in Nodes |-> None], sequence |-> 0, closed |-> {},
   heap |-> {[priority |-> priority, snapshot |-> 0, sequence |-> 0, node |-> start]}]

\* Mutant: a node once closed stays closed.
StaysClosed(closed, v) == closed

\* closed.discard in astar; dijkstra never improves a settled node.
Reopened(closed, v) == closed \ {v}

\* The loop over the edges of u, for a heuristic h to the goal.
RelaxEdges(s, cost, u, h) ==
  LET relax(t, v) ==
        LET candidate == CheckedAdd(s.distance[u], cost[u, v]) IN
        IF ~Less(candidate, t.distance[v]) THEN t
        ELSE [distance |-> [t.distance EXCEPT ![v] = candidate],
              parent |-> [t.parent EXCEPT ![v] = u],
              sequence |-> t.sequence + 1,
              closed |-> Reopened(t.closed, v),
              heap |-> t.heap \cup {[priority |-> candidate + h[v], snapshot |-> candidate,
                                     sequence |-> t.sequence + 1, node |-> v]}]
  IN FoldLeft(relax, s, InOrder(Successors(cost, u)))

\* The loop of dijkstra, where h is 0, and of astar: a stale or closed entry is
\* skipped, the goal ends the search.
RECURSIVE Search(_, _, _, _)
Search(s, cost, goal, h) ==
  IF s.heap = {} THEN s
  ELSE LET e == HeapTop(s.heap)
           popped == [s EXCEPT !.heap = @ \ {e}]
           expanded == [popped EXCEPT !.closed = @ \cup {e.node}]
       IN IF e.snapshot # s.distance[e.node] \/ e.node \in s.closed
          THEN Search(popped, cost, goal, h)
          ELSE IF e.node = goal THEN expanded
          ELSE Search(RelaxEdges(expanded, cost, e.node, h), cost, goal, h)

\* SearchResult: the path is [] for an unreachable goal; <<>> with a finite
\* distance stands for the PathError of _restore_parent.
Result(s, start, goal) ==
  [distances |-> s.distance,
   path |-> IF goal = None \/ s.distance[goal] = Inf THEN <<>>
            ELSE RestoreParent(s.parent, start, goal)]

Dijkstra(cost, start, goal) ==
  Result(Search(InitialSearch(start, 0), cost, goal, [v \in Nodes |-> 0]), start, goal)

AStar(cost, start, goal, h) ==
  Result(Search(InitialSearch(start, h[start]), cost, goal, h), start, goal)

\* bfs, over edges of cost 1.
RECURSIVE Breadth(_, _, _)
Breadth(s, cost, queue) ==
  IF queue = <<>> THEN s
  ELSE LET u == Head(queue)
           new == InOrder({v \in Successors(cost, u) : s.distance[v] = Inf})
       IN Breadth([distance |-> [v \in Nodes |-> IF v \in ToSet(new) THEN s.distance[u] + 1
                                                 ELSE s.distance[v]],
                   parent |-> [v \in Nodes |-> IF v \in ToSet(new) THEN u ELSE s.parent[v]]],
                  cost, Tail(queue) \o new)

BFS(cost, start, goal) ==
  Result(Breadth([distance |-> InitialSearch(start, 0).distance,
                  parent |-> InitialSearch(start, 0).parent], cost, <<start>>), start, goal)
-----------------------------------------------------------------------------
\* A finite distance to the goal comes with a path of that cost, none without.
AnswersFor(result, cost, start, goal, distance) ==
  /\ result.distances[goal] = distance
  /\ IF result.distances[goal] = Inf THEN result.path = <<>>
     ELSE /\ result.path # <<>> /\ result.path[1] = start /\ Last(result.path) = goal
          /\ PathCost(cost, result.path) = result.distances[goal]

\* Dijkstra finds every distance, and the searches for one goal agree with the
\* reference in distance and path: A* under each heuristic that never
\* overestimates, consistent or not, and breadth first search if all edges cost 1.
SearchesAgree(cost, start, goal, h) ==
  LET from == Distances(cost, start)
      to == Distances(Reversed(cost), goal)
  IN /\ Dijkstra(cost, start, None).distances = from
     /\ AnswersFor(Dijkstra(cost, start, goal), cost, start, goal, from[goal])
     /\ (\A v \in Nodes : ~Less(to[v], h[v])) =>
          AnswersFor(AStar(cost, start, goal, h), cost, start, goal, from[goal])
     /\ (\A e \in Nodes \X Nodes : cost[e] \in {1, Inf}) =>
          AnswersFor(BFS(cost, start, goal), cost, start, goal, from[goal])
=============================================================================
