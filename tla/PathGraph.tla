----------------------------- MODULE PathGraph -----------------------------
(***************************************************************************)
(* The directed graph of examples/knowledge/pathfinding-lab, its distances *)
(* and the ways a route is read back out of a search.                      *)
(*                                                                         *)
(* A graph is the function from ordered pairs of nodes to the cost of the  *)
(* edge between them: the parallel edges that add_edge can make are left   *)
(* out, and set_edge replaces all edges between two nodes by one.          *)
(* Nodes are numbered in the order of Graph.nodes, which breaks ties.      *)
(***************************************************************************)
EXTENDS Integers, Sequences, FiniteSets, SequencesExt

CONSTANT Nodes

ASSUME NodesAssumption == IsFiniteSet(Nodes) /\ Nodes \subseteq Nat

Inf == -1                          \* math.inf: above every cost
Cost == Nat \cup {Inf}

Less(a, b) == a # Inf /\ (b = Inf \/ a < b)
CheckedAdd(a, b) == IF a = Inf \/ b = Inf THEN Inf ELSE a + b
Least(S) == IF \A x \in S : x = Inf THEN Inf ELSE CHOOSE m \in S : \A x \in S : ~Less(x, m)

\* Lexicographic order of the priorities.
KeyLess(k, l) == Less(k[1], l[1]) \/ (k[1] = l[1] /\ Less(k[2], l[2]))

Graphs == [Nodes \X Nodes -> Cost]
Successors(cost, u) == {v \in Nodes : cost[<<u, v>>] # Inf}
Predecessors(cost, v) == {u \in Nodes : cost[<<u, v>>] # Inf}

\* set_edge, or remove_edge when w is Inf.
SetEdge(cost, u, v, w) == [cost EXCEPT ![<<u, v>>] = w]

\* n turns of a step, which is a function.
Iterated(step, base, n) ==
  LET turn[i \in Nat] == IF i = 0 THEN base ELSE step[turn[i - 1]] IN turn[n]

PathCost(cost, path) ==
  LET upTo[i \in 1 .. Len(path)] ==
        IF i = 1 THEN 0 ELSE CheckedAdd(upTo[i - 1], cost[<<path[i - 1], path[i]>>])
  IN upTo[Len(path)]

\* Routes that reconstruct_backtracking_path can return: it tries every path
\* without a repeated node along next, a set of nodes for each node, and returns
\* the first that reaches the goal.
BacktrackingPaths(start, goal, next) ==
  LET extend == [paths \in SUBSET Seq(Nodes) |->
        paths \cup {Append(q[1], q[2]) : q \in
          {q \in paths \X Nodes : Last(q[1]) # goal /\ q[2] \in next[Last(q[1])]
                                  /\ q[2] \notin ToSet(q[1])}}]
  IN {p \in Iterated(extend, {<<start>>}, Cardinality(Nodes)) : Last(p) = goal}

\* reconstruct_successor_path; <<>> stands for the PathError it raises, and
\* None for a policy that has no next node.  A policy chooses by the node it is at
\* and the nodes it has seen.
None == -2
SuccessorPath(start, goal, next) ==
  LET walk == [path \in Seq(Nodes) |->
        IF path = <<>> \/ Last(path) = goal THEN path
        ELSE LET v == next[<<Last(path), ToSet(path)>>]
             IN IF v = None \/ v \in ToSet(path) THEN <<>> ELSE Append(path, v)]
      path == Iterated(walk, <<start>>, Cardinality(Nodes))
  IN IF path # <<>> /\ Last(path) = goal THEN path ELSE <<>>

\* _restore_parent: the chain of parents from the goal, read backwards.
RestoreParent(parent, start, goal) ==
  Reverse(SuccessorPath(goal, start, [at \in Nodes \X SUBSET Nodes |-> parent[at[1]]]))

\* Reference definition of the distances from source, by Bellman and Ford: every
\* edge is relaxed as many times as a path has nodes.
Distances(cost, source) ==
  LET relax == [d \in [Nodes -> Cost] |->
        [v \in Nodes |-> Least({d[v]} \cup {CheckedAdd(d[u], cost[<<u, v>>]) : u \in Nodes})]]
  IN Iterated(relax, [v \in Nodes |-> IF v = source THEN 0 ELSE Inf], Cardinality(Nodes))

\* The graph with its edges turned round.
Reversed(cost) == [e \in Nodes \X Nodes |-> cost[<<e[2], e[1]>>]]
=============================================================================
