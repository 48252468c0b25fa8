-------------------------- MODULE StudyStructures --------------------------
(***************************************************************************)
(* The data structures of scripts/verify-algorithm-study.py: the disjoint  *)
(* sets with rollback (DSU), the range sums with lazy additions (LazySum), *)
(* and the algorithms that keep a stack, a deque or a queue.               *)
(* Operators only; a structure is a record of its fields, and an operation *)
(* returns the new record.  Arrays start at 1, the elements of a DSU and   *)
(* the bounds of a range at 0 as in the source.                            *)
(***************************************************************************)
EXTENDS Integers, Sequences, SequencesExt, FiniteSets, FiniteSetsExt, Functions

\* -- DSU

NewDSU(n) == [parent |-> [x \in 0 .. n - 1 |-> x], size |-> [x \in 0 .. n - 1 |-> 1], history |-> <<>>]

RECURSIVE Find(_, _)
Find(dsu, x) == IF dsu.parent[x] = x THEN x ELSE Find(dsu, dsu.parent[x])

\* Hanging the smaller root b below a.
Link(dsu, a, b) ==
  [parent |-> [dsu.parent EXCEPT ![b] = a],
   size |-> [dsu.size EXCEPT ![a] = @ + dsu.size[b]],
   history |-> Append(dsu.history, [child |-> b, root |-> a, size |-> dsu.size[a]])]
Union(dsu, x, y) ==
  LET a == Find(dsu, x)
      b == Find(dsu, y)
  IN IF a = b THEN dsu
     ELSE IF dsu.size[a] < dsu.size[b] THEN Link(dsu, b, a) ELSE Link(dsu, a, b)

\* Mutant: the size of the root is forgotten.
UndoneParentOnly(dsu, h) == [dsu EXCEPT !.parent[h.child] = h.child, !.history = Front(@)]

Undone(dsu, h) ==
  [parent |-> [dsu.parent EXCEPT ![h.child] = h.child],
   size |-> [dsu.size EXCEPT ![h.root] = h.size],
   history |-> Front(dsu.history)]
RECURSIVE Rollback(_, _)
Rollback(dsu, mark) ==
  IF Len(dsu.history) <= mark THEN dsu ELSE Rollback(Undone(dsu, Last(dsu.history)), mark)

\* mst_cost: edges as [weight, u, v] in ascending order, on n nodes.
MstCost(edges, n) ==
  FoldLeft(LAMBDA s, e :
             LET joined == Union(s.dsu, e.u, e.v) IN
             [dsu |-> joined, total |-> s.total + IF joined = s.dsu THEN 0 ELSE e.weight],
           [dsu |-> NewDSU(n), total |-> 0], edges).total

\* -- LazySum: node covers the positions from l to r - 1.

Apply(t, node, l, r, d) == [t EXCEPT !.sums[node] = @ + (r - l) * d, !.lazy[node] = @ + d]
Push(t, node, l, r) ==
  LET m == (l + r) \div 2
      d == t.lazy[node]
  IN IF r - l = 1 \/ d = 0 THEN t
     ELSE [Apply(Apply(t, 2 * node, l, m, d), 2 * node + 1, m, r, d) EXCEPT !.lazy[node] = 0]

RECURSIVE Add(_, _, _, _, _, _, _)
Add(t, node, l, r, from, to, d) ==
  LET m == (l + r) \div 2
      split == Add(Add(Push(t, node, l, r), 2 * node, l, m, from, to, d),
                   2 * node + 1, m, r, from, to, d)
  IN IF to <= l \/ r <= from THEN t
     ELSE IF from <= l /\ r <= to THEN Apply(t, node, l, r, d)
     ELSE [split EXCEPT !.sums[node] = split.sums[2 * node] + split.sums[2 * node + 1]]

NewLazySum(values) ==
  LET n == Len(values)
      zero == [i \in 1 .. 4 * n |-> 0]
  IN FoldLeft(LAMBDA t, i : Add(t, 1, 0, n, i - 1, i, values[i]),
              [sums |-> zero, lazy |-> zero], [i \in 1 .. n |-> i])

\* query also pushes, so it returns the structure with the value.
RECURSIVE Query(_, _, _, _, _, _)
Query(t, node, l, r, from, to) ==
  LET m == (l + r) \div 2
      left == Query(Push(t, node, l, r), 2 * node, l, m, from, to)
      right == Query(left.t, 2 * node + 1, m, r, from, to)
  IN IF to <= l \/ r <= from THEN [t |-> t, value |-> 0]
     ELSE IF from <= l /\ r <= to THEN [t |-> t, value |-> t.sums[node]]
     ELSE [t |-> right.t, value |-> left.value + right.value]

\* -- Stack, deque and queue

\* What is left of the indices q once those at its end that give way are popped.
Popped(q, giving) == SubSeq(q, 1, Max({0} \cup {p \in DOMAIN q : q[p] \notin giving}))

\* next_greater: indices on the stack wait for a greater value; 0 for None.
NextGreater(a) ==
  LET step(s, i) ==
        LET left == Popped(s.stack, {j \in DOMAIN a : a[j] < a[i]}) IN
        [result |-> [j \in DOMAIN a |->
                       IF j \in ToSet(s.stack) \ ToSet(left) THEN i ELSE s.result[j]],
         stack |-> Append(left, i)]
  IN FoldLeft(step, [result |-> [j \in DOMAIN a |-> 0], stack |-> <<>>],
              [i \in DOMAIN a |-> i]).result

\* window_max: indices that left the window go in front, and values that the
\* new one covers at the end.
WindowMax(a, k) ==
  LET step(s, i) ==
        LET inside == {p \in DOMAIN s.q : s.q[p] > i - k}
            kept == IF inside = {} THEN <<>> ELSE SubSeq(s.q, Min(inside), Len(s.q))
            q == Append(Popped(kept, {j \in DOMAIN a : a[j] <= a[i]}), i)
        IN [q |-> q, result |-> IF i >= k THEN Append(s.result, a[q[1]]) ELSE s.result]
  IN FoldLeft(step, [q |-> <<>>, result |-> <<>>], [i \in DOMAIN a |-> i]).result

\* topological: vertices in their order, and the vertices left over.
RECURSIVE Peel(_, _, _, _)
Peel(ready, order, degree, edges) ==
  IF ready = <<>> THEN order
  ELSE LET u == Head(ready)
           out == {e[2] : e \in {d \in edges : d[1] = u}}
           less == [v \in DOMAIN degree |-> IF v \in out THEN degree[v] - 1 ELSE degree[v]]
       IN Peel(Tail(ready) \o SetToSortSeq({v \in out : less[v] = 0}, <),
               Append(order, u), less, edges)
Topological(vertices, edges) ==
  LET degree == [v \in vertices |-> Cardinality({e \in edges : e[2] = v})]
      order == Peel(SetToSortSeq({v \in vertices : degree[v] = 0}, <), <<>>, degree, edges)
  IN [order |-> order, remaining |-> vertices \ ToSet(order)]
-----------------------------------------------------------------------------
\* Reference: the nodes joined to x by the edges in E, in any direction.
Component(E, nodes, x) ==
  FoldLeft(LAMBDA S, i : S \cup {y \in nodes : \E z \in S : <<z, y>> \in E \/ <<y, z>> \in E},
           {x}, SetToSeq(nodes))

\* kept lists the unions that joined something and were not rolled back.  The
\* structure is the one those unions alone would have built, so a rollback
\* leaves no trace; it tells exactly the elements they connect together, knows
\* the size of each set at its root, and is never deeper than the logarithm.
DsuTrue(dsu, kept, n) ==
  LET nodes == 0 .. n - 1
      E == ToSet(kept)
      fresh == FoldLeft(LAMBDA d, e : Union(d, e[1], e[2]), NewDSU(n), kept)
      depth[x \in nodes] == IF dsu.parent[x] = x THEN 0 ELSE 1 + depth[dsu.parent[x]]
  IN /\ dsu = fresh
     /\ \A x, y \in nodes : Find(dsu, x) = Find(dsu, y) <=> y \in Component(E, nodes, x)
     /\ \A x \in nodes :
          /\ dsu.size[Find(dsu, x)] = Cardinality(Component(E, nodes, x))
          /\ 2 ^ depth[x] <= dsu.size[Find(dsu, x)]

\* Every range sum a query returns is the sum of the values, whatever additions
\* and queries left pending in the tree.
LazySumTrue(t, values) ==
  LET n == Len(values) IN
  \A from, to \in 0 .. n : from <= to =>
    Query(t, 1, 0, n, from, to).value = FoldLeft(+, 0, SubSeq(values, from + 1, to))

\* The scans agree with their definitions on every array and window.
ScansTrue(a) ==
  LET n == Len(a) IN
  /\ \A i \in 1 .. n :
       LET later == {j \in i + 1 .. n : a[j] > a[i]}
       IN NextGreater(a)[i] = IF later = {} THEN 0 ELSE Min(later)
  /\ \A k \in 1 .. n + 1 :
       WindowMax(a, k) = [i \in 1 .. Max({0, n - k + 1}) |-> Max({a[j] : j \in i .. i + k - 1})]

\* The topological order respects every edge and leaves out exactly the
\* vertices on a cycle or behind one.
TopologicalTrue(vertices, edges) ==
  LET answer == Topological(vertices, edges)
      at(v) == CHOOSE i \in DOMAIN answer.order : answer.order[i] = v
      after == [v \in vertices |->
        FoldLeft(LAMBDA S, i : S \cup {e[2] : e \in {d \in edges : d[1] \in S}},
                 {e[2] : e \in {d \in edges : d[1] = v}}, SetToSeq(vertices))]
  IN /\ IsInjective(answer.order)
     /\ answer.remaining = {v \in vertices : \E c \in vertices : c \in after[c] /\ v \in after[c]}
     /\ \A e \in edges : {e[1], e[2]} \cap answer.remaining = {} => at(e[1]) < at(e[2])

\* Kruskal's tree is as cheap as the cheapest of all spanning trees, the
\* definition exhaustive_tree_cost uses, on connected graphs.
MstTrue(edges, n) ==
  LET nodes == 0 .. n - 1
      spans(S) == Component({<<e.u, e.v>> : e \in S}, nodes, 0) = nodes
      trees == {S \in SUBSET ToSet(edges) : Cardinality(S) = n - 1 /\ spans(S)}
  IN trees # {} => MstCost(edges, n) = Min({MapThenSumSet(LAMBDA e : e.weight, S) : S \in trees})
=============================================================================
