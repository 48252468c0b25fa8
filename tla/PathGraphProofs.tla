-------------------------- MODULE PathGraphProofs --------------------------
(***************************************************************************)
(* What PathGraph computes, for every graph of positive costs, and what a  *)
(* search of such a graph knows once it has settled.                       *)
(*                                                                         *)
(* A planner that has settled knows the distance because what is left      *)
(* inconsistent lies behind the goal by its key: by the heuristic, a       *)
(* shortest route never leaves the part in front, so that neither the      *)
(* planner nor the graph can have the cheaper one.  Of two costs that      *)
(* disagree in front, the least would rest on a smaller one.               *)
(*                                                                         *)
(* The distances of a fresh search solve the equations because a round     *)
(* changes a value only after a smaller one changed in the round before:   *)
(* with more rounds than nodes, one would have changed twice, upwards.     *)
(* A route is found because in front of the goal g grows by the cost of    *)
(* each tight edge: a path along them repeats no node, so that as many     *)
(* turns as there are nodes find all of them, or walk one to its end.      *)
(***************************************************************************)
EXTENDS PathGraph, TLAPS, FiniteSetTheorems, SequenceTheorems, WellFoundedInduction

Earlier == {p \in Nat \X Nat : p[1] < p[2]}

\* A set of numbers that is not empty has a least one.
LEMMA LeastOf ==
  ASSUME NEW N \in SUBSET Nat, N # {}
  PROVE  \E m \in N : \A x \in N : m <= x
<1>1. IsWellFoundedOn(Earlier, Nat)
  <2>1. Earlier = OpToRel(<, Nat)
    BY DEF OpToRel, Earlier
  <2> QED BY <2>1, NatLessThanWellFounded
<1>2. PICK m \in N : \A x \in N : ~(<<x, m>> \in Earlier)
  BY <1>1, WFMin
<1>3. ASSUME NEW x \in N PROVE m <= x
  <2>1. m \in Nat /\ x \in Nat
    OBVIOUS
  <2>2. x < m => <<x, m>> \in Earlier
    BY <2>1 DEF Earlier
  <2> QED BY <1>2, <2>1, <2>2
<1> QED BY <1>3

-----------------------------------------------------------------------------
(* What a search that has settled knows.  w holds the weights in the       *)
(* direction of the search, which goes from a to b; only finite costs are  *)
(* numbers.                                                                *)

\* r is one relaxation of f.
Relaxes(w, a, f, r) ==
  /\ r[a] = 0
  /\ \A u, v \in Nodes : v # a /\ f[u] \in Nat /\ w[<<u, v>>] \in Nat =>
       r[v] \in Nat /\ r[v] <= f[u] + w[<<u, v>>]
  /\ \A v \in Nodes : v # a /\ r[v] \in Nat =>
       \E u \in Nodes : f[u] \in Nat /\ w[<<u, v>>] \in Nat /\ r[v] = f[u] + w[<<u, v>>]

\* Weights are positive, and no less than what they take from the heuristic.
Bounded(w, h, b) ==
  /\ h[b] = 0
  /\ \A v \in Nodes : h[v] \in Nat
  /\ \A u, v \in Nodes : w[<<u, v>>] \in Nat => w[<<u, v>>] > 0 /\ h[u] <= w[<<u, v>>] + h[v]

\* The finite values of an inconsistent node place it behind b.
Behind(f, r, h, b) ==
  /\ f[b] = r[b]
  /\ \A v \in Nodes : f[v] # r[v] => \A x \in {f[v], r[v]} : x \in Nat =>
       f[b] \in Nat /\ f[b] <= x + h[v] /\ (f[b] = x + h[v] => f[b] <= x)

\* Costs in front of b are those of real routes.
LEMMA NotTooLow ==
  ASSUME NEW w, NEW h, NEW f, NEW r, NEW d, NEW a \in Nodes, NEW b \in Nodes,
         Relaxes(w, a, f, r), Relaxes(w, a, d, d), Bounded(w, h, b), Behind(f, r, h, b),
         f[b] \in Nat
  PROVE  d[b] \in Nat /\ d[b] <= f[b]
<1> DEFINE InFront(v) == f[v] = r[v] /\ f[v] \in Nat /\ f[v] + h[v] <= f[b]
           Low(v) == InFront(v) /\ ~(d[v] \in Nat /\ d[v] <= f[v])
           N == {n \in Nat : \E v \in Nodes : Low(v) /\ f[v] = n}
<1>1. ASSUME N # {} PROVE FALSE
  <2>1. PICK m \in N : \A x \in N : m <= x
    BY <1>1, LeastOf
  <2>2. PICK v \in Nodes : Low(v) /\ f[v] = m
    BY <2>1
  <2>3. v # a
    BY <2>2 DEF Relaxes
  <2>4. PICK u \in Nodes : f[u] \in Nat /\ w[<<u, v>>] \in Nat /\ r[v] = f[u] + w[<<u, v>>]
    BY <2>2, <2>3 DEF Relaxes
  <2>5. w[<<u, v>>] > 0 /\ h[u] <= w[<<u, v>>] + h[v] /\ h[u] \in Nat /\ h[v] \in Nat
    BY <2>4 DEF Bounded
  <2>6. f[u] < f[v] /\ f[u] + h[u] <= f[b]
    <3>1. f[v] = f[u] + w[<<u, v>>] /\ f[v] + h[v] <= f[b]
      BY <2>2, <2>4
    <3> HIDE DEF N, Low, InFront
    <3> QED BY <2>4, <2>5, <3>1
  <2>7. f[u] = r[u]
    <3>1. f[u] # r[u] => f[b] <= f[u] + h[u] /\ (f[b] = f[u] + h[u] => f[b] <= f[u])
      BY <2>4 DEF Behind
    <3> QED BY <2>2, <2>4, <2>5, <2>6, <3>1
  <2>8. ~Low(u)
    <3>1. Low(u) => f[u] \in N
      BY <2>4
    <3>2. f[v] = m /\ m \in Nat
      BY <2>2, <1>1
    <3> HIDE DEF N, Low, InFront
    <3> QED BY <2>1, <2>4, <2>6, <3>1, <3>2
  <2>9. d[u] \in Nat /\ d[u] <= f[u]
    BY <2>4, <2>6, <2>7, <2>8
  <2>10. d[v] \in Nat /\ d[v] <= d[u] + w[<<u, v>>]
    BY <2>3, <2>4, <2>9 DEF Relaxes
  <2>11. d[v] <= f[v]
    <3>1. f[v] = f[u] + w[<<u, v>>]
      BY <2>2, <2>4
    <3> HIDE DEF N, Low, InFront
    <3> QED BY <2>4, <2>9, <2>10, <3>1
  <2> QED BY <2>2, <2>10, <2>11
<1>2. InFront(b)
  BY DEF Behind, Bounded
<1> QED BY <1>1, <1>2

\* Nodes in front of b have a cost as low as that of a real route.
LEMMA NotTooHigh ==
  ASSUME NEW w, NEW h, NEW f, NEW r, NEW d, NEW a \in Nodes, NEW b \in Nodes,
         Relaxes(w, a, f, r), Relaxes(w, a, d, d), Bounded(w, h, b), Behind(f, r, h, b),
         d[b] \in Nat
  PROVE  f[b] \in Nat /\ f[b] <= d[b]
<1> SUFFICES ASSUME f[b] \in Nat => d[b] < f[b]
             PROVE  f[b] \in Nat /\ f[b] <= d[b]
  OBVIOUS
<1> DEFINE InFront(v) == d[v] \in Nat /\ d[v] + h[v] <= d[b]
           High(v) == InFront(v) /\ ~(f[v] = r[v] /\ f[v] \in Nat /\ f[v] <= d[v])
           N == {n \in Nat : \E v \in Nodes : High(v) /\ d[v] = n}
<1>1. ASSUME N # {} PROVE FALSE
  <2>1. PICK m \in N : \A x \in N : m <= x
    BY <1>1, LeastOf
  <2>2. PICK v \in Nodes : High(v) /\ d[v] = m
    BY <2>1
  <2>3. r[v] \in Nat /\ r[v] <= d[v]
    <3>1. CASE v = a
      BY <2>2, <3>1 DEF Relaxes
    <3>2. CASE v # a
      <4>1. PICK u \in Nodes : d[u] \in Nat /\ w[<<u, v>>] \in Nat /\ d[v] = d[u] + w[<<u, v>>]
        BY <2>2, <3>2 DEF Relaxes
      <4>2. w[<<u, v>>] > 0 /\ h[u] <= w[<<u, v>>] + h[v] /\ h[u] \in Nat /\ h[v] \in Nat
        BY <4>1 DEF Bounded
      <4>3. d[u] < d[v] /\ d[u] + h[u] <= d[b]
        BY <2>2, <4>1, <4>2
      <4>4. ~High(u)
        <5>1. High(u) => d[u] \in N
          OBVIOUS
        <5> HIDE DEF N, High
        <5> QED BY <2>1, <2>2, <4>1, <4>3, <5>1
      <4>5. f[u] \in Nat /\ f[u] <= d[u]
        BY <4>1, <4>3, <4>4
      <4>6. r[v] \in Nat /\ r[v] <= f[u] + w[<<u, v>>]
        BY <3>2, <4>1, <4>5 DEF Relaxes
      <4> QED BY <2>2, <4>1, <4>5, <4>6
    <3> QED BY <3>1, <3>2
  <2>4. f[v] = r[v]
    <3>1. f[v] # r[v] => f[b] \in Nat /\ f[b] <= r[v] + h[v]
      BY <2>3 DEF Behind
    <3>2. h[v] \in Nat
      BY DEF Bounded
    <3> QED BY <2>2, <2>3, <3>1, <3>2
  <2> QED BY <2>2, <2>3, <2>4
<1>2. InFront(b)
  BY DEF Bounded
<1>3. f[b] \in Nat /\ f[b] <= d[b]
  BY <1>1, <1>2
<1> QED BY <1>3

-----------------------------------------------------------------------------
(* Iterated steps: the recursive function has a solution, which is put     *)
(* together of those for the first n turns.                                *)

Turns(step, base, f, n) ==
  f = [i \in 0 .. n |-> IF i = 0 THEN base ELSE step[f[i - 1]]]

LEMMA TurnsAre ==
  ASSUME NEW step, NEW base, NEW f, NEW n \in Nat, Turns(step, base, f, n)
  PROVE  f[0] = base /\ \A i \in 1 .. n : f[i] = step[f[i - 1]]
BY DEF Turns

LEMMA TurnsAgree ==
  ASSUME NEW step, NEW base, NEW f, NEW h, NEW n \in Nat, NEW m \in Nat,
         Turns(step, base, f, n), Turns(step, base, h, m), NEW i \in (0 .. n) \cap (0 .. m)
  PROVE  f[i] = h[i]
<1> SUFFICES ASSUME f[i] # h[i] PROVE FALSE
  OBVIOUS
<1> DEFINE N == {j \in Nat : j <= n /\ j <= m /\ f[j] # h[j]}
<1>1. i \in N
  OBVIOUS
<1>2. PICK j \in N : \A k \in N : j <= k
  BY <1>1, LeastOf
<1>3. j # 0
  BY <1>2, TurnsAre
<1>4. j - 1 \in Nat /\ j - 1 < j /\ j \in 1 .. n /\ j \in 1 .. m /\ f[j] # h[j]
  BY <1>2, <1>3
<1>5. j - 1 \notin N
  BY <1>2, <1>4
<1>6. f[j - 1] = h[j - 1]
  BY <1>4, <1>5
<1>7. f[j] = step[f[j - 1]] /\ h[j] = step[h[j - 1]]
  BY <1>4, TurnsAre
<1> QED BY <1>4, <1>6, <1>7

LEMMA TurnsExist ==
  ASSUME NEW step, NEW base, NEW n \in Nat
  PROVE  \E f : Turns(step, base, f, n)
<1> SUFFICES ASSUME ~\E f : Turns(step, base, f, n) PROVE FALSE
  OBVIOUS
<1> DEFINE N == {k \in Nat : ~\E f : Turns(step, base, f, k)}
<1>1. n \in N
  OBVIOUS
<1>2. PICK m \in N : \A k \in N : m <= k
  BY <1>1, LeastOf
<1>3. m \in Nat /\ ~\E f : Turns(step, base, f, m)
  BY <1>2
<1>4. CASE m = 0
  <2>1. PICK f : f = [i \in 0 .. 0 |-> base]
    OBVIOUS
  <2>2. Turns(step, base, f, 0)
    BY <2>1 DEF Turns
  <2> QED BY <1>3, <1>4, <2>2
<1>5. CASE m # 0
  <2>1. m - 1 \in Nat /\ m - 1 \notin N
    BY <1>2, <1>3, <1>5
  <2>2. PICK h : Turns(step, base, h, m - 1)
    BY <2>1
  <2>3. PICK f : f = [i \in 0 .. m |-> IF i = 0 THEN base ELSE step[h[i - 1]]]
    OBVIOUS
  <2>4. \A i \in 0 .. m - 1 : f[i] = h[i]
    <3>1. \A i \in 0 .. m - 1 : i \in 0 .. m /\ (i # 0 => i \in 1 .. m - 1)
      BY <1>3
    <3>2. h[0] = base /\ \A i \in 1 .. m - 1 : h[i] = step[h[i - 1]]
      BY <2>1, <2>2, TurnsAre
    <3> QED BY <2>3, <3>1, <3>2
  <2>5. \A i \in 0 .. m : i # 0 => i - 1 \in 0 .. m - 1
    BY <1>3
  <2>6. f = [i \in 0 .. m |-> IF i = 0 THEN base ELSE step[f[i - 1]]]
    BY <2>3, <2>4, <2>5
  <2>7. Turns(step, base, f, m)
    BY <2>6 DEF Turns
  <2> QED BY <1>3, <2>7
<1> QED BY <1>4, <1>5

LEMMA IteratedIs ==
  ASSUME NEW step, NEW base
  PROVE  /\ Iterated(step, base, 0) = base
         /\ \A n \in Nat : Iterated(step, base, n + 1) = step[Iterated(step, base, n)]
<1> DEFINE G(n) == CHOOSE f : Turns(step, base, f, n)
<1>1. \A n \in Nat : Turns(step, base, G(n), n)
  BY TurnsExist
<1>2. PICK f : f = [n \in Nat |-> G(n)[n]]
  OBVIOUS
<1> HIDE DEF G
<1>3. f[0] = base
  BY <1>1, <1>2, TurnsAre
<1>4. ASSUME NEW n \in Nat, n # 0 PROVE f[n] = step[f[n - 1]]
  <2>1. PICK m \in Nat : m = n - 1 /\ m \in 0 .. n /\ m \in 0 .. m /\ n \in 1 .. n
    BY <1>4
  <2>2. G(n)[n] = step[G(n)[m]]
    BY <1>1, <2>1, TurnsAre
  <2>3. G(n)[m] = G(m)[m]
    BY <1>1, <2>1, TurnsAgree
  <2> QED BY <1>2, <2>1, <2>2, <2>3
<1>5. f = [n \in Nat |-> IF n = 0 THEN base ELSE step[f[n - 1]]]
  <2>1. \A n \in Nat : f[n] = IF n = 0 THEN base ELSE step[f[n - 1]]
    BY <1>3, <1>4
  <2> QED BY <1>2, <2>1
<1>6. PICK h : h = CHOOSE e : e = [n \in Nat |-> IF n = 0 THEN base ELSE step[e[n - 1]]]
  OBVIOUS
<1>7. h = [n \in Nat |-> IF n = 0 THEN base ELSE step[h[n - 1]]]
  BY <1>5, <1>6
<1>8. \A n : Iterated(step, base, n) = h[n]
  BY <1>6, Zenon DEF Iterated
<1>9. h[0] = base
  BY <1>7
<1>10. \A n \in Nat : h[n + 1] = step[h[n]]
  <2> SUFFICES ASSUME NEW n \in Nat PROVE h[n + 1] = step[h[n]]
    OBVIOUS
  <2>1. n + 1 \in Nat /\ n + 1 # 0 /\ (n + 1) - 1 = n
    OBVIOUS
  <2> QED BY <1>7, <2>1
<1> QED BY <1>8, <1>9, <1>10

-----------------------------------------------------------------------------
(* The distances of Bellman and Ford solve the equations: what changes in  *)
(* a round does so because of a node that changed in the round before, and *)
(* is above it; with more rounds than nodes one of them would come twice,  *)
(* above itself.                                                           *)

LEMMA LeastIs ==
  ASSUME NEW C \in SUBSET Cost
  PROVE  /\ Least(C) \in Cost
         /\ Least(C) \in Nat => Least(C) \in C
         /\ \A x \in C : x \in Nat => Least(C) \in Nat /\ Least(C) <= x
<1>1. CASE \A x \in C : x = Inf
  BY <1>1 DEF Least, Inf, Cost
<1>2. CASE \E x \in C : x # Inf
  <2> DEFINE N == C \ {Inf}
  <2>1. N \in SUBSET Nat /\ N # {}
    BY <1>2 DEF Cost
  <2>2. PICK m \in N : \A x \in N : m <= x
    BY <2>1, LeastOf
  <2>3. \A x \in C : ~Less(x, m)
    BY <2>1, <2>2 DEF Less, Inf
  <2>4. PICK n \in C : n = Least(C) /\ \A x \in C : ~Less(x, n)
    BY <1>2, <2>3 DEF Least
  <2>5. n # Inf
    BY <1>2, <2>4 DEF Less
  <2>6. n \in Nat
    BY <2>4, <2>5 DEF Cost
  <2>7. \A x \in C : x \in Nat => n <= x
    BY <2>4, <2>6 DEF Less, Inf
  <2> QED BY <2>4, <2>6, <2>7 DEF Cost
<1> QED BY <1>1, <1>2

LEMMA Added ==
  ASSUME NEW a \in Cost, NEW b \in Cost
  PROVE  /\ CheckedAdd(a, b) \in Cost
         /\ CheckedAdd(a, b) \in Nat <=> a \in Nat /\ b \in Nat
         /\ a \in Nat /\ b \in Nat => CheckedAdd(a, b) = a + b
BY DEF CheckedAdd, Cost, Inf

Positive(w) == w \in Graphs /\ \A e \in Nodes \X Nodes : w[e] # 0

\* One round over all edges takes d to e.
Round(w, d, e) ==
  /\ d \in [Nodes -> Cost] /\ e \in [Nodes -> Cost]
  /\ \A v \in Nodes : d[v] \in Nat => e[v] \in Nat /\ e[v] <= d[v]
  /\ \A u, v \in Nodes : d[u] \in Nat /\ w[<<u, v>>] \in Nat =>
       e[v] \in Nat /\ e[v] <= d[u] + w[<<u, v>>]
  /\ \A v \in Nodes : e[v] \in Nat =>
       \/ e[v] = d[v]
       \/ \E u \in Nodes : d[u] \in Nat /\ w[<<u, v>>] \in Nat /\ e[v] = d[u] + w[<<u, v>>]

LEMMA RoundIs ==
  ASSUME NEW w \in Graphs, NEW d \in [Nodes -> Cost], NEW e,
         e = [v \in Nodes |-> Least({d[v]} \cup {CheckedAdd(d[u], w[<<u, v>>]) : u \in Nodes})]
  PROVE  Round(w, d, e)
<1> DEFINE C(v) == {d[v]} \cup {CheckedAdd(d[u], w[<<u, v>>]) : u \in Nodes}
<1>1. \A u, v \in Nodes : d[u] \in Cost /\ w[<<u, v>>] \in Cost
  BY DEF Graphs
<1>2. \A v \in Nodes : C(v) \in SUBSET Cost
  BY <1>1, Added
<1>3. \A v \in Nodes : e[v] = Least(C(v))
  OBVIOUS
<1>4. \A v \in Nodes : d[v] \in C(v)
  OBVIOUS
<1>5. \A u, v \in Nodes : CheckedAdd(d[u], w[<<u, v>>]) \in C(v)
  OBVIOUS
<1>6. ASSUME NEW v \in Nodes, e[v] \in Nat
      PROVE  \/ e[v] = d[v]
             \/ \E u \in Nodes : d[u] \in Nat /\ w[<<u, v>>] \in Nat /\ e[v] = d[u] + w[<<u, v>>]
  <2>1. e[v] \in C(v)
    <3> HIDE DEF C
    <3> QED BY <1>2, <1>3, <1>6, LeastIs
  <2>2. CASE e[v] = d[v]
    BY <2>2
  <2>3. ASSUME NEW u \in Nodes, e[v] = CheckedAdd(d[u], w[<<u, v>>])
        PROVE  d[u] \in Nat /\ w[<<u, v>>] \in Nat /\ e[v] = d[u] + w[<<u, v>>]
    <3>1. PICK x \in Cost, y \in Cost : x = d[u] /\ y = w[<<u, v>>]
      BY <1>1
    <3>2. CheckedAdd(x, y) \in Nat
      BY <1>6, <2>3, <3>1
    <3>3. x \in Nat /\ y \in Nat /\ CheckedAdd(x, y) = x + y
      BY <3>2, Added
    <3> QED BY <2>3, <3>1, <3>3
  <2> QED BY <2>1, <2>2, <2>3
<1> HIDE DEF C
<1>7. e \in [Nodes -> Cost]
  BY <1>2, <1>3, LeastIs
<1>8. \A v \in Nodes : d[v] \in Nat => e[v] \in Nat /\ e[v] <= d[v]
  BY <1>2, <1>3, <1>4, LeastIs
<1>9. ASSUME NEW u \in Nodes, NEW v \in Nodes, d[u] \in Nat, w[<<u, v>>] \in Nat
      PROVE  e[v] \in Nat /\ e[v] <= d[u] + w[<<u, v>>]
  <2>1. PICK x \in C(v) : x = d[u] + w[<<u, v>>] /\ x \in Nat
    <3>1. CheckedAdd(d[u], w[<<u, v>>]) = d[u] + w[<<u, v>>]
      BY <1>1, <1>9, Added
    <3> QED BY <1>5, <1>9, <3>1
  <2> QED BY <1>2, <1>3, <2>1, LeastIs
<1> QED BY <1>6, <1>7, <1>8, <1>9 DEF Round

\* V holds the results of n rounds, for every n.
Rounds(w, a, V) ==
  /\ V[0] \in [Nodes -> Cost]
  /\ \A v \in Nodes : (V[0][v] \in Nat <=> v = a) /\ (v = a => V[0][v] = 0)
  /\ \A n \in Nat : Round(w, V[n], V[n + 1])

LEMMA RoundsAre ==
  ASSUME NEW w \in Graphs, NEW a \in Nodes
  PROVE  \E V : Rounds(w, a, V) /\ Distances(w, a) = V[Cardinality(Nodes)]
<1>1. PICK relax : relax = [d \in [Nodes -> Cost] |->
        [v \in Nodes |-> Least({d[v]} \cup {CheckedAdd(d[u], w[<<u, v>>]) : u \in Nodes})]]
  OBVIOUS
<1>2. PICK base : base = [v \in Nodes |-> IF v = a THEN 0 ELSE Inf]
  OBVIOUS
<1>3. PICK V : V = [n \in Nat |-> Iterated(relax, base, n)]
  OBVIOUS
<1>4. V[0] = base /\ \A n \in Nat : V[n + 1] = relax[V[n]]
  <2>1. 0 \in Nat /\ \A n \in Nat : n + 1 \in Nat
    OBVIOUS
  <2> QED BY <1>3, <2>1, IteratedIs
<1>5. Cardinality(Nodes) \in Nat
  BY NodesAssumption, FS_CardinalityType
<1>6. Distances(w, a) = V[Cardinality(Nodes)]
  <2>1. Distances(w, a) = Iterated(relax, base, Cardinality(Nodes))
    BY <1>1, <1>2, Zenon DEF Distances
  <2> QED BY <1>3, <1>5, <2>1
<1>7. base \in [Nodes -> Cost]
  BY <1>2 DEF Cost, Inf
<1>8. \A d \in [Nodes -> Cost] : Round(w, d, relax[d])
  <2> SUFFICES ASSUME NEW d \in [Nodes -> Cost] PROVE Round(w, d, relax[d])
    OBVIOUS
  <2>1. relax[d] = [v \in Nodes |-> Least({d[v]} \cup {CheckedAdd(d[u], w[<<u, v>>]) : u \in Nodes})]
    BY <1>1
  <2> QED BY <2>1, RoundIs
<1>9. \A n \in Nat : V[n] \in [Nodes -> Cost]
  <2> SUFFICES ASSUME NEW n \in Nat, V[n] \notin [Nodes -> Cost] PROVE FALSE
    OBVIOUS
  <2> DEFINE N == {k \in Nat : V[k] \notin [Nodes -> Cost]}
  <2>1. n \in N
    OBVIOUS
  <2>2. PICK m \in N : \A k \in N : m <= k
    BY <2>1, LeastOf
  <2>3. m # 0 /\ m \in Nat
    BY <1>4, <1>7, <2>2
  <2>4. PICK k \in Nat : m = k + 1
    <3>1. m - 1 \in Nat /\ m = (m - 1) + 1
      BY <2>3
    <3> QED BY <3>1
  <2>5. V[k] \in [Nodes -> Cost]
    <3>1. k \notin N
      BY <2>2, <2>4
    <3> QED BY <3>1
  <2>6. V[m] \in [Nodes -> Cost]
    BY <1>4, <1>8, <2>4, <2>5 DEF Round
  <2> QED BY <2>2, <2>6
<1>10. \A n \in Nat : Round(w, V[n], V[n + 1])
  BY <1>4, <1>8, <1>9
<1>11. \A v \in Nodes : (V[0][v] \in Nat <=> v = a) /\ (v = a => V[0][v] = 0)
  BY <1>2, <1>4 DEF Inf
<1> QED BY <1>4, <1>6, <1>7, <1>10, <1>11 DEF Rounds

\* Values get smaller only.
LEMMA RoundsSink ==
  ASSUME NEW w, NEW a, NEW V, Rounds(w, a, V), NEW v \in Nodes,
         NEW m \in Nat, NEW n \in Nat, m <= n, V[m][v] \in Nat
  PROVE  V[n][v] \in Nat /\ V[n][v] <= V[m][v]
<1> SUFFICES ASSUME ~(V[n][v] \in Nat /\ V[n][v] <= V[m][v]) PROVE FALSE
  OBVIOUS
<1> DEFINE N == {k \in Nat : m <= k /\ ~(V[k][v] \in Nat /\ V[k][v] <= V[m][v])}
<1>1. n \in N
  OBVIOUS
<1>2. PICK k \in N : \A j \in N : k <= j
  BY <1>1, LeastOf
<1>3. k \in Nat /\ m <= k /\ k # m
  BY <1>2
<1>4. PICK j \in Nat : k = j + 1 /\ m <= j
  <2>1. k - 1 \in Nat /\ k = (k - 1) + 1 /\ m <= k - 1
    BY <1>3
  <2> QED BY <2>1
<1>5. V[j][v] \in Nat /\ V[j][v] <= V[m][v]
  <2>1. j \notin N
    BY <1>2, <1>4
  <2> QED BY <1>4, <2>1
<1>6. V[k][v] \in Nat /\ V[k][v] <= V[j][v]
  BY <1>4, <1>5 DEF Rounds, Round
<1>7. ~(V[k][v] \in Nat /\ V[k][v] <= V[m][v])
  BY <1>2
<1> HIDE DEF N
<1> QED BY <1>5, <1>6, <1>7

\* A value of a later round that differs from the one before comes over an edge from a
\* node whose value is smaller, and differed from the one before as well.
LEMMA ChangeHasCause ==
  ASSUME NEW w, Positive(w), NEW a \in Nodes, NEW V, Rounds(w, a, V), NEW v \in Nodes,
         NEW n \in Nat, V[n + 2][v] # V[n + 1][v]
  PROVE  /\ V[n + 2][v] \in Nat
         /\ \E u \in Nodes : V[n + 1][u] # V[n][u] /\ V[n + 1][u] \in Nat /\ V[n + 1][u] < V[n + 2][v]
<1>1. PICK m \in Nat : m = n + 1 /\ n + 2 = m + 1
  OBVIOUS
<1>2. PICK x, y, z : x = V[n] /\ y = V[m] /\ z = V[m + 1]
  OBVIOUS
<1>3. Round(w, x, y) /\ Round(w, y, z)
  BY <1>1, <1>2 DEF Rounds
<1>4. y[v] \in Cost /\ z[v] \in Cost /\ z[v] # y[v]
  BY <1>1, <1>2, <1>3 DEF Round
<1>5. z[v] \in Nat
  BY <1>3, <1>4 DEF Round, Cost
<1>6. PICK u \in Nodes : y[u] \in Nat /\ w[<<u, v>>] \in Nat /\ z[v] = y[u] + w[<<u, v>>]
  BY <1>3, <1>4, <1>5 DEF Round
<1>7. w[<<u, v>>] > 0
  BY <1>6 DEF Positive
<1>8. y[u] < z[v]
  BY <1>6, <1>7
<1>9. y[u] # x[u]
  <2> SUFFICES ASSUME y[u] = x[u] PROVE FALSE
    OBVIOUS
  <2>1. y[v] \in Nat /\ y[v] <= x[u] + w[<<u, v>>]
    BY <1>3, <1>6 DEF Round
  <2>2. z[v] <= y[v]
    BY <1>3, <2>1 DEF Round
  <2> QED BY <1>4, <1>5, <1>6, <2>1, <2>2
<1> QED BY <1>1, <1>2, <1>5, <1>6, <1>8, <1>9

\* Nodes of which each changed in its round, above the one before.
Chain(V, c, k) ==
  /\ c \in [1 .. k -> Nodes]
  /\ \A i \in 1 .. k : V[i][c[i]] \in Nat /\ V[i][c[i]] # V[i - 1][c[i]]
  /\ \A i, j \in 1 .. k : i < j => V[i][c[i]] < V[j][c[j]]

LEMMA ChainGrows ==
  ASSUME NEW V, NEW c, NEW k \in Nat \ {0}, Chain(V, c, k), NEW v \in Nodes,
         V[k + 1][v] \in Nat, V[k + 1][v] # V[k][v], V[k][c[k]] < V[k + 1][v]
  PROVE  \E e : Chain(V, e, k + 1) /\ e[k + 1] = v
<1>1. PICK e : e = [i \in 1 .. k + 1 |-> IF i = k + 1 THEN v ELSE c[i]]
  OBVIOUS
<1>2. e[k + 1] = v /\ e \in [1 .. k + 1 -> Nodes]
  BY <1>1 DEF Chain
<1>3. \A i \in 1 .. k : e[i] = c[i] /\ i # k + 1
  BY <1>1
<1>4. ASSUME NEW i \in 1 .. k + 1 PROVE V[i][e[i]] \in Nat /\ V[i][e[i]] # V[i - 1][e[i]]
  <2>1. CASE i = k + 1
    BY <1>2, <2>1
  <2>2. CASE i \in 1 .. k
    BY <1>3, <2>2 DEF Chain
  <2> QED BY <2>1, <2>2
<1>5. ASSUME NEW i \in 1 .. k + 1, NEW j \in 1 .. k + 1, i < j
      PROVE  V[i][e[i]] < V[j][e[j]]
  <2>1. i \in 1 .. k /\ k \in 1 .. k
    BY <1>5
  <2>2. CASE j \in 1 .. k
    BY <1>3, <1>5, <2>1, <2>2 DEF Chain
  <2>3. CASE j = k + 1
    <3>1. V[i][c[i]] \in Nat /\ V[k][c[k]] \in Nat /\ (i = k \/ V[i][c[i]] < V[k][c[k]])
      BY <2>1 DEF Chain
    <3>2. V[i][c[i]] < V[k + 1][v]
      BY <3>1
    <3> QED BY <1>2, <1>3, <2>1, <2>3, <3>2
  <2> QED BY <2>2, <2>3
<1>6. Chain(V, e, k + 1)
  BY <1>2, <1>4, <1>5 DEF Chain
<1> QED BY <1>2, <1>6

LEMMA ChainExists ==
  ASSUME NEW w, Positive(w), NEW a \in Nodes, NEW V, Rounds(w, a, V), NEW k \in Nat \ {0},
         NEW v \in Nodes, V[k][v] # V[k - 1][v]
  PROVE  \E c : Chain(V, c, k) /\ c[k] = v
<1> DEFINE Bad(n, x) == n # 0 /\ V[n][x] # V[n - 1][x] /\ ~\E c : Chain(V, c, n) /\ c[n] = x
           N == {n \in Nat : \E x \in Nodes : Bad(n, x)}
<1> SUFFICES ASSUME Bad(k, v) PROVE FALSE
  OBVIOUS
<1>1. k \in N
  OBVIOUS
<1>2. PICK m \in N : \A n \in N : m <= n
  BY <1>1, LeastOf
<1>3. PICK x \in Nodes : Bad(m, x)
  BY <1>2
<1>4. m \in Nat \ {0}
  BY <1>2, <1>3
<1>5. CASE m = 1
  <2>1. Round(w, V[0], V[1]) /\ V[1][x] # V[0][x]
    <3>1. 0 + 1 = 1 /\ 1 - 1 = 0
      OBVIOUS
    <3> QED BY <1>3, <1>5, <3>1 DEF Rounds
  <2>2. V[1][x] \in Nat
    BY <2>1 DEF Round, Cost
  <2>3. PICK c : c = [i \in 1 .. 1 |-> x]
    OBVIOUS
  <2>4. c \in [1 .. 1 -> Nodes] /\ c[1] = x /\ \A i \in 1 .. 1 : i = 1 /\ i - 1 = 0
    BY <2>3
  <2>5. Chain(V, c, 1)
    BY <2>1, <2>2, <2>4 DEF Chain
  <2> QED BY <1>3, <1>5, <2>4, <2>5
<1>6. CASE m # 1
  <2>1. PICK n \in Nat : m = n + 2
    <3>1. m - 2 \in Nat /\ m = (m - 2) + 2
      BY <1>4, <1>6
    <3> QED BY <3>1
  <2>2. PICK j \in Nat \ {0} : j = n + 1 /\ m = j + 1 /\ m - 1 = j /\ j - 1 = n
    BY <2>1
  <2>3. V[n + 2][x] # V[n + 1][x]
    BY <1>3, <2>1, <2>2
  <2>4. PICK u \in Nodes : V[j][u] # V[n][u] /\ V[j][u] \in Nat /\ V[j][u] < V[m][x] /\ V[m][x] \in Nat
    <3>1. /\ V[n + 2][x] \in Nat
          /\ \E u \in Nodes : V[n + 1][u] # V[n][u] /\ V[n + 1][u] \in Nat /\ V[n + 1][u] < V[n + 2][x]
      <4> HIDE DEF N, Bad
      <4> QED BY <2>3, ChangeHasCause
    <3> HIDE DEF N, Bad
    <3> QED BY <2>1, <2>2, <3>1
  <2>5. j \notin N
    BY <1>2, <1>4, <2>2
  <2>6. ~Bad(j, u)
    BY <2>5
  <2>7. PICK c : Chain(V, c, j) /\ c[j] = u
    BY <2>2, <2>4, <2>6
  <2>8. V[j + 1][x] \in Nat /\ V[j + 1][x] # V[j][x] /\ V[j][c[j]] < V[j + 1][x]
    BY <1>3, <2>2, <2>4, <2>7
  <2> HIDE DEF N
  <2>9. \E e : Chain(V, e, j + 1) /\ e[j + 1] = x
    BY <2>7, <2>8, ChainGrows
  <2> QED BY <1>3, <2>2, <2>9
<1> QED BY <1>5, <1>6

\* After as many rounds as there are nodes nothing changes.
LEMMA RoundsSettle ==
  ASSUME NEW w, Positive(w), NEW a \in Nodes, NEW V, Rounds(w, a, V), NEW v \in Nodes,
         NEW n \in Nat, n = Cardinality(Nodes)
  PROVE  V[n + 1][v] = V[n][v]
<1> SUFFICES ASSUME V[n + 1][v] # V[n][v] PROVE FALSE
  OBVIOUS
<1>1. n + 1 \in Nat \ {0} /\ (n + 1) - 1 = n
  OBVIOUS
<1>2. PICK c : Chain(V, c, n + 1)
  BY <1>1, ChainExists
<1>3. IsFiniteSet(1 .. n + 1) /\ Cardinality(1 .. n + 1) = n + 1
  <2>1. 1 \in Int /\ n + 1 \in Int /\ ~(1 > n + 1) /\ (n + 1) - 1 + 1 = n + 1
    OBVIOUS
  <2> QED BY <2>1, FS_Interval
<1>4. Cardinality(Nodes) < Cardinality(1 .. n + 1) /\ c \in [1 .. n + 1 -> Nodes]
  BY <1>2, <1>3 DEF Chain
<1>5. PICK i \in 1 .. n + 1, j \in 1 .. n + 1 : i # j /\ c[i] = c[j]
  BY <1>3, <1>4, NodesAssumption, FS_PigeonHole
<1>6. ASSUME NEW p \in 1 .. n + 1, NEW q \in 1 .. n + 1, p < q, c[p] = c[q] PROVE FALSE
  <2>1. V[p][c[p]] \in Nat /\ V[q][c[p]] \in Nat /\ V[p][c[p]] < V[q][c[p]] /\ c[p] \in Nodes
    BY <1>2, <1>6 DEF Chain
  <2>2. V[q][c[p]] <= V[p][c[p]]
    BY <1>6, <2>1, RoundsSink
  <2> QED BY <2>1, <2>2
<1> QED BY <1>5, <1>6

\* The distances of Bellman and Ford are those of the graph: they solve the equations,
\* each of them the least sum over a predecessor.
THEOREM DistancesSolve ==
  ASSUME NEW w, Positive(w), NEW a \in Nodes, NEW d, d = Distances(w, a)
  PROVE  d \in [Nodes -> Cost] /\ Relaxes(w, a, d, d)
<1>1. PICK V : Rounds(w, a, V) /\ d = V[Cardinality(Nodes)]
  BY RoundsAre DEF Positive
<1>2. PICK n \in Nat : n = Cardinality(Nodes)
  BY NodesAssumption, FS_CardinalityType
<1>3. Round(w, V[n], V[n + 1]) /\ d = V[n] /\ \A v \in Nodes : V[n + 1][v] = d[v]
  BY <1>1, <1>2, RoundsSettle DEF Rounds
<1>4. d \in [Nodes -> Cost]
  BY <1>3 DEF Round
<1>5. \A u, v \in Nodes : d[u] \in Nat /\ w[<<u, v>>] \in Nat => d[v] \in Nat /\ d[v] <= d[u] + w[<<u, v>>]
  BY <1>3 DEF Round
<1>6. d[a] = 0
  <2>1. V[0][a] = 0 /\ 0 <= n
    BY <1>1 DEF Rounds
  <2>2. d[a] \in Nat /\ d[a] <= V[0][a]
    BY <1>1, <1>3, <2>1, RoundsSink
  <2> QED BY <2>1, <2>2
<1>7. ASSUME NEW v \in Nodes, v # a, d[v] \in Nat
      PROVE  \E u \in Nodes : d[u] \in Nat /\ w[<<u, v>>] \in Nat /\ d[v] = d[u] + w[<<u, v>>]
  <2> DEFINE N == {k \in Nat : k <= n /\ V[k][v] = d[v]}
  <2>1. n \in N
    BY <1>3
  <2>2. PICK k \in N : \A j \in N : k <= j
    BY <2>1, LeastOf
  <2>3. k # 0
    BY <1>1, <1>7, <2>2 DEF Rounds
  <2>4. PICK j \in Nat : k = j + 1 /\ j <= n
    <3>1. k - 1 \in Nat /\ k = (k - 1) + 1 /\ k - 1 <= n
      BY <2>2, <2>3
    <3> QED BY <3>1
  <2>5. V[j][v] # V[k][v] /\ V[k][v] = d[v]
    <3>1. j \notin N
      BY <2>2, <2>4
    <3> QED BY <2>2, <2>4, <3>1
  <2>6. PICK u \in Nodes : V[j][u] \in Nat /\ w[<<u, v>>] \in Nat /\ V[k][v] = V[j][u] + w[<<u, v>>]
    BY <1>1, <1>7, <2>4, <2>5 DEF Rounds, Round
  <2>7. d[u] \in Nat /\ d[u] <= V[j][u]
    BY <1>1, <1>3, <2>4, <2>6, RoundsSink
  <2>8. d[v] <= d[u] + w[<<u, v>>]
    BY <1>5, <2>6, <2>7
  <2>9. d[v] = d[u] + w[<<u, v>>]
    BY <1>7, <2>5, <2>6, <2>7, <2>8
  <2> QED BY <2>6, <2>7, <2>9
<1> QED BY <1>4, <1>5, <1>6, <1>7 DEF Relaxes

-----------------------------------------------------------------------------
(* Routes.  A climb is a path along which x grows by the cost of each      *)
(* edge.                                                                   *)

Climbs(w, x, p) ==
  /\ p \in Seq(Nodes) /\ Len(p) \in Nat \ {0}
  /\ \A i \in 1 .. Len(p) : p[i] \in Nodes /\ x[p[i]] \in Int
  /\ \A i \in 1 .. Len(p) - 1 :
       w[<<p[i], p[i + 1]>>] \in Nat \ {0} /\ x[p[i + 1]] = x[p[i]] + w[<<p[i], p[i + 1]>>]

LEMMA ClimbGrows ==
  ASSUME NEW w, NEW x, NEW p, Climbs(w, x, p), NEW i \in 1 .. Len(p), NEW j \in 1 .. Len(p), i < j
  PROVE  x[p[i]] < x[p[j]]
<1> SUFFICES ASSUME ~(x[p[i]] < x[p[j]]) PROVE FALSE
  OBVIOUS
<1> DEFINE N == {k \in Nat : k \in 1 .. Len(p) /\ i < k /\ ~(x[p[i]] < x[p[k]])}
<1>1. j \in N
  BY DEF Climbs
<1>2. PICK k \in N : \A m \in N : k <= m
  BY <1>1, LeastOf
<1>3. PICK m \in Nat : k = m + 1 /\ m \in 1 .. Len(p) - 1 /\ m \in 1 .. Len(p) /\ i <= m
  <2>1. k - 1 \in Nat /\ k = (k - 1) + 1 /\ k - 1 \in 1 .. Len(p) - 1 /\ k - 1 \in 1 .. Len(p) /\ i <= k - 1
    BY <1>2 DEF Climbs
  <2> QED BY <2>1
<1>4. x[p[i]] <= x[p[m]]
  <2>1. m \notin N
    BY <1>2, <1>3
  <2>2. i = m \/ x[p[i]] < x[p[m]]
    BY <1>3, <2>1
  <2> HIDE DEF N
  <2> QED BY <1>3, <2>2 DEF Climbs
<1>5. x[p[k]] = x[p[m]] + w[<<p[m], p[m + 1]>>] /\ w[<<p[m], p[m + 1]>>] \in Nat \ {0}
  BY <1>3 DEF Climbs
<1>6. x[p[i]] \in Int /\ x[p[m]] \in Int
  BY <1>3 DEF Climbs
<1>7. ~(x[p[i]] < x[p[k]])
  BY <1>2
<1>8. PICK y \in Int, z \in Int, c \in Nat \ {0} :
        y = x[p[i]] /\ z = x[p[m]] /\ x[p[k]] = z + c
  <2> HIDE DEF N
  <2> QED BY <1>5, <1>6
<1>9. y <= z /\ ~(y < z + c)
  BY <1>4, <1>7, <1>8
<1> QED BY <1>8, <1>9

\* So no node comes twice.
LEMMA ClimbIsShort ==
  ASSUME NEW w, NEW x, NEW p, Climbs(w, x, p)
  PROVE  Len(p) <= Cardinality(Nodes)
<1>1. PICK n \in Nat : n = Len(p)
  BY DEF Climbs
<1>2. PICK m \in Nat : m = Cardinality(Nodes)
  BY NodesAssumption, FS_CardinalityType
<1> SUFFICES ASSUME m < n PROVE FALSE
  BY <1>1, <1>2
<1>3. IsFiniteSet(1 .. n) /\ Cardinality(1 .. n) = n
  <2>1. 1 \in Int /\ n \in Int /\ ~(1 > n) /\ n - 1 + 1 = n
    BY <1>2
  <2> QED BY <2>1, FS_Interval
<1>4. p \in [1 .. n -> Nodes]
  BY <1>1, LenProperties DEF Climbs
<1>5. PICK i \in 1 .. n, j \in 1 .. n : i # j /\ p[i] = p[j]
  BY <1>2, <1>3, <1>4, NodesAssumption, FS_PigeonHole
<1>6. \A k \in 1 .. n : x[p[k]] \in Int
  BY <1>1 DEF Climbs
<1>7. ASSUME i < j PROVE FALSE
  BY <1>1, <1>5, <1>6, <1>7, ClimbGrows
<1>8. ASSUME j < i PROVE FALSE
  BY <1>1, <1>5, <1>6, <1>8, ClimbGrows
<1> QED BY <1>5, <1>7, <1>8

LEMMA ClimbCosts ==
  ASSUME NEW w, NEW x, NEW p, Climbs(w, x, p)
  PROVE  PathCost(w, p) = x[p[Len(p)]] - x[p[1]]
<1>1. PICK n \in Nat \ {0} : n = Len(p)
  BY DEF Climbs
<1>2. /\ \A i \in 1 .. n : x[p[i]] \in Int
      /\ \A i \in 1 .. n - 1 : w[<<p[i], p[i + 1]>>] \in Nat \ {0} /\ x[p[i + 1]] = x[p[i]] + w[<<p[i], p[i + 1]>>]
  BY <1>1 DEF Climbs
<1>3. PICK U : U = [i \in 1 .. n |-> x[p[i]] - x[p[1]]]
  OBVIOUS
<1>4. 1 \in 1 .. n /\ n \in 1 .. n /\ \A i \in 1 .. n : i # 1 => i - 1 \in 1 .. n - 1 /\ i - 1 \in 1 .. n /\ (i - 1) + 1 = i
  OBVIOUS
<1>5. \A i \in 1 .. n : U[i] \in Nat
  <2> SUFFICES ASSUME NEW i \in 1 .. n PROVE U[i] \in Nat
    OBVIOUS
  <2>1. x[p[i]] \in Int /\ x[p[1]] \in Int
    BY <1>2, <1>4
  <2>2. i = 1 \/ x[p[1]] < x[p[i]]
    <3>1. i = 1 \/ 1 < i
      OBVIOUS
    <3> QED BY <1>1, <1>4, <3>1, ClimbGrows
  <2>3. x[p[i]] - x[p[1]] \in Nat
    BY <2>1, <2>2
  <2> QED BY <1>3, <2>3
<1>6. ASSUME NEW i \in 1 .. n, i # 1
      PROVE  U[i] = CheckedAdd(U[i - 1], w[<<p[i - 1], p[i]>>])
  <2>1. PICK j \in 1 .. n : j = i - 1 /\ j \in 1 .. n - 1 /\ j + 1 = i
    BY <1>4, <1>6
  <2>2. PICK c \in Nat : c = w[<<p[j], p[i]>>] /\ x[p[i]] = x[p[j]] + c
    BY <1>2, <2>1
  <2>3. x[p[j]] \in Int /\ x[p[1]] \in Int
    BY <1>2, <1>4
  <2>4. U[i] = U[j] + c
    BY <1>3, <2>2, <2>3
  <2>5. CheckedAdd(U[j], c) = U[j] + c
    <3>1. U[j] \in Nat
      BY <1>5
    <3> QED BY <3>1, Added DEF Cost
  <2> QED BY <2>1, <2>2, <2>4, <2>5
<1>7. U[1] = 0
  BY <1>2, <1>3, <1>4
<1>8. U = [i \in 1 .. n |-> IF i = 1 THEN 0 ELSE CheckedAdd(U[i - 1], w[<<p[i - 1], p[i]>>])]
  <2>1. \A i \in 1 .. n : U[i] = IF i = 1 THEN 0 ELSE CheckedAdd(U[i - 1], w[<<p[i - 1], p[i]>>])
    BY <1>6, <1>7
  <2> QED BY <1>3, <2>1
<1>9. PICK e : e = CHOOSE f : f = [i \in 1 .. n |-> IF i = 1 THEN 0 ELSE CheckedAdd(f[i - 1], w[<<p[i - 1], p[i]>>])]
  OBVIOUS
<1>10. e = [i \in 1 .. n |-> IF i = 1 THEN 0 ELSE CheckedAdd(e[i - 1], w[<<p[i - 1], p[i]>>])]
  BY <1>8, <1>9
<1>11. PathCost(w, p) = e[n]
  BY <1>1, <1>9, Zenon DEF PathCost
<1>12. e[n] = U[n]
  <2> SUFFICES ASSUME e[n] # U[n] PROVE FALSE
    OBVIOUS
  <2> DEFINE N == {k \in Nat : k \in 1 .. n /\ e[k] # U[k]}
  <2>1. n \in N
    OBVIOUS
  <2>2. PICK k \in N : \A j \in N : k <= j
    BY <2>1, LeastOf
  <2>3. k # 1
    BY <1>4, <1>7, <1>10, <2>2
  <2>4. PICK j \in Nat : j = k - 1 /\ j \in 1 .. n /\ j < k
    BY <1>4, <2>2, <2>3
  <2>5. e[j] = U[j]
    <3>1. j \notin N
      BY <2>2, <2>4
    <3> QED BY <2>4, <3>1
  <2>6. k \in 1 .. n /\ e[k] # U[k]
    BY <2>2
  <2> HIDE DEF N
  <2> QED BY <1>6, <1>10, <2>3, <2>4, <2>5, <2>6
<1> QED BY <1>1, <1>3, <1>4, <1>11, <1>12

Rises(w, x, u, v) == w[<<u, v>>] \in Nat \ {0} /\ x[v] = x[u] + w[<<u, v>>]

\* q goes on from p to v; and what that leads to.
ClimbsOn(w, x, p, v, q) ==
  Climbs(w, x, p) /\ v \in Nodes /\ q = Append(p, v) /\ Rises(w, x, p[Len(p)], v)
ClimbedOn(w, x, p, v, q) ==
  /\ Climbs(w, x, q) /\ Len(q) = Len(p) + 1 /\ q[Len(q)] = v /\ q[1] = p[1]
  /\ \A i \in 1 .. Len(p) : q[i] = p[i]

LEMMA ClimbGoesOn ==
  ASSUME NEW w, NEW x, NEW p, NEW v, NEW q, ClimbsOn(w, x, p, v, q)
  PROVE  ClimbedOn(w, x, p, v, q)
<1>0. PICK u : u = p[Len(p)] /\ Climbs(w, x, p) /\ v \in Nodes /\ q = Append(p, v) /\ Rises(w, x, u, v)
  BY DEF ClimbsOn
<1>1. PICK n \in Nat \ {0} : n = Len(p)
  BY <1>0 DEF Climbs
<1>2. q \in Seq(Nodes) /\ Len(q) = n + 1 /\ (\A i \in 1 .. n : q[i] = p[i]) /\ q[n + 1] = v
  BY <1>0, <1>1, AppendProperties DEF Climbs
<1>3. x[u] \in Int /\ x[v] \in Int /\ w[<<u, v>>] \in Nat \ {0} /\ x[v] = x[u] + w[<<u, v>>]
  BY <1>0, <1>1 DEF Climbs, Rises
<1>4. ASSUME NEW i \in 1 .. n + 1 PROVE q[i] \in Nodes /\ x[q[i]] \in Int
  <2>1. CASE i = n + 1
    BY <1>0, <1>2, <1>3, <2>1
  <2>2. CASE i \in 1 .. n
    <3>1. q[i] = p[i]
      BY <1>2, <2>2
    <3>2. p[i] \in Nodes /\ x[p[i]] \in Int
      BY <1>0, <1>1, <2>2 DEF Climbs
    <3> QED BY <3>1, <3>2
  <2>3. i = n + 1 \/ i \in 1 .. n
    OBVIOUS
  <2> QED BY <2>1, <2>2, <2>3
<1>5. ASSUME NEW i \in 1 .. n
      PROVE  w[<<q[i], q[i + 1]>>] \in Nat \ {0} /\ x[q[i + 1]] = x[q[i]] + w[<<q[i], q[i + 1]>>]
  <2>1. CASE i = n
    <3>1. q[i] = u /\ q[i + 1] = v
      BY <1>0, <1>1, <1>2, <2>1
    <3> QED BY <1>3, <3>1
  <2>2. CASE i # n
    <3>1. i \in 1 .. n - 1 /\ i + 1 \in 1 .. n
      BY <2>2
    <3>2. q[i] = p[i] /\ q[i + 1] = p[i + 1]
      BY <1>2, <3>1
    <3> QED BY <1>0, <1>1, <3>1, <3>2 DEF Climbs
  <2> QED BY <2>1, <2>2
<1>6. Climbs(w, x, q)
  BY <1>2, <1>4, <1>5 DEF Climbs
<1>7. 1 \in 1 .. n
  OBVIOUS
<1> QED BY <1>1, <1>2, <1>6, <1>7 DEF ClimbedOn

LEMMA ShortClimb ==
  ASSUME NEW w, NEW x, NEW v \in Nodes, x[v] \in Int
  PROVE  Climbs(w, x, <<v>>) /\ <<v>>[1] = v /\ Len(<<v>>) = 1
<1>1. <<v>> \in Seq(Nodes) /\ Len(<<v>>) = 1 /\ <<v>>[1] = v
  OBVIOUS
<1> QED BY <1>1 DEF Climbs

-----------------------------------------------------------------------------
(* What lies in front of b is tight along a climb from a.                  *)

InFrontOf(f, r, h, b, v) == f[v] = r[v] /\ f[v] \in Nat /\ f[v] + h[v] <= f[b]
Tight(w, f, u, v) == f[u] \in Nat /\ f[v] \in Nat /\ w[<<u, v>>] \in Nat /\ f[v] = f[u] + w[<<u, v>>]

LEMMA TightIsInFront ==
  ASSUME NEW w, NEW h, NEW f, NEW r, NEW b \in Nodes, Bounded(w, h, b), Behind(f, r, h, b), f[b] \in Nat,
         NEW u \in Nodes, NEW v \in Nodes, InFrontOf(f, r, h, b, v), Tight(w, f, u, v)
  PROVE  InFrontOf(f, r, h, b, u) /\ f[u] < f[v] /\ w[<<u, v>>] \in Nat \ {0}
<1>1. PICK c \in Nat : c = w[<<u, v>>] /\ f[v] = f[u] + c /\ f[u] \in Nat /\ f[v] \in Nat
  BY DEF Tight
<1>2. c > 0 /\ h[u] <= c + h[v] /\ h[u] \in Nat /\ h[v] \in Nat
  BY <1>1 DEF Bounded
<1>3. f[v] + h[v] <= f[b]
  BY DEF InFrontOf
<1>4. f[u] + h[u] <= f[b] /\ f[u] < f[v] /\ f[u] < f[b]
  BY <1>1, <1>2, <1>3
<1>5. f[u] = r[u]
  <2>1. f[u] # r[u] => f[b] <= f[u] + h[u] /\ (f[b] = f[u] + h[u] => f[b] <= f[u])
    BY <1>1 DEF Behind
  <2> QED BY <1>1, <1>2, <1>4, <2>1
<1> QED BY <1>1, <1>2, <1>4, <1>5 DEF InFrontOf

LEMMA ClimbExists ==
  ASSUME NEW w, NEW h, NEW f, NEW r, NEW a \in Nodes, NEW b \in Nodes,
         Relaxes(w, a, f, r), Bounded(w, h, b), Behind(f, r, h, b), f[b] \in Nat
  PROVE  f[a] = 0 /\ \E p : Climbs(w, f, p) /\ p[1] = a /\ p[Len(p)] = b /\ \A i \in 1 .. Len(p) : f[p[i]] \in Nat
<1> DEFINE To(v) == \E p : Climbs(w, f, p) /\ p[1] = a /\ p[Len(p)] = v /\ \A i \in 1 .. Len(p) : f[p[i]] \in Nat
           Bad(v) == InFrontOf(f, r, h, b, v) /\ ~(f[a] = 0 /\ To(v))
           N == {n \in Nat : \E v \in Nodes : Bad(v) /\ f[v] = n}
<1>1. ASSUME N # {} PROVE FALSE
  <2>1. PICK m \in N : \A n \in N : m <= n
    BY <1>1, LeastOf
  <2>2. PICK v \in Nodes : Bad(v) /\ f[v] = m
    BY <2>1
  <2>3. InFrontOf(f, r, h, b, v) /\ f[v] = m /\ m \in Nat
    BY <2>1, <2>2
  <2>4. CASE v = a
    <3>1. f[a] = 0
      BY <2>3, <2>4 DEF InFrontOf, Relaxes
    <3>2. Climbs(w, f, <<a>>) /\ <<a>>[1] = a /\ Len(<<a>>) = 1
      BY <3>1, ShortClimb
    <3>3. \A i \in 1 .. Len(<<a>>) : f[<<a>>[i]] \in Nat
      BY <3>1, <3>2
    <3>4. To(a)
      BY <3>2, <3>3
    <3> QED BY <2>2, <2>4, <3>1, <3>4
  <2>5. CASE v # a
    <3>1. PICK u \in Nodes : f[u] \in Nat /\ w[<<u, v>>] \in Nat /\ r[v] = f[u] + w[<<u, v>>]
      BY <2>3, <2>5 DEF InFrontOf, Relaxes
    <3>2. Tight(w, f, u, v)
      BY <2>3, <3>1 DEF InFrontOf, Tight
    <3>3. InFrontOf(f, r, h, b, u) /\ f[u] < f[v] /\ w[<<u, v>>] \in Nat \ {0}
      BY <2>3, <3>2, TightIsInFront
    <3>4. f[u] \notin N
      BY <2>1, <2>3, <3>1, <3>3
    <3>5. f[a] = 0 /\ To(u)
      BY <3>1, <3>3, <3>4
    <3>6. PICK p : Climbs(w, f, p) /\ p[1] = a /\ p[Len(p)] = u /\ \A i \in 1 .. Len(p) : f[p[i]] \in Nat
      BY <3>5
    <3>7. f[v] = f[u] + w[<<u, v>>]
      BY <3>2 DEF Tight
    <3>8. PICK q : q = Append(p, v)
      OBVIOUS
    <3>9. /\ Climbs(w, f, q) /\ Len(q) = Len(p) + 1 /\ q[Len(q)] = v /\ q[1] = a
          /\ \A i \in 1 .. Len(p) : q[i] = p[i]
      <4> HIDE DEF N, To, Bad
      <4>1. PICK y \in Nodes : y = u /\ y = p[Len(p)]
        BY <3>6
      <4>2. Rises(w, f, y, v) /\ Climbs(w, f, p)
        BY <3>3, <3>6, <3>7, <4>1 DEF Rises
      <4>3. /\ Climbs(w, f, q) /\ Len(q) = Len(p) + 1 /\ q[Len(q)] = v /\ q[1] = p[1]
            /\ \A i \in 1 .. Len(p) : q[i] = p[i]
        <5>1. ClimbsOn(w, f, p, v, q)
          BY <3>8, <4>1, <4>2 DEF ClimbsOn
        <5>2. ClimbedOn(w, f, p, v, q)
          BY <5>1, ClimbGoesOn
        <5> QED BY <5>2 DEF ClimbedOn
      <4> QED BY <3>6, <4>3
    <3>10. \A i \in 1 .. Len(q) : f[q[i]] \in Nat
      <4>1. Len(p) \in Nat
        BY <3>6 DEF Climbs
      <4>2. \A i \in 1 .. Len(q) : i \in 1 .. Len(p) \/ i = Len(q)
        BY <3>9, <4>1
      <4> HIDE DEF N, To
      <4> QED BY <2>3, <3>6, <3>9, <4>2
    <3>11. To(v)
      BY <3>9, <3>10
    <3> QED BY <2>2, <3>5, <3>11
  <2> QED BY <2>4, <2>5
<1>2. InFrontOf(f, r, h, b, b)
  BY DEF Behind, Bounded, InFrontOf
<1>3. f[b] \notin N
  BY <1>1
<1> QED BY <1>2, <1>3

-----------------------------------------------------------------------------
(* What reconstruct_backtracking_path finds: every climb to the goal along *)
(* next, and nothing else.                                                 *)

\* The first n nodes of p.
Prefix(p, n) == [i \in 1 .. n |-> p[i]]

LEMMA PrefixIs ==
  ASSUME NEW p \in Seq(Nodes), NEW n \in 1 .. Len(p)
  PROVE  /\ Prefix(p, n) \in Seq(Nodes) /\ Len(Prefix(p, n)) = n
         /\ \A i \in 1 .. n : Prefix(p, n)[i] = p[i]
<1>1. PICK k \in Nat : k = Len(p)
  BY LenProperties
<1>2. n \in Nat /\ \A i \in 1 .. n : p[i] \in Nodes
  BY <1>1, ElementOfSeq
<1>3. Prefix(p, n) \in [1 .. n -> Nodes]
  BY <1>2 DEF Prefix
<1>4. Prefix(p, n) \in Seq(Nodes)
  BY <1>2, <1>3
<1>5. DOMAIN Prefix(p, n) = 1 .. n
  BY DEF Prefix
<1>6. Len(Prefix(p, n)) = n
  BY <1>2, <1>3, <1>4
<1>7. \A i \in 1 .. n : Prefix(p, n)[i] = p[i]
  BY DEF Prefix
<1> QED BY <1>4, <1>6, <1>7

LEMMA FirstPrefix == ASSUME NEW p \in Seq(Nodes), Len(p) # 0 PROVE Prefix(p, 1) = <<p[1]>>
<1>1. 1 \in 1 .. Len(p)
  BY LenProperties
<1>2. p[1] \in Nodes
  BY <1>1, ElementOfSeq
<1>3. <<p[1]>> \in Seq(Nodes) /\ Len(<<p[1]>>) = 1 /\ <<p[1]>>[1] = p[1]
  BY <1>2
<1>4. PICK n \in 1 .. Len(p) : n = 1
  BY <1>1
<1>5. PICK q : q = Prefix(p, n)
  OBVIOUS
<1>6. q \in Seq(Nodes) /\ Len(q) = n /\ \A i \in 1 .. n : q[i] = p[i]
  BY <1>5, PrefixIs
<1>7. \A i \in 1 .. Len(q) : i = 1 /\ q[i] = <<p[1]>>[i]
  BY <1>3, <1>4, <1>6
<1>8. q = <<p[1]>>
  BY <1>3, <1>4, <1>6, <1>7, SeqEqual
<1> QED BY <1>4, <1>5, <1>8

LEMMA WholePrefix == ASSUME NEW p \in Seq(Nodes), Len(p) # 0 PROVE Prefix(p, Len(p)) = p
<1>1. Len(p) \in 1 .. Len(p)
  BY LenProperties
<1>2. Prefix(p, Len(p)) \in Seq(Nodes) /\ Len(Prefix(p, Len(p))) = Len(p)
      /\ \A i \in 1 .. Len(p) : Prefix(p, Len(p))[i] = p[i]
  BY <1>1, PrefixIs
<1> QED BY <1>2, SeqEqual

LEMMA NextPrefix ==
  ASSUME NEW p \in Seq(Nodes), NEW n \in 1 .. Len(p), n + 1 \in 1 .. Len(p)
  PROVE  Prefix(p, n + 1) = Append(Prefix(p, n), p[n + 1])
<1>1. PICK q : q = Prefix(p, n)
  OBVIOUS
<1>2. PICK m \in 1 .. Len(p) : m = n + 1
  OBVIOUS
<1>3. PICK v \in Nodes : v = p[m]
  BY ElementOfSeq
<1>4. q \in Seq(Nodes) /\ Len(q) = n /\ \A i \in 1 .. n : q[i] = p[i]
  BY <1>1, PrefixIs
<1>5. PICK t : t = Append(q, v)
  OBVIOUS
<1>6. t \in Seq(Nodes) /\ Len(t) = n + 1 /\ (\A i \in 1 .. n : t[i] = q[i]) /\ t[n + 1] = v
  BY <1>4, <1>5, AppendProperties
<1>7. PICK s : s = Prefix(p, m)
  OBVIOUS
<1>8. s \in Seq(Nodes) /\ Len(s) = m /\ \A i \in 1 .. m : s[i] = p[i]
  BY <1>7, PrefixIs
<1>9. ASSUME NEW i \in 1 .. Len(s) PROVE s[i] = t[i]
  <2>1. i \in 1 .. m /\ (i = m \/ i \in 1 .. n)
    BY <1>2, <1>8
  <2>2. CASE i = m
    BY <1>2, <1>3, <1>6, <1>8, <2>1, <2>2
  <2>3. CASE i \in 1 .. n
    BY <1>4, <1>6, <1>8, <2>1, <2>3
  <2> QED BY <2>1, <2>2, <2>3
<1>10. s = t
  BY <1>2, <1>6, <1>8, <1>9, SeqEqual
<1> QED BY <1>1, <1>2, <1>3, <1>5, <1>7, <1>10

\* to has the paths from has, and those with one node more.
Extended(from, to, b, next) ==
  /\ from \in SUBSET Seq(Nodes) /\ to \in SUBSET Seq(Nodes) /\ from \subseteq to
  /\ \A q \in from, v \in Nodes :
       q[Len(q)] # b /\ v \in next[q[Len(q)]] /\ (\A i \in 1 .. Len(q) : q[i] # v) => Append(q, v) \in to
  /\ \A t \in to : t \in from \/ \E q \in from, v \in Nodes : t = Append(q, v) /\ v \in next[q[Len(q)]]

LEMMA ExtendedIs ==
  ASSUME NEW b, NEW next, NEW X \in SUBSET Seq(Nodes), NEW T,
         T = X \cup {Append(q[1], q[2]) : q \in
               {q \in X \X Nodes : Last(q[1]) # b /\ q[2] \in next[Last(q[1])] /\ q[2] \notin ToSet(q[1])}}
  PROVE  Extended(X, T, b, next)
<1> DEFINE C == {q \in X \X Nodes : Last(q[1]) # b /\ q[2] \in next[Last(q[1])] /\ q[2] \notin ToSet(q[1])}
<1>1. ASSUME NEW q \in X, NEW v \in Nodes, q[Len(q)] # b, v \in next[q[Len(q)]], \A i \in 1 .. Len(q) : q[i] # v
      PROVE  Append(q, v) \in T
  <2>1. v \notin ToSet(q)
    <3>1. DOMAIN q = 1 .. Len(q)
      BY LenProperties
    <3> QED BY <1>1, <3>1 DEF ToSet
  <2>2. PICK k \in X \X Nodes : k[1] = q /\ k[2] = v
    <3>1. <<q, v>> \in X \X Nodes /\ <<q, v>>[1] = q /\ <<q, v>>[2] = v
      OBVIOUS
    <3> QED BY <3>1
  <2>3. k \in C
    BY <1>1, <2>1, <2>2 DEF Last
  <2> QED BY <2>2, <2>3
<1>2. ASSUME NEW t \in T, t \notin X
      PROVE  \E q \in X, v \in Nodes : t = Append(q, v) /\ v \in next[q[Len(q)]]
  <2>1. PICK k \in C : t = Append(k[1], k[2])
    BY <1>2
  <2>2. k[1] \in X /\ k[2] \in Nodes /\ k[2] \in next[Last(k[1])]
    BY <2>1
  <2> QED BY <2>1, <2>2 DEF Last
<1>3. T \in SUBSET Seq(Nodes)
  <2> SUFFICES ASSUME NEW t \in T, t \notin X PROVE t \in Seq(Nodes)
    OBVIOUS
  <2>1. PICK q \in X, v \in Nodes : t = Append(q, v)
    BY <1>2
  <2> QED BY <2>1, AppendProperties
<1>4. X \subseteq T
  OBVIOUS
<1> HIDE DEF C
<1> QED BY <1>1, <1>2, <1>3, <1>4 DEF Extended

\* P holds the paths after n turns, for every n.
Backtracking(P, a, b, next) ==
  /\ P[0] = {<<a>>}
  /\ \A n \in Nat : Extended(P[n], P[n + 1], b, next)
  /\ BacktrackingPaths(a, b, next) = {p \in P[Cardinality(Nodes)] : p[Len(p)] = b}

LEMMA BacktrackingIs ==
  ASSUME NEW a \in Nodes, NEW b, NEW next
  PROVE  \E P : Backtracking(P, a, b, next)
<1>1. PICK extend : extend = [paths \in SUBSET Seq(Nodes) |->
        paths \cup {Append(q[1], q[2]) : q \in
          {q \in paths \X Nodes : Last(q[1]) # b /\ q[2] \in next[Last(q[1])]
                                  /\ q[2] \notin ToSet(q[1])}}]
  OBVIOUS
<1> DEFINE base == {<<a>>}
<1> HIDE DEF base
<1>2. PICK P : P = [n \in Nat |-> Iterated(extend, base, n)]
  OBVIOUS
<1>3. P[0] = base /\ \A n \in Nat : P[n + 1] = extend[P[n]]
  <2>1. 0 \in Nat /\ \A n \in Nat : n + 1 \in Nat
    OBVIOUS
  <2> QED BY <1>2, <2>1, IteratedIs
<1>4. Cardinality(Nodes) \in Nat
  BY NodesAssumption, FS_CardinalityType
<1>5. BacktrackingPaths(a, b, next) = {p \in P[Cardinality(Nodes)] : p[Len(p)] = b}
  <2>1. BacktrackingPaths(a, b, next) = {p \in Iterated(extend, base, Cardinality(Nodes)) : Last(p) = b}
    BY <1>1, Zenon DEF BacktrackingPaths, base
  <2>2. Iterated(extend, base, Cardinality(Nodes)) = P[Cardinality(Nodes)]
    BY <1>2, <1>4
  <2> QED BY <2>1, <2>2 DEF Last
<1>6. \A X \in SUBSET Seq(Nodes) : Extended(X, extend[X], b, next)
  <2> SUFFICES ASSUME NEW X \in SUBSET Seq(Nodes) PROVE Extended(X, extend[X], b, next)
    OBVIOUS
  <2>1. extend[X] = X \cup {Append(q[1], q[2]) : q \in
               {q \in X \X Nodes : Last(q[1]) # b /\ q[2] \in next[Last(q[1])] /\ q[2] \notin ToSet(q[1])}}
    BY <1>1
  <2> QED BY <2>1, ExtendedIs
<1>7. base \in SUBSET Seq(Nodes)
  BY DEF base
<1>8. \A n \in Nat : P[n] \in SUBSET Seq(Nodes)
  <2> SUFFICES ASSUME NEW n \in Nat, P[n] \notin SUBSET Seq(Nodes) PROVE FALSE
    OBVIOUS
  <2> DEFINE N == {k \in Nat : P[k] \notin SUBSET Seq(Nodes)}
  <2>1. n \in N
    OBVIOUS
  <2>2. PICK m \in N : \A k \in N : m <= k
    BY <2>1, LeastOf
  <2>3. m \in Nat /\ P[m] \notin SUBSET Seq(Nodes)
    BY <2>2
  <2>4. m # 0
    BY <1>3, <1>7, <2>3
  <2>5. PICK k \in Nat : m = k + 1
    <3>1. m - 1 \in Nat /\ m = (m - 1) + 1
      BY <2>3, <2>4
    <3> QED BY <3>1
  <2>6. k \notin N
    BY <2>2, <2>5
  <2>7. P[k] \in SUBSET Seq(Nodes)
    BY <2>6
  <2> HIDE DEF N
  <2>8. Extended(P[k], P[m], b, next)
    BY <1>3, <1>6, <2>5, <2>7
  <2> QED BY <2>3, <2>8 DEF Extended
<1>9. \A n \in Nat : Extended(P[n], P[n + 1], b, next)
  BY <1>3, <1>6, <1>8
<1>10. P[0] = {<<a>>}
  BY <1>3 DEF base
<1>11. Backtracking(P, a, b, next)
  BY <1>5, <1>9, <1>10, Zenon DEF Backtracking
<1> QED BY <1>11

\* next goes up along the edges, by their cost, and only there.
GoesUp(w, x, next) ==
  /\ \A u, v \in Nodes : v \in next[u] =>
       x[v] \in Int /\ w[<<u, v>>] \in Nat \ {0} /\ x[v] = x[u] + w[<<u, v>>]
  /\ \A u, v \in Nodes : x[u] \in Nat /\ x[v] \in Nat /\ w[<<u, v>>] \in Nat /\ x[v] = x[u] + w[<<u, v>>] =>
       v \in next[u]

LEMMA BacktracksUp ==
  ASSUME NEW w, NEW x, NEW next, GoesUp(w, x, next), NEW a \in Nodes, x[a] \in Int, NEW b,
         NEW p \in BacktrackingPaths(a, b, next)
  PROVE  Climbs(w, x, p) /\ p[1] = a /\ p[Len(p)] = b
<1>0. PICK P : Backtracking(P, a, b, next)
  BY BacktrackingIs
<1>1. /\ P[0] = {<<a>>} /\ \A n \in Nat : Extended(P[n], P[n + 1], b, next)
      /\ BacktrackingPaths(a, b, next) = {q \in P[Cardinality(Nodes)] : q[Len(q)] = b}
  BY <1>0, Zenon DEF Backtracking
<1>2. PICK n \in Nat : n = Cardinality(Nodes)
  BY NodesAssumption, FS_CardinalityType
<1>3. p \in P[n] /\ p[Len(p)] = b
  BY <1>1, <1>2
<1> DEFINE Up(q) == Climbs(w, x, q) /\ q[1] = a
           N == {k \in Nat : \E q \in P[k] : ~Up(q)}
<1> SUFFICES ASSUME ~Up(p) PROVE FALSE
  BY <1>3
<1>4. n \in N
  BY <1>3
<1>5. PICK m \in N : \A k \in N : m <= k
  BY <1>4, LeastOf
<1>6. PICK q \in P[m] : ~Up(q)
  BY <1>5
<1>7. m # 0
  <2>1. Up(<<a>>)
    BY ShortClimb
  <2> HIDE DEF Up
  <2> QED BY <1>1, <1>6, <2>1
<1>8. PICK k \in Nat : m = k + 1
  <2>1. m - 1 \in Nat /\ m = (m - 1) + 1
    BY <1>5, <1>7
  <2> QED BY <2>1
<1>9. \A s \in P[k] : Up(s)
  <2>1. k \notin N
    BY <1>5, <1>8
  <2> QED BY <2>1
<1> HIDE DEF N
<1>10. PICK s \in P[k], v \in Nodes : q = Append(s, v) /\ v \in next[s[Len(s)]]
  <2>1. Extended(P[k], P[m], b, next)
    BY <1>1, <1>8
  <2>2. q \notin P[k]
    BY <1>6, <1>9
  <2> QED BY <1>6, <2>1, <2>2 DEF Extended
<1>11. Climbs(w, x, s) /\ s[1] = a
  BY <1>9
<1> HIDE DEF Up
<1>12. PICK u \in Nodes : u = s[Len(s)]
  <2>1. Len(s) \in 1 .. Len(s)
    BY <1>11 DEF Climbs
  <2> QED BY <1>11, <2>1 DEF Climbs
<1>13. Rises(w, x, u, v)
  BY <1>10, <1>12 DEF GoesUp, Rises
<1>14. Climbs(w, x, q) /\ q[1] = s[1]
  <2>1. ClimbsOn(w, x, s, v, q)
    BY <1>10, <1>11, <1>12, <1>13 DEF ClimbsOn
  <2>2. ClimbedOn(w, x, s, v, q)
    BY <2>1, ClimbGoesOn
  <2> QED BY <2>2 DEF ClimbedOn
<1> QED BY <1>6, <1>11, <1>14 DEF Up

LEMMA BacktracksAll ==
  ASSUME NEW w, NEW x, NEW next, GoesUp(w, x, next), NEW a \in Nodes, NEW b,
         NEW p, Climbs(w, x, p), p[1] = a, p[Len(p)] = b, \A i \in 1 .. Len(p) : x[p[i]] \in Nat
  PROVE  p \in BacktrackingPaths(a, b, next)
<1>0. PICK P : Backtracking(P, a, b, next)
  BY BacktrackingIs
<1>1. /\ P[0] = {<<a>>} /\ \A n \in Nat : Extended(P[n], P[n + 1], b, next)
      /\ BacktrackingPaths(a, b, next) = {q \in P[Cardinality(Nodes)] : q[Len(q)] = b}
  BY <1>0, Zenon DEF Backtracking
<1>2. PICK n \in Nat \ {0} : n = Len(p) /\ p \in Seq(Nodes)
  BY DEF Climbs
<1>3. PICK c \in Nat : c = Cardinality(Nodes) /\ n <= c
  BY <1>2, ClimbIsShort, NodesAssumption, FS_CardinalityType
\* The paths of m turns have the prefix of m + 1 nodes, or all of p.
<1>4. PICK s : s = [m \in Nat |-> Prefix(p, IF m < n THEN m + 1 ELSE n)]
  OBVIOUS
<1>5. ASSUME NEW m \in Nat, s[m] \in P[m] PROVE s[m + 1] \in P[m + 1]
  <2>1. Extended(P[m], P[m + 1], b, next)
    BY <1>1
  <2>2. CASE ~(m + 1 < n)
    <3>1. s[m] = Prefix(p, n)
      <4>1. (IF m < n THEN m + 1 ELSE n) = n
        BY <2>2
      <4> QED BY <1>4, <4>1
    <3>2. s[m + 1] = Prefix(p, n)
      BY <1>4, <2>2
    <3> QED BY <1>5, <2>1, <3>1, <3>2 DEF Extended
  <2>3. CASE m + 1 < n
    <3>1. PICK i \in 1 .. n - 1 : i = m + 1 /\ i \in 1 .. n /\ i + 1 \in 1 .. n /\ n \in 1 .. n /\ i < n
      BY <2>3
    <3>2. s[m] = Prefix(p, i)
      <4>1. m < n
        BY <2>3
      <4> QED BY <1>4, <3>1, <4>1
    <3>3. s[m + 1] = Prefix(p, i + 1)
      BY <1>4, <2>3, <3>1
    <3>4. PICK q : q = Prefix(p, i) /\ Len(q) = i /\ \A j \in 1 .. i : q[j] = p[j]
      BY <1>2, <3>1, PrefixIs
    <3>5. PICK v \in Nodes : v = p[i + 1]
      BY <1>2, <3>1 DEF Climbs
    <3>6. q[Len(q)] = p[i] /\ p[i] \in Nodes
      BY <1>2, <3>1, <3>4 DEF Climbs
    <3>7. p[i] # b
      <4>1. x[p[i]] < x[p[n]]
        BY <1>2, <3>1, ClimbGrows
      <4> QED BY <1>2, <3>1, <4>1
    <3>8. v \in next[p[i]]
      <4>1. w[<<p[i], v>>] \in Nat /\ x[v] = x[p[i]] + w[<<p[i], v>>] /\ x[v] \in Nat /\ x[p[i]] \in Nat
        BY <1>2, <3>1, <3>5 DEF Climbs
      <4> QED BY <3>5, <3>6, <4>1 DEF GoesUp
    <3>9. ASSUME NEW j \in 1 .. Len(q), q[j] = v PROVE FALSE
      <4>1. PICK k \in 1 .. n : k = i + 1 /\ j \in 1 .. n /\ j < k /\ j \in 1 .. i
        BY <3>1, <3>4
      <4>2. x[p[j]] < x[p[k]]
        BY <1>2, <4>1, ClimbGrows
      <4>3. p[j] = p[k] /\ x[p[j]] \in Nat
        BY <1>2, <3>4, <3>5, <3>9, <4>1
      <4> QED BY <4>2, <4>3
    <3>10. q \in P[m]
      BY <1>5, <3>2, <3>4
    <3>11. Append(q, v) \in P[m + 1]
      BY <2>1, <3>6, <3>7, <3>8, <3>9, <3>10 DEF Extended
    <3>12. Prefix(p, i + 1) = Append(q, v)
      BY <1>2, <3>1, <3>4, <3>5, NextPrefix
    <3> QED BY <3>3, <3>11, <3>12
  <2> QED BY <2>2, <2>3
<1>6. s[0] \in P[0]
  <2>1. s[0] = Prefix(p, 1)
    BY <1>2, <1>4
  <2> QED BY <1>1, <1>2, <2>1, FirstPrefix
<1>7. ASSUME NEW m \in Nat, s[m] \notin P[m] PROVE FALSE
  <2> DEFINE N == {k \in Nat : s[k] \notin P[k]}
  <2>1. m \in N
    BY <1>7
  <2>2. PICK k \in N : \A j \in N : k <= j
    BY <2>1, LeastOf
  <2>3. k # 0 /\ k \in Nat /\ s[k] \notin P[k]
    BY <1>6, <2>2
  <2>4. PICK j \in Nat : k = j + 1
    <3>1. k - 1 \in Nat /\ k = (k - 1) + 1
      BY <2>3
    <3> QED BY <3>1
  <2>5. j \notin N
    BY <2>2, <2>4
  <2> QED BY <1>5, <2>3, <2>4, <2>5
<1>8. s[c] = p
  <2>1. s[c] = Prefix(p, n)
    BY <1>3, <1>4
  <2> QED BY <1>2, <2>1, WholePrefix
<1>9. p \in P[c]
  BY <1>3, <1>7, <1>8
<1> QED BY <1>1, <1>3, <1>9

-----------------------------------------------------------------------------
(* What reconstruct_successor_path finds, one turn at a time.              *)

\* K holds the path after n turns, for every n.
Successive(K, a, b, next) ==
  /\ K[0] = <<a>>
  /\ \A n \in Nat : K[n] \in Seq(Nodes) /\ Len(K[n]) # 0 =>
       LET u == K[n][Len(K[n])]
           v == next[<<u, ToSet(K[n])>>]
       IN /\ u = b => K[n + 1] = K[n]
          /\ u # b /\ v # None /\ v \notin ToSet(K[n]) => K[n + 1] = Append(K[n], v)
  /\ \A p : p = K[Cardinality(Nodes)] /\ p # <<>> /\ p[Len(p)] = b => SuccessorPath(a, b, next) = p

LEMMA SuccessorsAre ==
  ASSUME NEW a \in Nodes, NEW b, NEW next
  PROVE  \E K : Successive(K, a, b, next)
<1>1. PICK walk : walk = [path \in Seq(Nodes) |->
        IF path = <<>> \/ Last(path) = b THEN path
        ELSE LET v == next[<<Last(path), ToSet(path)>>]
             IN IF v = None \/ v \in ToSet(path) THEN <<>> ELSE Append(path, v)]
  OBVIOUS
<1>2. PICK K : K = [n \in Nat |-> Iterated(walk, <<a>>, n)]
  OBVIOUS
<1>3. K[0] = <<a>> /\ \A n \in Nat : K[n + 1] = walk[K[n]]
  <2>1. 0 \in Nat /\ \A n \in Nat : n + 1 \in Nat
    OBVIOUS
  <2> QED BY <1>2, <2>1, IteratedIs
<1>4. Cardinality(Nodes) \in Nat
  BY NodesAssumption, FS_CardinalityType
<1>5. PICK p : p = K[Cardinality(Nodes)]
  OBVIOUS
<1>6. p # <<>> /\ p[Len(p)] = b => SuccessorPath(a, b, next) = p
  <2>1. PICK q : q = Iterated(walk, <<a>>, Cardinality(Nodes))
    OBVIOUS
  <2>2. SuccessorPath(a, b, next) = IF q # <<>> /\ Last(q) = b THEN q ELSE <<>>
    BY <1>1, <2>1, Zenon DEF SuccessorPath
  <2>3. q = p
    BY <1>2, <1>4, <1>5, <2>1
  <2> QED BY <2>2, <2>3 DEF Last
<1>7. ASSUME NEW q \in Seq(Nodes), Len(q) # 0, NEW u, u = q[Len(q)], NEW v, v = next[<<u, ToSet(q)>>]
      PROVE  /\ u = b => walk[q] = q
             /\ u # b /\ v # None /\ v \notin ToSet(q) => walk[q] = Append(q, v)
  <2>1. q # <<>>
    BY <1>7, EmptySeq
  <2>2. Last(q) = u
    BY <1>7 DEF Last
  <2>3. walk[q] = IF q = <<>> \/ Last(q) = b THEN q
                  ELSE IF next[<<Last(q), ToSet(q)>>] = None \/ next[<<Last(q), ToSet(q)>>] \in ToSet(q) THEN <<>>
                       ELSE Append(q, next[<<Last(q), ToSet(q)>>])
    BY <1>1
  <2> QED BY <1>7, <2>1, <2>2, <2>3
<1>8. ASSUME NEW n \in Nat, K[n] \in Seq(Nodes), Len(K[n]) # 0
      PROVE  LET u == K[n][Len(K[n])]
                 v == next[<<u, ToSet(K[n])>>]
             IN /\ u = b => K[n + 1] = K[n]
                /\ u # b /\ v # None /\ v \notin ToSet(K[n]) => K[n + 1] = Append(K[n], v)
  <2>1. PICK q \in Seq(Nodes) : q = K[n] /\ Len(q) # 0
    BY <1>8
  <2>2. K[n + 1] = walk[q]
    BY <1>3, <2>1
  <2>3. PICK u : u = q[Len(q)]
    OBVIOUS
  <2>4. PICK v : v = next[<<u, ToSet(q)>>]
    OBVIOUS
  <2>5. /\ u = b => walk[q] = q
        /\ u # b /\ v # None /\ v \notin ToSet(q) => walk[q] = Append(q, v)
    BY <1>7, <2>1, <2>3, <2>4
  <2> QED BY <2>1, <2>2, <2>3, <2>4, <2>5
<1>9. \A q : q = K[Cardinality(Nodes)] /\ q # <<>> /\ q[Len(q)] = b => SuccessorPath(a, b, next) = q
  BY <1>5, <1>6, Zenon
<1>10. Successive(K, a, b, next)
  BY <1>3, <1>8, <1>9, Zenon DEF Successive
<1> QED BY <1>10

-----------------------------------------------------------------------------
(* The policy of D* Lite goes down, along tight edges, to the goal.        *)

\* v is a best choice at u outside past.
Downhill(w, f, u, past, v) ==
  /\ v \in Nodes /\ v \notin past
  /\ f[v] \in Nat /\ f[u] \in Nat /\ w[<<u, v>>] \in Nat /\ f[u] = f[v] + w[<<u, v>>]

\* A walk of n turns has got to b, or has n + 1 nodes; all of it is in front of a.
WalkIs(w, x, f, r, h, a, b, p, n) ==
  /\ Climbs(w, x, p) /\ p[1] = a
  /\ InFrontOf(f, r, h, a, p[Len(p)])
  /\ p[Len(p)] = b \/ Len(p) = n + 1

LEMMA WalkGoesOn ==
  ASSUME NEW w, NEW t, \A u, v \in Nodes : t[<<u, v>>] = w[<<v, u>>],
         NEW h, NEW f, NEW r, NEW a \in Nodes, NEW b \in Nodes,
         Bounded(t, h, a), Behind(f, r, h, a), f[a] \in Nat,
         NEW x, \A v \in Nodes : x[v] = 0 - f[v],
         NEW p, NEW n \in Nat, WalkIs(w, x, f, r, h, a, b, p, n), p[Len(p)] # b,
         NEW v, Downhill(w, f, p[Len(p)], ToSet(p), v)
  PROVE  WalkIs(w, x, f, r, h, a, b, Append(p, v), n + 1)
<1>1. PICK u \in Nodes : u = p[Len(p)]
  <2>1. Len(p) \in 1 .. Len(p)
    BY DEF WalkIs, Climbs
  <2> QED BY <2>1 DEF WalkIs, Climbs
<1>2. Climbs(w, x, p) /\ p[1] = a /\ InFrontOf(f, r, h, a, u) /\ Len(p) = n + 1
  BY <1>1 DEF WalkIs
<1>3. /\ v \in Nodes /\ f[v] \in Nat /\ f[u] \in Nat
      /\ w[<<u, v>>] \in Nat /\ f[u] = f[v] + w[<<u, v>>]
  BY <1>1 DEF Downhill
<1>4. Tight(t, f, v, u)
  BY <1>3 DEF Tight
<1>5. InFrontOf(f, r, h, a, v) /\ t[<<v, u>>] \in Nat \ {0}
  BY <1>2, <1>3, <1>4, TightIsInFront
<1>6. w[<<u, v>>] \in Nat \ {0}
  BY <1>3, <1>5
<1>7. Rises(w, x, u, v)
  <2>1. x[v] = 0 - f[v] /\ x[u] = 0 - f[u]
    BY <1>3
  <2> QED BY <1>3, <1>6, <2>1 DEF Rises
<1>8. PICK q : q = Append(p, v)
  OBVIOUS
<1>9. Climbs(w, x, q) /\ Len(q) = Len(p) + 1 /\ q[Len(q)] = v /\ q[1] = p[1]
  <2>1. ClimbsOn(w, x, p, v, q)
    BY <1>1, <1>2, <1>3, <1>7, <1>8 DEF ClimbsOn
  <2>2. ClimbedOn(w, x, p, v, q)
    BY <2>1, ClimbGoesOn
  <2> QED BY <2>2 DEF ClimbedOn
<1> QED BY <1>2, <1>5, <1>8, <1>9 DEF WalkIs

LEMMA WalkStarts ==
  ASSUME NEW w, NEW t, NEW h, NEW f, NEW r, NEW a \in Nodes, NEW b \in Nodes,
         Bounded(t, h, a), Behind(f, r, h, a), f[a] \in Nat,
         NEW x, \A v \in Nodes : x[v] = 0 - f[v]
  PROVE  WalkIs(w, x, f, r, h, a, b, <<a>>, 0)
<1>1. x[a] \in Int
  OBVIOUS
<1>2. Climbs(w, x, <<a>>) /\ <<a>>[1] = a /\ Len(<<a>>) = 1
  BY <1>1, ShortClimb
<1>3. InFrontOf(f, r, h, a, a)
  BY DEF Behind, Bounded, InFrontOf
<1> QED BY <1>2, <1>3 DEF WalkIs

\* What the policy promises wherever the walk gets.
Policy(w, f, r, h, a, b, next) ==
  \A u \in Nodes, past \in SUBSET Nodes :
    InFrontOf(f, r, h, a, u) /\ u # b /\ (\A v \in past : f[v] >= f[u]) =>
      Downhill(w, f, u, past, next[<<u, past>>])

LEMMA WalkArrives ==
  ASSUME NEW w, NEW t, \A u, v \in Nodes : t[<<u, v>>] = w[<<v, u>>],
         NEW h, NEW f, NEW r, NEW a \in Nodes, NEW b \in Nodes,
         Relaxes(t, b, f, r), Bounded(t, h, a), Behind(f, r, h, a), f[a] \in Nat,
         \A v \in Nodes : f[v] \in Int, NEW next, Policy(w, f, r, h, a, b, next)
  PROVE  SuccessorPath(a, b, next) # <<>> /\ PathCost(w, SuccessorPath(a, b, next)) = f[a]
<1>0. PICK K : Successive(K, a, b, next)
  BY SuccessorsAre
<1>1. /\ K[0] = <<a>>
      /\ \A n \in Nat : K[n] \in Seq(Nodes) /\ Len(K[n]) # 0 =>
           LET u == K[n][Len(K[n])]
               v == next[<<u, ToSet(K[n])>>]
           IN /\ u = b => K[n + 1] = K[n]
              /\ u # b /\ v # None /\ v \notin ToSet(K[n]) => K[n + 1] = Append(K[n], v)
      /\ \A p : p = K[Cardinality(Nodes)] /\ p # <<>> /\ p[Len(p)] = b => SuccessorPath(a, b, next) = p
  BY <1>0, Zenon DEF Successive
<1>2. PICK x : x = [v \in Nodes |-> 0 - f[v]]
  OBVIOUS
<1>3. \A v \in Nodes : x[v] = 0 - f[v]
  BY <1>2
<1> DEFINE Good(p, n) == WalkIs(w, x, f, r, h, a, b, p, n)
<1>4. ASSUME NEW n \in Nat, Good(K[n], n) PROVE Good(K[n + 1], n + 1)
  <2>1. PICK p : p = K[n]
    OBVIOUS
  <2>2. PICK u \in Nodes : u = p[Len(p)] /\ p \in Seq(Nodes) /\ Len(p) \in Nat \ {0} /\ Len(p) \in 1 .. Len(p)
    <3>1. Climbs(w, x, p)
      BY <1>4, <2>1 DEF WalkIs
    <3>2. Len(p) \in 1 .. Len(p)
      BY <3>1 DEF Climbs
    <3> QED BY <3>1, <3>2 DEF Climbs
  <2>3. PICK v : v = next[<<u, ToSet(p)>>]
    OBVIOUS
  <2>4. /\ u = b => K[n + 1] = p
        /\ u # b /\ v # None /\ v \notin ToSet(p) => K[n + 1] = Append(p, v)
    BY <1>1, <2>1, <2>2, <2>3
  <2>5. CASE u = b
    BY <1>4, <2>1, <2>2, <2>4, <2>5 DEF WalkIs
  <2>6. CASE u # b
    <3>1. Climbs(w, x, p) /\ InFrontOf(f, r, h, a, u)
      BY <1>4, <2>1, <2>2 DEF WalkIs
    <3>2. ToSet(p) = {p[i] : i \in 1 .. Len(p)}
      <4>1. DOMAIN p = 1 .. Len(p)
        BY <2>2, LenProperties
      <4> QED BY <4>1 DEF ToSet
    <3>3. ToSet(p) \in SUBSET Nodes
      BY <3>1, <3>2 DEF Climbs
    <3>4. ASSUME NEW i \in 1 .. Len(p) PROVE f[p[i]] >= f[u]
      <4>1. i = Len(p) \/ i < Len(p)
        BY <2>2
      <4>2. CASE i = Len(p)
        BY <2>2, <3>1, <4>2 DEF InFrontOf
      <4>3. CASE i < Len(p)
        <5>1. x[p[i]] < x[u]
          BY <2>2, <3>1, <4>3, ClimbGrows
        <5>2. p[i] \in Nodes /\ x[p[i]] \in Int
          BY <3>1 DEF Climbs
        <5>3. x[p[i]] = 0 - f[p[i]] /\ x[u] = 0 - f[u] /\ f[u] \in Nat
          BY <1>3, <3>1, <5>2 DEF InFrontOf
        <5> QED BY <5>1, <5>2, <5>3
      <4> QED BY <4>1, <4>2, <4>3
    <3>5. Downhill(w, f, u, ToSet(p), v)
      BY <2>3, <2>6, <3>1, <3>2, <3>3, <3>4 DEF Policy
    <3>6. v \in Nat /\ v \notin ToSet(p)
      BY <3>5, NodesAssumption DEF Downhill
    <3>7. K[n + 1] = Append(p, v)
      BY <2>4, <2>6, <3>6 DEF None
    <3>8. WalkIs(w, x, f, r, h, a, b, Append(p, v), n + 1)
      <4>1. WalkIs(w, x, f, r, h, a, b, p, n) /\ p[Len(p)] # b /\ Downhill(w, f, p[Len(p)], ToSet(p), v)
        BY <1>4, <2>1, <2>2, <2>6, <3>5
      <4> HIDE DEF Good
      <4> QED BY <1>3, <4>1, WalkGoesOn
    <3> QED BY <3>7, <3>8
  <2> QED BY <2>5, <2>6
<1>5. Good(K[0], 0)
  BY <1>1, <1>3, WalkStarts
<1> HIDE DEF Good
<1>6. ASSUME NEW n \in Nat, ~Good(K[n], n) PROVE FALSE
  <2> DEFINE N == {k \in Nat : ~Good(K[k], k)}
  <2>1. n \in N
    BY <1>6
  <2>2. PICK k \in N : \A j \in N : k <= j
    BY <2>1, LeastOf
  <2>3. k # 0 /\ k \in Nat /\ ~Good(K[k], k)
    BY <1>5, <2>2
  <2>4. PICK j \in Nat : k = j + 1
    <3>1. k - 1 \in Nat /\ k = (k - 1) + 1
      BY <2>3
    <3> QED BY <3>1
  <2>5. j \notin N
    BY <2>2, <2>4
  <2> QED BY <1>4, <2>3, <2>4, <2>5
<1>7. PICK c \in Nat : c = Cardinality(Nodes)
  BY NodesAssumption, FS_CardinalityType
<1>8. PICK p : p = K[c]
  OBVIOUS
<1>9. WalkIs(w, x, f, r, h, a, b, p, c)
  BY <1>6, <1>8 DEF Good
<1>10. Climbs(w, x, p) /\ p[1] = a /\ Len(p) \in Nat \ {0}
  BY <1>9 DEF WalkIs, Climbs
<1>11. p[Len(p)] = b
  <2>1. Len(p) <= c
    BY <1>7, <1>10, ClimbIsShort
  <2> QED BY <1>9, <1>10, <2>1 DEF WalkIs
<1>12. p # <<>>
  BY <1>10, EmptySeq
<1>13. SuccessorPath(a, b, next) = p
  <2>1. p = K[Cardinality(Nodes)]
    BY <1>7, <1>8
  <2> QED BY <1>1, <1>11, <1>12, <2>1, Zenon
<1>14. PathCost(w, p) = x[b] - x[a]
  BY <1>10, <1>11, ClimbCosts
<1>15. f[b] = 0
  <2>1. InFrontOf(f, r, h, a, b)
    BY <1>9, <1>11 DEF WalkIs
  <2> QED BY <2>1 DEF InFrontOf, Relaxes
<1>16. x[b] = 0 /\ x[a] = 0 - f[a]
  BY <1>3, <1>15
<1> QED BY <1>12, <1>13, <1>14, <1>16

-----------------------------------------------------------------------------
(* Two relaxations of the same values are equal.                           *)
LEMMA RelaxedOnce ==
  ASSUME NEW w, NEW a \in Nodes, NEW f, NEW r \in [Nodes -> Cost], NEW s \in [Nodes -> Cost],
         Relaxes(w, a, f, r), Relaxes(w, a, f, s)
  PROVE  \A v \in Nodes : r[v] = s[v]
<1> SUFFICES ASSUME NEW v \in Nodes PROVE r[v] = s[v]
  OBVIOUS
<1>1. CASE v = a
  BY <1>1 DEF Relaxes
<1>2. CASE v # a
  <2>1. r[v] \in Nat => s[v] \in Nat /\ s[v] <= r[v]
    BY <1>2 DEF Relaxes
  <2>2. s[v] \in Nat => r[v] \in Nat /\ r[v] <= s[v]
    BY <1>2 DEF Relaxes
  <2>3. r[v] \in Cost /\ s[v] \in Cost
    OBVIOUS
  <2> QED BY <2>1, <2>2, <2>3 DEF Cost
<1> QED BY <1>1, <1>2
=============================================================================
