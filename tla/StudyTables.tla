---------------------------- MODULE StudyTables ----------------------------
(***************************************************************************)
(* The algorithms of scripts/verify-remaining-structures.py that fill a    *)
(* table in place, where the order of the writes decides what is read.     *)
(* Operators only; positions of a table start where the source starts.     *)
(***************************************************************************)
EXTENDS Integers, Sequences, SequencesExt, FiniteSets, FiniteSetsExt, Functions

None == -1   \* also the infinite distance of zero_one

Upwards(from, to) == [i \in 1 .. Max({0, to - from + 1}) |-> from + i - 1]
Downwards(from, to) == Reverse(Upwards(to, from))

\* coin_dp: fewest coins for each amount.
CoinDp(coins, target) ==
  LET best[x \in 0 .. target] ==
        LET options == {best[x - c] + 1 : c \in {d \in coins : d <= x /\ best[x - d] # None}}
        IN IF x = 0 THEN 0 ELSE IF options = {} THEN None ELSE Min(options)
  IN best[target]

\* knapsack: items as <<weight, gain>>; the capacities downwards, so that an
\* item is not added to itself.
Knapsack(items, capacity) ==
  LET put(best, item) ==
        FoldLeft(LAMBDA b, c : [b EXCEPT ![c] = Max({@, b[c - item[1]] + item[2]})],
                 best, Downwards(capacity, item[1]))
  IN FoldLeft(put, [c \in 0 .. capacity |-> 0], items)[capacity]

\* count_sort: records as <<digit, rest>>; count[k] ends as the place behind the
\* records of k, and the records are placed from the last to the first.
CountSort(records, radix) ==
  LET counted == FoldLeft(LAMBDA count, r : [count EXCEPT ![r[1]] = @ + 1],
                          [k \in 0 .. radix - 1 |-> 0], records)
      summed == FoldLeft(LAMBDA count, i : [count EXCEPT ![i] = @ + count[i - 1]],
                         counted, Upwards(1, radix - 1))
      place(s, r) == [count |-> [s.count EXCEPT ![r[1]] = @ - 1],
                      out |-> [s.out EXCEPT ![s.count[r[1]]] = r]]
  IN FoldLeft(place, [count |-> summed, out |-> records], Reverse(records)).out

\* isqrt
Root(n) == Max({k \in 0 .. n : k * k <= n})

\* The multiples of p from first on that are crossed out.
CrossedOut(prime, p, first) ==
  [x \in DOMAIN prime |-> prime[x] /\ ~(x >= first /\ x % p = 0)]

Sieve(n) ==
  FoldLeft(LAMBDA prime, p : IF prime[p] THEN CrossedOut(prime, p, p * p) ELSE prime,
           [x \in 0 .. n |-> x >= 2], Upwards(2, Root(n)))

\* segment: the primes from l to r, crossed out by the primes up to the root of r.
Segment(l, r) ==
  LET base == Sieve(Root(r))
      cross(prime, p) ==
        IF base[p] THEN CrossedOut(prime, p, Max({p * p, ((l + p - 1) \div p) * p})) ELSE prime
      crossed == FoldLeft(cross, [x \in l .. r |-> TRUE], Upwards(2, Root(r)))
  IN [x \in l .. r |-> x >= 2 /\ crossed[x]]

\* zero_one: entries <<distance, node>> of a deque, edges of cost 0 in front; an
\* entry is stale once its node is settled or nearer.
Relaxed(s, d, u, edges) ==
  FoldLeft(LAMBDA t, e :
             IF t.dist[e.to] # None /\ t.dist[e.to] <= d + e.cost THEN t
             ELSE LET entry == <<d + e.cost, e.to>> IN
                  [t EXCEPT !.dist[e.to] = d + e.cost,
                            !.q = IF e.cost = 0 THEN <<entry>> \o @ ELSE Append(@, entry)],
           s, edges[u])

RECURSIVE Scan(_, _)
Scan(s, edges) ==
  IF s.q = <<>> THEN s.dist
  ELSE LET d == Head(s.q)[1]
           u == Head(s.q)[2]
           rest == [s EXCEPT !.q = Tail(@)]
       IN IF d # s.dist[u] \/ u \in s.settled THEN Scan(rest, edges)
          ELSE Scan(Relaxed([rest EXCEPT !.settled = @ \cup {u}], d, u, edges), edges)

ZeroOne(edges, source) ==
  Scan([dist |-> [v \in DOMAIN edges |-> IF v = source THEN 0 ELSE None],
        settled |-> {}, q |-> <<<<0, source>>>>], edges)
-----------------------------------------------------------------------------
\* The table of coins knows the least number of coins that make the amount.
CoinsTrue(coins, target) ==
  LET sums[k \in 0 .. target] == IF k = 0 THEN {0} ELSE {s + c : s \in sums[k - 1], c \in coins}
      enough == {k \in 0 .. target : target \in sums[k]}
  IN CoinDp(coins, target) = IF enough = {} THEN None ELSE Min(enough)

\* The knapsack takes each item at most once, and its gain is that of the best
\* set of items that fits.
KnapsackTrue(items, capacity) ==
  LET total(S, i) == MapThenSumSet(LAMBDA k : items[k][i], S) IN
  Knapsack(items, capacity) =
    Max({total(S, 2) : S \in {T \in SUBSET DOMAIN items : total(T, 1) <= capacity}})

\* The counting sort is a stable sort: records <<digit, i>> end in the order of
\* their digits, and of their numbers where those are equal.
CountSortTrue(records, radix) ==
  LET out == CountSort(records, radix) IN
  /\ ToSet(out) = ToSet(records)
  /\ \A i, j \in DOMAIN out : i < j =>
       out[i][1] < out[j][1] \/ (out[i][1] = out[j][1] /\ out[i][2] < out[j][2])

\* A segment of the sieve is true of exactly its primes, wherever it begins.
SegmentTrue(l, r) ==
  Segment(l, r) = [x \in l .. r |-> x >= 2 /\ \A d \in 2 .. x - 1 : x % d # 0]

\* The deque finds the least cost of a walk from the source to every node, in
\* every graph with edges of cost 0 and 1, zero cycles included.
ZeroOneTrue(edges, source) ==
  LET nodes == DOMAIN edges
      onward(W, i) == W \cup UNION {{<<w[1] + e.cost, e.to>> : e \in ToSet(edges[w[2]])} : w \in W}
      walks == FoldLeft(onward, {<<0, source>>}, SetToSeq(nodes))
      costs(v) == {w[1] : w \in {x \in walks : x[2] = v}}
  IN ZeroOne(edges, source) = [v \in nodes |-> IF costs(v) = {} THEN None ELSE Min(costs(v))]
=============================================================================
