------------------------------- MODULE LabsMC -------------------------------
(***************************************************************************)
(* The programs of one thread in one run, which is the union of            *)
(* independent state spaces: the state machines of LabPrograms, the        *)
(* structures that keep state between calls, under every short sequence of *)
(* calls, and the pure algorithms, of which a state is an input.           *)
(***************************************************************************)
EXTENDS LabPrograms

CONSTANTS
  MaxCalls,      \* bound: calls of a data structure
  Elements,      \* number of elements of the disjoint sets
  Values,        \* number of values under the lazy sums
  MaxLength      \* bound: length of an array

VARIABLE problem
vars == <<problem, programs>>

-----------------------------------------------------------------------------
(* Inputs of the scheduler.                                                *)

Arguments(arrivals, bursts, priorities, policies, quanta, agings) ==
  [arrival : [Jobs -> arrivals], burst : [Jobs -> bursts], priority : [Jobs -> priorities],
   policy : policies, quantum : quanta, aging : agings]
SmallInputs ==
  Arguments({0, 1, 3}, {1, 2, 3}, {0}, {"fcfs", "sjf", "srtf"}, {1}, {FALSE})
  \cup Arguments({0, 1, 3}, {1, 2, 4}, {0}, {"rr"}, {1, 2}, {FALSE})
  \cup Arguments({0, 1, 4}, {1, 3}, {0, 2}, {"priority"}, {1}, BOOLEAN)

(* A chunk, the six around it, and those the mutations of one neighbour    *)
(* reach; positions on both sides of a boundary and of zero.               *)
Cross(c) == {c} \cup {[c EXCEPT ![i] = @ + d] : i \in 1 .. 3, d \in {-1, 1}}
FewChunks ==
  [c \in Cross(<<0, 0, 0>>) \cup (Cross(<<1, 0, 0>>) \ {<<2, 0, 0>>}) |->
     [solid |-> IF c = <<0, 0, 0>> THEN {<<1, 0, 0>>, <<1, 1, 0>>} ELSE {}, generation |-> 0]]
FewContents ==
  { <<<<2, 0, 0>>, {<<0, 0, 0>>}, 0>>, <<<<1, 0, 0>>, {<<0, 1, 0>>}, 0>>, <<<<1, 1, 1>>, {<<0, 0, 0>>}, 3>> }
FewPositions == {<<2, 0, 0>>, <<1, 0, 0>>, <<1, 0, 1>>, <<-1, 0, 0>>, <<3, 1, 1>>}
\* Boxes along a line through the boundaries, flat ones and ones of half a voxel.
LineBoxes == {[low |-> <<x, 0, z>>, high |-> <<x + w, 1, z + w>>] : x \in -5 .. 9, w \in {0, 1}, z \in {1, 2}}

\* The only question of the first version of the site is gone in the second.
TwoCatalogs == <<{1}, {2, 3}>>

A == INSTANCE Sorting
G == INSTANCE StaticSearch WITH Nodes <- 1 .. 4
T == INSTANCE StudyStructures
B == INSTANCE StudyTables
R == INSTANCE Refcount
K == INSTANCE Checkpoint
N == INSTANCE Balancer

-----------------------------------------------------------------------------
(* Inputs of the algorithms and the structures.                            *)

Records(keys) == [i \in DOMAIN keys |-> <<keys[i], i>>]
Sign(n) == IF n < 0 THEN -1 ELSE IF n > 0 THEN 1 ELSE 0
ByKey(n) == [e \in ((1 .. 3) \X (1 .. n)) \X ((1 .. 3) \X (1 .. n)) |-> Sign(e[1][1] - e[2][1])]
Arrays == UNION {[1 .. n -> 1 .. 3] : n \in 0 .. MaxLength}

Item(k) == <<k, k>>

\* Records sorted by their keys, and three items under any comparator.
SortProblems ==
  {[values |-> Records(a), cmp |-> ByKey(MaxLength)] : a \in Arrays}
  \cup {[values |-> v, cmp |-> c] :
          v \in {<<Item(3), Item(1), Item(2)>>},
          c \in [{Item(k) : k \in 1 .. 3} \X {Item(k) : k \in 1 .. 3} -> {-1, 0, 1}]}

Road == {<<1, 2>>, <<1, 3>>, <<3, 2>>, <<2, 4>>, <<3, 4>>}
OnRoad(w) == [e \in (1 .. 4) \X (1 .. 4) |-> IF e \in Road THEN w[e] ELSE -1]
SearchProblems ==
  {[cost |-> OnRoad(w), h |-> <<0, h2, h3, 0>>] :
     w \in [Road -> {-1, 0, 1, 3}], h2 \in {0, 3}, h3 \in {0, 3}}

\* Weighted graphs on 0 .. 3, the edges in ascending order of their weights.
TreeProblems ==
  LET pairs == <<<<0, 1>>, <<0, 2>>, <<0, 3>>, <<1, 2>>, <<1, 3>>, <<2, 3>>>> IN
  {T!SetToSortSeq({[weight |-> w[i], u |-> pairs[i][1], v |-> pairs[i][2]] : i \in DOMAIN pairs},
                  LAMBDA d, e : d.weight < e.weight \/ (d.weight = e.weight
                    /\ (d.u < e.u \/ (d.u = e.u /\ d.v < e.v)))) :
     w \in [1 .. 6 -> {-1, 2}]}

\* The edges of each node with cost 0 or 1, in the order of their targets.
DequeProblems ==
  LET out(w, u) == T!SetToSortSeq({[to |-> e[2], cost |-> w[e]] : e \in {d \in DOMAIN w : d[1] = u /\ w[d] >= 0}},
                                  LAMBDA d, e : d.to < e.to)
  IN {[u \in 1 .. 4 |-> out(w, u)] : w \in [Road \cup {<<2, 3>>} -> {-1, 0, 1}]}

\* Three backends of weights 2, 1, 1; the answer changes from the first two to the last
\* two, and C may be ill.  The id of the connection that is there is the next one's.
Balanced(strategies, caches, healths, supplied) ==
  {[weight |-> <<2, 1, 1>>, healthy |-> <<TRUE, TRUE, h>>, strategy |-> s, cache |-> c,
    answers |-> <<[at |-> 0, addresses |-> <<1, 2>>, ttl |-> 2], [at |-> 1, addresses |-> <<2, 3>>, ttl |-> 1]>>,
    supplied |-> p, maxStreams |-> 2] : s \in strategies, c \in caches, h \in healths, p \in supplied}
Connection == [id |-> 1, address |-> 1, createdAt |-> 0, reusableUntil |-> 2, maxStreams |-> 1, streams |-> 0]
BalancerInputs ==
  Balanced({"dns"}, BOOLEAN, BOOLEAN, {<<>>, <<Connection>>})
  \cup Balanced({"proxy-rr", "proxy-weighted", "proxy-least"}, {TRUE}, BOOLEAN, {<<>>})

\* An algorithm, or a structure made for the first call.
Given(name, problems) == lab = name /\ problem \in problems
Algorithms ==
  \/ Given("sort", SortProblems)
  \/ Given("search", SearchProblems)
  \/ Given("scan", Arrays)
  \/ Given("tree", TreeProblems)
  \/ Given("order", SUBSET (Road \cup {<<2, 3>>, <<4, 4>>, <<4, 3>>}))
  \/ Given("coins", {[coins |-> c, target |-> n] : c \in SUBSET (1 .. 4), n \in 0 .. 8})
  \/ Given("items", {[items |-> s, capacity |-> c] : s \in [1 .. 3 -> (1 .. 2) \X {1, 3}], c \in 0 .. 4})
  \/ Given("interval", {i \in (0 .. 30) \X (0 .. 30) : i[1] <= i[2]})
  \/ Given("deque", DequeProblems)
  \/ Given("dsu", {[dsu |-> T!NewDSU(Elements), kept |-> <<>>, calls |-> 0]})
  \/ Given("refcount", {[block |-> R!NewBlock, owned |-> 1, watched |-> 0]})
  \/ Given("checkpoint", {[c |-> K!StartAt(0), delivered |-> {}, completed |-> {}]})
  \/ Given("balancer", {N!Begun(i) : i \in BalancerInputs})
  \/ LET values == [i \in 1 .. Values |-> i] IN
     Given("sums", {[tree |-> T!NewLazySum(values), values |-> values, calls |-> 0]})

Init ==
  \/ InitPrograms /\ problem = 0
  \/ Algorithms /\ moves = 0 /\ NoPlanner /\ NoScheduler /\ NoWorld /\ NoDeck

Using(name) == lab = name /\ UNCHANGED programs
Calling(name) == Using(name) /\ problem.calls < MaxCalls

UnionCall(x, y) ==
  /\ Calling("dsu")
  /\ LET dsu == T!Union(problem.dsu, x, y) IN
     problem' = [dsu |-> dsu, calls |-> problem.calls + 1,
                 kept |-> IF dsu = problem.dsu THEN problem.kept ELSE Append(problem.kept, <<x, y>>)]

RollbackCall(mark) ==
  /\ Calling("dsu")
  /\ mark <= Len(problem.dsu.history)
  /\ problem' = [dsu |-> T!Rollback(problem.dsu, mark), calls |-> problem.calls + 1,
                 kept |-> SubSeq(problem.kept, 1, mark)]

AddCall(from, to, d) ==
  /\ Calling("sums")
  /\ problem' = [tree |-> T!Add(problem.tree, 1, 0, Values, from, to, d),
                 calls |-> problem.calls + 1,
                 values |-> [i \in 1 .. Values |->
                   problem.values[i] + IF from < i /\ i <= to THEN d ELSE 0]]

QueryCall(from, to) ==
  /\ Calling("sums")
  /\ problem' = [problem EXCEPT !.calls = @ + 1,
                                !.tree = T!Query(@, 1, 0, Values, from, to).t]

\* The owners of a shared object, each of which may make others.
OwnerCall ==
  /\ Using("refcount")
  /\ LET b == problem.block
         locks == b.strong > 0 IN
     \/ /\ problem.owned + problem.watched \in 1 .. Elements
        /\ problem' = [problem EXCEPT !.block = R!AddWeak(b), !.watched = @ + 1]
     \/ /\ problem.watched > 0 /\ problem.owned < Elements
        /\ problem' = [problem EXCEPT !.block = R!LockWeak(b), !.owned = IF locks THEN @ + 1 ELSE @]
     \/ /\ problem.owned > 0
        /\ problem' = [problem EXCEPT !.block = R!ReleaseStrong(b), !.owned = @ - 1]
     \/ /\ problem.watched > 0
        /\ problem' = [problem EXCEPT !.block = R!ReleaseWeak(b), !.watched = @ - 1]

\* Offsets are delivered in order, with gaps, and completed in any order.
CheckpointCall(offset) ==
  /\ Using("checkpoint")
  /\ \/ /\ K!CanDeliver(problem.c, offset)
        /\ problem' = [problem EXCEPT !.c = K!Delivered(@, offset), !.delivered = @ \cup {offset}]
     \/ /\ K!CanComplete(problem.c, offset)
        /\ problem' = [problem EXCEPT !.c = K!Completed(@, offset), !.completed = @ \cup {offset}]

\* The next request arrives, at once or later, and takes no time or more.
RequestCall(wait, service) ==
  /\ Using("balancer")
  /\ ~problem.failed /\ Len(problem.rows) < MaxCalls
  /\ problem' = N!Served(problem, problem.now + wait, service)

Next ==
  \/ NextPrograms /\ UNCHANGED problem
  \/ \E x, y \in 0 .. Elements - 1 : UnionCall(x, y)
  \/ \E mark \in 0 .. Elements : RollbackCall(mark)
  \/ \E from, to \in 0 .. Values : from <= to /\ \E d \in {-1, 2} : AddCall(from, to, d)
  \/ \E from, to \in 0 .. Values : from <= to /\ QueryCall(from, to)
  \/ OwnerCall
  \/ \E wait \in {0, 1, 2}, service \in {0, 1, 4} : RequestCall(wait, service)
  \/ \E offset \in 0 .. MaxLength : CheckpointCall(offset)

\* A call of a planner runs on until it returns.
FairSpec ==
  /\ Init /\ [][Next]_vars
  /\ WF_vars(ComputeLPA /\ UNCHANGED <<problem, scheduler, world, deck>>)
  /\ WF_vars(ComputeDStar /\ UNCHANGED <<problem, scheduler, world, deck>>)
-----------------------------------------------------------------------------
\* Structures that keep state agree with their definitions after every sequence of
\* calls: no rollback and no pending addition leaves a trace, no object outlives its
\* owners or dies before them, and no offset is committed before all that came first.
\* The balancer gives no stale answer and slots by weight, leaves no one idle while
\* another doubles up, and its counters tell what is under way.
StructuresTrue ==
  /\ lab = "dsu" => T!DsuTrue(problem.dsu, problem.kept, Elements)
  /\ lab = "sums" => T!LazySumTrue(problem.tree, problem.values)
  /\ lab = "refcount" => R!BlockTrue(problem.block, problem.owned, problem.watched)
  /\ lab = "checkpoint" => K!CheckpointTrue(problem.c, problem.delivered, problem.completed)
  /\ lab = "balancer" => N!RoutingTrue(problem)

\* The sorting algorithms and validate_order keep their contracts under every
\* comparator, and the scans, trees and tables of the study scripts agree with their
\* definitions: none reads a place it has overwritten too early.  The searches of a
\* graph agree with its distances, and the schedule of srtf has the least total of all.
AlgorithmsTrue ==
  /\ lab = "sort" => A!SortsAsPromised(problem.cmp, problem.values)
  /\ lab = "scan" => T!ScansTrue(problem)
                     /\ B!CountSortTrue([i \in DOMAIN problem |-> <<problem[i] - 1, i>>], 3)
  /\ lab = "tree" => T!MstTrue(problem, 4)
  /\ lab = "order" => T!TopologicalTrue(1 .. 4, problem)
  /\ lab = "coins" => B!CoinsTrue(problem.coins, problem.target)
  /\ lab = "items" => B!KnapsackTrue(problem.items, problem.capacity)
  /\ lab = "interval" => B!SegmentTrue(problem[1], problem[2])
  /\ lab = "deque" => B!ZeroOneTrue(problem, 1)
  /\ lab = "search" => G!SearchesAgree(problem.cost, 1, 4, problem.h)
  /\ lab = "scheduler" => S!LeastTotalReached
=============================================================================
