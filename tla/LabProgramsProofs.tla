------------------------- MODULE LabProgramsProofs -------------------------
(***************************************************************************)
(* Theorems about the planners, the scheduler, the voxel world and the     *)
(* question deck, for every graph, heuristic, set of jobs, world, catalog  *)
(* and bound the assumptions of their modules admit.                       *)
(*                                                                         *)
(* A planner may be repaired because a step that changes the g of a node,  *)
(* or the cost of an edge, looks up again the nodes whose rhs reads it,    *)
(* and queues those left inconsistent.  Every entry's key is the node's    *)
(* present one then; D* Lite, whose start moves, adds the distance moved   *)
(* to later keys, and by the triangle inequality the keys already queued   *)
(* stay at most the present ones.                                          *)
(*                                                                         *)
(* A timeline is sound because the list of ready jobs holds each job that  *)
(* has come and is not done, once, at every turn: so the clock waits only  *)
(* for jobs to come, and the job that runs has come and has work left.     *)
(* Its segments follow each other without a gap, so that a unit of time    *)
(* belongs to one of them, and a turn adds its units to one job.           *)
(*                                                                         *)
(* Round robin is fair because the list cannot hold more than all jobs,    *)
(* and whoever is in it has waited no longer than a quantum for each place *)
(* it is not the last: a turn moves everybody up by a place and lasts no   *)
(* longer than a quantum.  The others pass nobody by because a job that is *)
(* ahead of another comes into the list no later and, as both age by the   *)
(* same clock, has the better rank at every turn.                          *)
(*                                                                         *)
(* A round of the deck is true because a page that waits takes no click,   *)
(* and what a page shows, or fetches to show, has left its deck; a page    *)
(* restored from the cache may break this, and a round it draws in is not  *)
(* counted.                                                                *)
(*                                                                         *)
(* A face of a mesh looks at voxels of its chunk or of the six next to it, *)
(* which is a fact about division; next to is symmetric, so set_solid,     *)
(* which marks the chunk it changes and those next to it, marks every      *)
(* chunk whose mesh could change.                                          *)
(***************************************************************************)
EXTENDS LabPrograms, PathGraphProofs

-----------------------------------------------------------------------------
(* LPA*.                                                                   *)

LEMMA LeastL ==
  ASSUME NEW C \in SUBSET L!Cost
  PROVE  L!Least(C) \in L!Cost
<1>1. CASE \A x \in C : x = L!Inf
  BY <1>1 DEF L!Least, L!Cost
<1>2. CASE \E x \in C : x # L!Inf
  <2> DEFINE N == C \ {L!Inf}
  <2>1. N \in SUBSET Nat /\ N # {}
    BY <1>2 DEF L!Cost
  <2>2. PICK m \in N : \A x \in N : m <= x
    BY <2>1, LeastOf
  <2>3. \A x \in C : ~L!Less(x, m)
    BY <2>1, <2>2 DEF L!Less, L!Inf
  <2>4. L!Least(C) \in C
    BY <1>2, <2>3 DEF L!Least
  <2> QED BY <2>4
<1> QED BY <1>1, <1>2

LEMMA SumL == ASSUME NEW a \in L!Cost, NEW b \in L!Cost PROVE L!CheckedAdd(a, b) \in L!Cost
BY DEF L!CheckedAdd, L!Cost, L!Inf

LEMMA LookaheadL ==
  ASSUME L!SearchTypeOK, NEW gs \in [Nodes -> L!Cost], NEW v \in Nodes
  PROVE  L!Lookahead(gs, v) \in L!Cost
<1> DEFINE C == {L!CheckedAdd(gs[u], cost[<<u, v>>]) : u \in L!Predecessors(cost, v)}
<1>1. C \in SUBSET L!Cost
  <2> SUFFICES ASSUME NEW u \in L!Predecessors(cost, v)
               PROVE  L!CheckedAdd(gs[u], cost[<<u, v>>]) \in L!Cost
    OBVIOUS
  <2>1. u \in Nodes /\ <<u, v>> \in Nodes \X Nodes
    BY DEF L!Predecessors
  <2>2. gs[u] \in L!Cost /\ cost[<<u, v>>] \in L!Cost
    BY <2>1 DEF L!SearchTypeOK, L!Graphs
  <2> QED BY <2>2, SumL
<1> HIDE DEF C
<1>2. L!Least(C) \in L!Cost
  BY <1>1, LeastL
<1>3. L!Lookahead(gs, v) = IF v = Start THEN 0 ELSE L!Least(C)
  BY DEF L!Lookahead, C
<1> QED BY <1>2, <1>3 DEF L!Cost

LEMMA KeyL ==
  ASSUME NEW gs \in [Nodes -> L!Cost], NEW rs \in [Nodes -> L!Cost], NEW v \in Nodes
  PROVE  L!KeyOf(gs, rs, v) \in L!Cost \X L!Cost
<1>1. {gs[v], rs[v]} \in SUBSET L!Cost
  OBVIOUS
<1>2. PICK base \in L!Cost : base = L!Least({gs[v], rs[v]})
  BY <1>1, LeastL
<1>3. Heuristic[<<v, Goal>>] \in L!Cost
  BY PlannerAssumption DEF L!Cost
<1>4. L!CheckedAdd(base, Heuristic[<<v, Goal>>]) \in L!Cost
  BY <1>2, <1>3, SumL
<1> QED BY <1>2, <1>4 DEF L!KeyOf

\* What UpdateVertices does: rhs is looked up for every node of changed, and
\* those of them that are inconsistent are queued.
LEMMA UpdateL ==
  ASSUME L!SearchTypeOK, NEW gs \in [Nodes -> L!Cost], NEW changed \in SUBSET Nodes,
         NEW entries \in SUBSET [key : L!Cost \X L!Cost, node : Nodes],
         L!UpdateVertices(gs, changed, entries), UNCHANGED cost
  PROVE  /\ g' = gs /\ rhs' \in [Nodes -> L!Cost]
         /\ queue' \subseteq [key : L!Cost \X L!Cost, node : Nodes]
         /\ entries \subseteq queue'
         /\ \A v \in changed :
              /\ rhs'[v] = L!Lookahead(g, v)'
              /\ gs[v] # rhs'[v] => [key |-> L!Key(v)', node |-> v] \in queue'
         /\ \A v \in Nodes \ changed : rhs'[v] = rhs[v]
<1>1. /\ g' = gs
      /\ rhs' = [v \in Nodes |-> IF v \in changed THEN L!Lookahead(gs, v) ELSE rhs[v]]
      /\ queue' = entries \cup {[key |-> L!KeyOf(gs, rhs', v), node |-> v] :
                                 v \in {x \in changed : gs[x] # rhs'[x]}}
  BY DEF L!UpdateVertices
<1>2. rhs' \in [Nodes -> L!Cost]
  BY <1>1, LookaheadL DEF L!SearchTypeOK
<1>3. \A v \in Nodes : [key |-> L!KeyOf(gs, rhs', v), node |-> v] \in [key : L!Cost \X L!Cost, node : Nodes]
  BY <1>2, KeyL
<1>4. queue' \subseteq [key : L!Cost \X L!Cost, node : Nodes] /\ entries \subseteq queue'
  BY <1>1, <1>3
<1>5. ASSUME NEW v \in changed
      PROVE  /\ rhs'[v] = L!Lookahead(g, v)'
             /\ gs[v] # rhs'[v] => [key |-> L!Key(v)', node |-> v] \in queue'
  <2>1. L!Lookahead(g, v)' = L!Lookahead(gs, v)
    BY <1>1 DEF L!Lookahead
  <2>2. L!Key(v)' = L!KeyOf(gs, rhs', v)
    BY <1>1 DEF L!Key, L!KeyOf
  <2> QED BY <1>1, <2>1, <2>2
<1> QED BY <1>1, <1>2, <1>4, <1>5

\* An update of every node whose neighbours changed keeps the search repairable.
LEMMA RepairL ==
  ASSUME L!TypeOK, L!Repairable, NEW gs \in [Nodes -> L!Cost], NEW changed \in SUBSET Nodes,
         NEW entries \in SUBSET queue,
         L!UpdateVertices(gs, changed, entries), UNCHANGED cost,
         \A v \in Nodes \ changed : L!Lookahead(gs, v) = L!Lookahead(g, v),
         \A v \in Nodes \ changed : gs[v] = g[v] \/ gs[v] = rhs[v],
         \A e \in queue \ entries : e.node \notin changed => gs[e.node] = rhs[e.node],
         \A v \in Nodes \ changed : \A u \in Nodes : <<u, v>> \in unnotified => <<u, v>> \in unnotified'
  PROVE  /\ g' \in [Nodes -> L!Cost] /\ rhs' \in [Nodes -> L!Cost]
         /\ queue' \subseteq [key : L!Cost \X L!Cost, node : Nodes]
         /\ L!Repairable'
<1>1. entries \in SUBSET [key : L!Cost \X L!Cost, node : Nodes] /\ L!SearchTypeOK
  BY DEF L!TypeOK, L!SearchTypeOK
<1>2. /\ g' = gs /\ rhs' \in [Nodes -> L!Cost]
      /\ queue' \subseteq [key : L!Cost \X L!Cost, node : Nodes]
      /\ entries \subseteq queue'
      /\ \A v \in changed :
           /\ rhs'[v] = L!Lookahead(g, v)'
           /\ gs[v] # rhs'[v] => [key |-> L!Key(v)', node |-> v] \in queue'
      /\ \A v \in Nodes \ changed : rhs'[v] = rhs[v]
  BY <1>1, UpdateL
<1>3. ASSUME NEW v \in Nodes, \A u \in Nodes : <<u, v>> \notin unnotified'
      PROVE  rhs'[v] = L!Lookahead(g, v)'
  <2>1. CASE v \in changed
    BY <1>2, <2>1
  <2>2. CASE v \notin changed
    <3>1. \A u \in Nodes : <<u, v>> \notin unnotified
      BY <1>3, <2>2
    <3>2. rhs[v] = L!Lookahead(gs, v)
      BY <2>2, <3>1 DEF L!Repairable
    <3>3. L!Lookahead(g, v)' = L!Lookahead(gs, v)
      BY <1>2 DEF L!Lookahead
    <3> QED BY <1>2, <2>2, <3>2, <3>3
  <2> QED BY <2>1, <2>2
<1>4. ASSUME NEW v \in Nodes, g'[v] # rhs'[v]
      PROVE  [key |-> L!Key(v)', node |-> v] \in queue'
  <2>1. CASE v \in changed
    BY <1>2, <1>4, <2>1
  <2>2. CASE v \notin changed
    <3> DEFINE e == [key |-> L!Key(v), node |-> v]
    <3>1. rhs'[v] = rhs[v] /\ g'[v] = g[v]
      BY <1>2, <1>4, <2>2
    <3>2. e \in queue
      BY <1>4, <3>1 DEF L!Repairable
    <3>3. e \in entries
      BY <1>2, <1>4, <2>2, <3>1, <3>2
    <3>4. L!Key(v)' = L!Key(v)
      BY <3>1 DEF L!Key, L!KeyOf
    <3> QED BY <1>2, <3>3, <3>4
  <2> QED BY <2>1, <2>2
<1>5. ~L!Exhausted'
  BY <1>4, PlannerAssumption DEF L!Exhausted
<1>6. L!Repairable'
  BY <1>3, <1>4, <1>5 DEF L!Repairable
<1> QED BY <1>2, <1>6

\* Raising or lowering g at one node changes the lookahead of its successors only.
LEMMA SuccessorsL ==
  ASSUME L!TypeOK, NEW x \in Nodes, NEW c \in L!Cost, NEW v \in Nodes, v \notin L!Successors(cost, x)
  PROVE  L!Lookahead([g EXCEPT ![x] = c], v) = L!Lookahead(g, v)
<1> DEFINE gs == [g EXCEPT ![x] = c]
           sum(h) == {L!CheckedAdd(h[u], cost[<<u, v>>]) : u \in L!Predecessors(cost, v)}
<1>1. g \in [Nodes -> L!Cost]
  BY DEF L!TypeOK, L!SearchTypeOK
<1>2. ASSUME NEW u \in L!Predecessors(cost, v) PROVE gs[u] = g[u]
  BY <1>1, <1>2 DEF L!Predecessors, L!Successors
<1>3. sum(gs) = sum(g)
  BY <1>2
<1> QED BY <1>3 DEF L!Lookahead

LEMMA PlanInitL == L!Init => L!TypeOK /\ L!Repairable
<1> SUFFICES ASSUME L!Init PROVE L!TypeOK /\ L!Repairable
  OBVIOUS
<1>1. /\ cost \in FirstGraphs /\ unnotified = {} /\ changes = 0
      /\ g = [v \in Nodes |-> L!Inf]
      /\ rhs = [v \in Nodes |-> IF v = Start THEN 0 ELSE L!Inf]
      /\ queue = {[key |-> <<Heuristic[<<Start, Goal>>], 0>>, node |-> Start]}
      /\ phase = "searching"
  BY DEF L!Init, L!InitGraph
<1>2. Start \in Nodes /\ Goal \in Nodes /\ MaxChanges \in Nat /\ Heuristic[<<Start, Goal>>] \in Nat /\ FirstGraphs \subseteq Graphs
  BY PlannerAssumption
<1>3. L!TypeOK
  <2>1. cost \in L!Graphs
    BY <1>1, <1>2 DEF L!Graphs, Graphs, L!Cost, Cost, L!Inf, Inf
  <2>2. g \in [Nodes -> L!Cost] /\ rhs \in [Nodes -> L!Cost]
    BY <1>1 DEF L!Cost
  <2>3. queue \subseteq [key : L!Cost \X L!Cost, node : Nodes]
    BY <1>1, <1>2 DEF L!Cost
  <2>4. changes \in 0 .. MaxChanges /\ unnotified \subseteq Nodes \X Nodes /\ phase \in {"searching", "idle"}
    BY <1>1, <1>2
  <2> QED BY <2>1, <2>2, <2>3, <2>4 DEF L!TypeOK, L!SearchTypeOK
<1>4. ASSUME NEW v \in Nodes PROVE rhs[v] = L!Lookahead(g, v)
  <2>1. CASE v = Start
    BY <1>1, <2>1 DEF L!Lookahead
  <2>2. CASE v # Start
    <3> DEFINE C == {L!CheckedAdd(g[u], cost[<<u, v>>]) : u \in L!Predecessors(cost, v)}
    <3>1. \A x \in C : x = L!Inf
      BY <1>1 DEF L!CheckedAdd, L!Predecessors
    <3>2. L!Least(C) = L!Inf
      BY <3>1 DEF L!Least
    <3> QED BY <1>1, <2>2, <3>2 DEF L!Lookahead
  <2> QED BY <2>1, <2>2
<1>5. ASSUME NEW v \in Nodes, g[v] # rhs[v] PROVE [key |-> L!Key(v), node |-> v] \in queue
  <2>1. v = Start
    BY <1>1, <1>5
  <2>2. g[v] = L!Inf /\ rhs[v] = 0
    BY <1>1, <2>1
  <2>3. L!Least({g[v], rhs[v]}) = 0
    BY <2>2 DEF L!Least, L!Less, L!Inf
  <2>4. L!Key(v) = <<Heuristic[<<Start, Goal>>], 0>>
    <3>1. L!CheckedAdd(0, Heuristic[<<v, Goal>>]) = Heuristic[<<Start, Goal>>]
      BY <1>2, <2>1 DEF L!CheckedAdd, L!Inf
    <3> QED BY <2>3, <3>1 DEF L!Key, L!KeyOf
  <2> QED BY <1>1, <2>1, <2>4
<1>6. ~L!Exhausted
  BY <1>1 DEF L!Exhausted
<1> QED BY <1>3, <1>4, <1>5, <1>6 DEF L!Repairable

LEMMA PlanNextL ==
  ASSUME L!TypeOK, L!Repairable, L!Next
  PROVE  L!TypeOK' /\ L!Repairable'
<1>1. ASSUME NEW u \in Nodes, NEW v \in Nodes, L!NotifyEdgeChange(u, v)
      PROVE  L!TypeOK' /\ L!Repairable'
  <2>1. L!UpdateVertices(g, {v}, queue) /\ UNCHANGED <<cost, changes>>
        /\ unnotified' = unnotified \ {<<u, v>>} /\ phase' = "searching"
    BY <1>1 DEF L!NotifyEdgeChange, L!Notified
  <2>2. g \in [Nodes -> L!Cost]
    BY DEF L!TypeOK, L!SearchTypeOK
  <2>3. \A w \in Nodes \ {v} : \A y \in Nodes : <<y, w>> \in unnotified => <<y, w>> \in unnotified'
    BY <2>1
  <2>4. /\ g' \in [Nodes -> L!Cost] /\ rhs' \in [Nodes -> L!Cost]
        /\ queue' \subseteq [key : L!Cost \X L!Cost, node : Nodes]
        /\ L!Repairable'
    BY <2>1, <2>2, <2>3, RepairL
  <2> QED BY <2>1, <2>4 DEF L!TypeOK, L!SearchTypeOK
<1>2. ASSUME NEW u \in Nodes, NEW v \in Nodes, NEW c \in EdgeCosts[<<u, v>>], L!ChangeEdge(u, v, c)
      PROVE  L!TypeOK' /\ L!Repairable'
  <2>1. /\ UNCHANGED <<g, rhs, queue, phase>> /\ changes' = changes + 1 /\ changes < MaxChanges
        /\ unnotified' = unnotified \cup {<<u, v>>} /\ cost' = [cost EXCEPT ![<<u, v>>] = c]
    BY <1>2 DEF L!ChangeEdge, L!search, L!SetEdge
  <2>2. c \in L!Cost
    BY PlannerAssumption DEF L!Cost, Cost, L!Inf, Inf
  <2>3. changes' \in 0 .. MaxChanges
    <3>1. MaxChanges \in Nat /\ changes \in 0 .. MaxChanges
      BY PlannerAssumption DEF L!TypeOK, L!SearchTypeOK
    <3> QED BY <2>1, <3>1
  <2>4. cost \in [Nodes \X Nodes -> L!Cost] /\ cost' \in [Nodes \X Nodes -> L!Cost]
    BY <2>1, <2>2 DEF L!TypeOK, L!SearchTypeOK, L!Graphs
  <2>5. L!TypeOK'
    BY <2>1, <2>3, <2>4 DEF L!TypeOK, L!SearchTypeOK, L!Graphs
  <2>6. ASSUME NEW w \in Nodes, \A y \in Nodes : <<y, w>> \notin unnotified'
        PROVE  rhs'[w] = L!Lookahead(g, w)'
    <3>1. w # v /\ \A y \in Nodes : <<y, w>> \notin unnotified
      BY <2>1, <2>6
    <3>2. \A y \in Nodes : cost'[<<y, w>>] = cost[<<y, w>>]
      BY <2>1, <2>4, <3>1
    <3>3. L!Predecessors(cost, w)' = L!Predecessors(cost, w)
      BY <3>2 DEF L!Predecessors
    <3>4. \A y \in L!Predecessors(cost, w) : cost'[<<y, w>>] = cost[<<y, w>>]
      BY <3>2 DEF L!Predecessors
    <3>5. L!Lookahead(g, w)' = L!Lookahead(g, w)
      BY <2>1, <3>3, <3>4 DEF L!Lookahead
    <3> QED BY <2>1, <3>1, <3>5 DEF L!Repairable
  <2>7. \A w \in Nodes : L!Key(w)' = L!Key(w)
    BY <2>1 DEF L!Key, L!KeyOf
  <2>8. ~L!Exhausted'
    BY <2>1 DEF L!Repairable, L!Exhausted
  <2> QED BY <2>1, <2>5, <2>6, <2>7, <2>8 DEF L!Repairable
<1>3. ASSUME NEW e \in queue, L!DropConsistent(e) \/ L!PushAgain(e)
      PROVE  L!TypeOK' /\ L!Repairable'
  <2> DEFINE new == [key |-> L!Key(e.node), node |-> e.node]
  <2>1. UNCHANGED <<cost, unnotified, changes, g, rhs, phase>>
    BY <1>3 DEF L!DropConsistent, L!PushAgain, L!graph
  <2>2. \/ g[e.node] = rhs[e.node] /\ queue' = queue \ {e}
        \/ e.key # L!Key(e.node) /\ queue' = (queue \ {e}) \cup {new}
    BY <1>3 DEF L!DropConsistent, L!PushAgain
  <2>3. e \in [key : L!Cost \X L!Cost, node : Nodes]
    BY DEF L!TypeOK, L!SearchTypeOK
  <2>4. new \in [key : L!Cost \X L!Cost, node : Nodes]
    BY <2>3, KeyL DEF L!TypeOK, L!SearchTypeOK, L!Key
  <2>5. L!TypeOK'
    BY <2>1, <2>2, <2>4 DEF L!TypeOK, L!SearchTypeOK
  <2>6. \A w \in Nodes : L!Key(w)' = L!Key(w) /\ L!Lookahead(g, w)' = L!Lookahead(g, w)
    BY <2>1 DEF L!Key, L!KeyOf, L!Lookahead
  <2>7. ASSUME NEW w \in Nodes, g[w] # rhs[w] PROVE [key |-> L!Key(w), node |-> w] \in queue'
    <3>1. [key |-> L!Key(w), node |-> w] \in queue
      BY <2>7 DEF L!Repairable
    <3>2. [key |-> L!Key(w), node |-> w] # e
      BY <2>2, <2>7 DEF L!PushAgain
    <3> QED BY <2>2, <3>1, <3>2
  <2>8. ~L!Exhausted'
    BY <2>1, <2>7, PlannerAssumption DEF L!Exhausted
  <2> QED BY <2>1, <2>5, <2>6, <2>7, <2>8 DEF L!Repairable
<1>4. ASSUME NEW e \in queue, L!Lower(e) \/ L!Raise(e)
      PROVE  L!TypeOK' /\ L!Repairable'
  <2>1. e.node \in Nodes /\ g \in [Nodes -> L!Cost] /\ rhs \in [Nodes -> L!Cost]
    BY DEF L!TypeOK, L!SearchTypeOK
  <2>2. PICK c \in L!Cost, changed \in SUBSET Nodes :
          /\ L!UpdateVertices([g EXCEPT ![e.node] = c], changed, queue \ {e})
          /\ L!Successors(cost, e.node) \subseteq changed
          /\ c = rhs[e.node] \/ e.node \in changed
    <3>1. CASE L!Lower(e)
      <4>1. rhs[e.node] \in L!Cost /\ L!Successors(cost, e.node) \in SUBSET Nodes
        BY <2>1 DEF L!Successors
      <4> QED BY <3>1, <4>1 DEF L!Lower
    <3>2. CASE L!Raise(e)
      <4>1. L!Inf \in L!Cost /\ L!Successors(cost, e.node) \cup {e.node} \in SUBSET Nodes
        BY <2>1 DEF L!Successors, L!Cost
      <4> QED BY <3>2, <4>1 DEF L!Raise
    <3> QED BY <1>4, <3>1, <3>2
  <2>3. UNCHANGED <<cost, unnotified, changes, phase>>
    BY <1>4 DEF L!Lower, L!Raise, L!graph
  <2>4. PICK gs \in [Nodes -> L!Cost] : gs = [g EXCEPT ![e.node] = c]
    BY <2>1
  <2>5. ASSUME NEW v \in Nodes \ changed
        PROVE  L!Lookahead(gs, v) = L!Lookahead(g, v)
    <3>1. v \notin L!Successors(cost, e.node)
      BY <2>2
    <3>2. L!Lookahead([g EXCEPT ![e.node] = c], v) = L!Lookahead(g, v)
      BY <2>1, <3>1, SuccessorsL
    <3> QED BY <2>4, <3>2
  <2>6. \A v \in Nodes \ changed : gs[v] = g[v] \/ gs[v] = rhs[v]
    BY <2>1, <2>2, <2>4
  <2>7. \A d \in queue \ (queue \ {e}) : d.node \notin changed => gs[d.node] = rhs[d.node]
    BY <2>1, <2>2, <2>4
  <2>8. L!UpdateVertices(gs, changed, queue \ {e})
    BY <2>2, <2>4
  <2>9. PICK entries \in SUBSET queue : entries = queue \ {e}
    OBVIOUS
  <2>10. /\ g' \in [Nodes -> L!Cost] /\ rhs' \in [Nodes -> L!Cost]
         /\ queue' \subseteq [key : L!Cost \X L!Cost, node : Nodes]
         /\ L!Repairable'
    BY <2>3, <2>5, <2>6, <2>7, <2>8, <2>9, RepairL
  <2> QED BY <2>3, <2>10 DEF L!TypeOK, L!SearchTypeOK
<1>5. CASE L!Return
  <2>1. UNCHANGED <<cost, unnotified, changes, g, rhs, queue>> /\ phase' = "idle"
    BY <1>5 DEF L!Return, L!graph, L!search
  <2>2. L!TypeOK'
    BY <2>1 DEF L!TypeOK, L!SearchTypeOK
  <2>3. \A w \in Nodes : L!Key(w)' = L!Key(w) /\ L!Lookahead(g, w)' = L!Lookahead(g, w)
    BY <2>1 DEF L!Key, L!KeyOf, L!Lookahead
  <2>4. ~L!Exhausted'
    BY <2>1 DEF L!Exhausted
  <2> QED BY <2>1, <2>2, <2>3, <2>4 DEF L!Repairable
<1> QED BY <1>1, <1>2, <1>3, <1>4, <1>5 DEF L!Next, L!Compute

\* Least is a least number, if there is any.
LEMMA LeastIsL ==
  ASSUME NEW C \in SUBSET L!Cost
  PROVE  /\ L!Least(C) \in Nat => L!Least(C) \in C
         /\ \A x \in C : x \in Nat => L!Least(C) \in Nat /\ L!Least(C) <= x
<1>1. CASE \A x \in C : x = L!Inf
  BY <1>1 DEF L!Least, L!Inf
<1>2. CASE \E x \in C : x # L!Inf
  <2> DEFINE N == C \ {L!Inf}
  <2>1. N \in SUBSET Nat /\ N # {}
    BY <1>2 DEF L!Cost
  <2>2. PICK m \in N : \A x \in N : m <= x
    BY <2>1, LeastOf
  <2>3. \A x \in C : ~L!Less(x, m)
    BY <2>1, <2>2 DEF L!Less, L!Inf
  <2>4. PICK n \in C : n = L!Least(C) /\ \A x \in C : ~L!Less(x, n)
    BY <1>2, <2>3 DEF L!Least
  <2>5. n # L!Inf
    BY <1>2, <2>4 DEF L!Less
  <2>6. n \in Nat
    BY <2>4, <2>5 DEF L!Cost
  <2>7. \A x \in C : x \in Nat => n <= x
    BY <2>4, <2>6 DEF L!Less, L!Inf
  <2> QED BY <2>4, <2>6, <2>7
<1> QED BY <1>1, <1>2

LEMMA NumberL == \A c \in L!Cost : c # L!Inf <=> c \in Nat
BY DEF L!Cost, L!Inf

LEMMA AddedL ==
  ASSUME NEW a \in L!Cost, NEW b \in L!Cost
  PROVE  /\ L!CheckedAdd(a, b) \in Nat <=> a \in Nat /\ b \in Nat
         /\ a \in Nat /\ b \in Nat => L!CheckedAdd(a, b) = a + b
BY DEF L!CheckedAdd, L!Cost, L!Inf

\* Looking every node up is one relaxation.
LEMMA RelaxesL ==
  ASSUME L!SearchTypeOK, NEW gs \in [Nodes -> L!Cost], NEW rs,
         \A v \in Nodes : rs[v] = L!Lookahead(gs, v)
  PROVE  Relaxes(cost, Start, gs, rs)
<1> DEFINE C(v) == {L!CheckedAdd(gs[u], cost[<<u, v>>]) : u \in L!Predecessors(cost, v)}
<1>1. \A u, v \in Nodes : gs[u] \in L!Cost /\ cost[<<u, v>>] \in L!Cost
  BY DEF L!SearchTypeOK, L!Graphs
<1>2. \A v \in Nodes : C(v) \in SUBSET L!Cost
  BY <1>1, SumL DEF L!Predecessors
<1>3. \A v \in Nodes : v # Start => rs[v] = L!Least(C(v))
  BY DEF L!Lookahead
<1>4. rs[Start] = 0
  BY PlannerAssumption DEF L!Lookahead
<1>5. ASSUME NEW u \in Nodes, NEW v \in Nodes, v # Start, gs[u] \in Nat, cost[<<u, v>>] \in Nat
      PROVE  rs[v] \in Nat /\ rs[v] <= gs[u] + cost[<<u, v>>]
  <2>1. u \in L!Predecessors(cost, v)
    BY <1>1, <1>5, NumberL DEF L!Predecessors
  <2>2. PICK x \in C(v) : x = gs[u] + cost[<<u, v>>] /\ x \in Nat
    <3>1. L!CheckedAdd(gs[u], cost[<<u, v>>]) = gs[u] + cost[<<u, v>>]
      BY <1>1, <1>5, AddedL
    <3>2. L!CheckedAdd(gs[u], cost[<<u, v>>]) \in C(v)
      BY <2>1
    <3> HIDE DEF C
    <3> QED BY <1>5, <3>1, <3>2
  <2> HIDE DEF C
  <2>3. L!Least(C(v)) \in Nat /\ L!Least(C(v)) <= x
    BY <1>2, <2>2, LeastIsL
  <2> QED BY <1>3, <1>5, <2>2, <2>3
<1>6. ASSUME NEW v \in Nodes, v # Start, rs[v] \in Nat
      PROVE  \E u \in Nodes : gs[u] \in Nat /\ cost[<<u, v>>] \in Nat /\ rs[v] = gs[u] + cost[<<u, v>>]
  <2>1. rs[v] \in C(v)
    <3> HIDE DEF C
    <3> QED BY <1>2, <1>3, <1>6, LeastIsL
  <2>2. PICK u \in L!Predecessors(cost, v) : rs[v] = L!CheckedAdd(gs[u], cost[<<u, v>>])
    BY <2>1
  <2>3. u \in Nodes
    BY DEF L!Predecessors
  <2>4. PICK x \in L!Cost, y \in L!Cost : x = gs[u] /\ y = cost[<<u, v>>]
    BY <1>1, <2>3
  <2>5. L!CheckedAdd(x, y) \in Nat
    BY <1>6, <2>2, <2>4
  <2>6. x \in Nat /\ y \in Nat /\ L!CheckedAdd(x, y) = x + y
    BY <2>5, AddedL
  <2> HIDE DEF C
  <2> QED BY <2>2, <2>3, <2>4, <2>6
<1> HIDE DEF C
<1> QED BY <1>4, <1>5, <1>6 DEF Relaxes

\* The heuristic is consistent for every graph the planner may get to see.
EdgesKnown ==
  \A u, v \in Nodes : cost[<<u, v>>] \in EdgeCosts[<<u, v>>] \cup {w[<<u, v>>] : w \in FirstGraphs}

LEMMA BoundedL ==
  ASSUME L!SearchTypeOK, EdgesKnown, NEW h, \A v \in Nodes : h[v] = Heuristic[<<v, Goal>>]
  PROVE  Bounded(cost, h, Goal)
<1>1. h[Goal] = 0 /\ \A v \in Nodes : h[v] \in Nat
  BY PlannerAssumption, PlannersAssumption DEF L!ConsistentHeuristic
<1>2. ASSUME NEW u \in Nodes, NEW v \in Nodes, cost[<<u, v>>] \in Nat
      PROVE  cost[<<u, v>>] > 0 /\ h[u] <= cost[<<u, v>>] + h[v]
  <2>1. PICK c \in EdgeCosts[<<u, v>>] \cup {w[<<u, v>>] : w \in FirstGraphs} : c = cost[<<u, v>>]
    BY DEF EdgesKnown
  <2>2. c # 0
    BY PlannerAssumption
  <2>3. c = L!Inf \/ h[u] - h[v] <= c
    BY PlannersAssumption DEF L!ConsistentHeuristic, L!Above
  <2> QED BY <1>1, <1>2, <2>1, <2>2, <2>3 DEF L!Inf
<1> QED BY <1>1, <1>2 DEF Bounded

\* A call returns only when no inconsistent node is in front of the goal.
SettledL ==
  phase = "idle" => /\ rhs[Goal] = g[Goal]
                    /\ \A v \in Nodes : g[v] # rhs[v] => ~L!KeyLess(L!Key(v), L!Key(Goal))

\* What the keys say of the nodes behind the goal.
LEMMA BehindL ==
  ASSUME L!SearchTypeOK, SettledL, phase = "idle",
         NEW h, \A v \in Nodes : h[v] = Heuristic[<<v, Goal>>]
  PROVE  Behind(g, rhs, h, Goal)
<1>1. \A v \in Nodes : g[v] \in L!Cost /\ rhs[v] \in L!Cost /\ h[v] \in Nat
  BY PlannerAssumption DEF L!SearchTypeOK
<1>2. h[Goal] = 0 /\ Goal \in Nodes /\ g[Goal] = rhs[Goal]
  BY PlannerAssumption, PlannersAssumption DEF L!ConsistentHeuristic, SettledL
<1>3. ASSUME NEW v \in Nodes, g[v] # rhs[v], NEW y \in {g[v], rhs[v]}, y \in Nat
      PROVE  g[Goal] \in Nat /\ g[Goal] <= y + h[v] /\ (g[Goal] = y + h[v] => g[Goal] <= y)
  <2>1. PICK x : x = L!Least({g[v], rhs[v]})
    OBVIOUS
  <2>2. x \in Nat /\ x <= y
    BY <1>1, <1>3, <2>1, LeastIsL
  <2>3. L!Key(v) = <<x + h[v], x>>
    <3>1. Heuristic[<<v, Goal>>] = h[v] /\ h[v] \in L!Cost /\ x \in L!Cost
      BY <1>1, <2>2 DEF L!Cost
    <3>2. L!CheckedAdd(x, Heuristic[<<v, Goal>>]) = x + h[v]
      BY <1>1, <2>2, <3>1, AddedL
    <3> QED BY <2>1, <3>2 DEF L!Key, L!KeyOf
  <2>4. PICK G \in L!Cost : G = g[Goal]
    BY <1>1, <1>2
  <2>5. L!Least({G, G}) = G
    BY <2>4, NumberL, LeastIsL DEF L!Least
  <2>6. L!Key(Goal) = <<G, G>>
    <3>1. L!CheckedAdd(G, 0) = G
      BY DEF L!CheckedAdd, L!Cost, L!Inf
    <3> QED BY <1>2, <2>4, <2>5, <3>1 DEF L!Key, L!KeyOf
  <2>7. ~L!KeyLess(<<x + h[v], x>>, <<G, G>>)
    BY <1>3, <2>3, <2>6 DEF SettledL
  <2>8. PICK i \in Nat : i = h[v]
    BY <1>1
  <2>9. G \in Nat /\ G <= x + i /\ (G = x + i => G <= x)
    BY <2>2, <2>4, <2>7, <2>8 DEF L!KeyLess, L!Less, L!Cost, L!Inf
  <2> QED BY <1>1, <1>3, <2>2, <2>4, <2>8, <2>9
<1> QED BY <1>2, <1>3 DEF Behind

\* A planner that has settled knows the distance.
LEMMA DistanceL ==
  ASSUME L!TypeOK, L!Repairable, EdgesKnown, SettledL, NEW d \in [Nodes -> L!Cost]
  PROVE  L!DistanceKnown(d)
<1> SUFFICES ASSUME phase = "idle", unnotified = {}, L!Solves(d) PROVE g[Goal] = d[Goal]
  BY DEF L!DistanceKnown
<1>1. L!SearchTypeOK /\ Start \in Nodes /\ Goal \in Nodes
  BY PlannerAssumption DEF L!TypeOK
<1>2. PICK h : h = [v \in Nodes |-> Heuristic[<<v, Goal>>]]
  OBVIOUS
<1>3. \A v \in Nodes : h[v] = Heuristic[<<v, Goal>>]
  BY <1>2
<1>4. \A v \in Nodes : rhs[v] = L!Lookahead(g, v)
  BY DEF L!Repairable
<1>5. g \in [Nodes -> L!Cost]
  BY <1>1 DEF L!SearchTypeOK
<1>6. Relaxes(cost, Start, g, rhs)
  BY <1>1, <1>4, <1>5, RelaxesL
<1>7. Relaxes(cost, Start, d, d)
  BY <1>1, RelaxesL DEF L!Solves
<1>8. Bounded(cost, h, Goal) /\ Behind(g, rhs, h, Goal)
  BY <1>1, <1>3, BoundedL, BehindL
<1>9. g[Goal] \in Nat => d[Goal] \in Nat /\ d[Goal] <= g[Goal]
  BY <1>1, <1>6, <1>7, <1>8, NotTooLow
<1>10. d[Goal] \in Nat => g[Goal] \in Nat /\ g[Goal] <= d[Goal]
  BY <1>1, <1>6, <1>7, <1>8, NotTooHigh
<1>11. g[Goal] \in L!Cost /\ d[Goal] \in L!Cost
  BY <1>1, <1>5
<1> QED BY <1>9, <1>10, <1>11 DEF L!Cost

-----------------------------------------------------------------------------
(* LPA* knows a shortest route.                                            *)

LEMMA CardinalityL == \A X : L!Cardinality(X) = Cardinality(X)
<1>1. \A X : L!IsFiniteSet(X) <=> IsFiniteSet(X)
  BY Zenon DEF L!IsFiniteSet, IsFiniteSet
<1> QED BY <1>1, Zenon DEF L!Cardinality, Cardinality

\* What a module that takes in PathGraph says of paths is what PathGraph says.
LEMMA PathsL ==
  /\ \A w, a : L!Distances(w, a) = Distances(w, a)
  /\ \A w, p : L!PathCost(w, p) = PathCost(w, p)
  /\ \A a, b, next : L!BacktrackingPaths(a, b, next) = BacktrackingPaths(a, b, next)
<1>1. \A step, base, n : L!Iterated(step, base, n) = Iterated(step, base, n)
  BY Zenon DEF L!Iterated, Iterated
<1>3. \A p, q : L!CheckedAdd(p, q) = CheckedAdd(p, q)
  BY Zenon DEF L!CheckedAdd, CheckedAdd, L!Inf, Inf
<1>4. \A X : L!Least(X) = Least(X)
  BY Zenon DEF L!Least, Least, L!Less, Less, L!Inf, Inf
<1>5. \A w, a : L!Distances(w, a) = Distances(w, a)
  BY <1>1, <1>3, <1>4, CardinalityL, Zenon DEF L!Distances, Distances, L!Cost, Cost, L!Inf, Inf
<1>6. \A w, p : L!PathCost(w, p) = PathCost(w, p)
  BY <1>3, Zenon DEF L!PathCost, PathCost
<1>7. \A a, b, next : L!BacktrackingPaths(a, b, next) = BacktrackingPaths(a, b, next)
  BY <1>1, CardinalityL, Zenon DEF L!BacktrackingPaths, BacktrackingPaths, L!Last, Last, L!ToSet, ToSet
<1> QED BY <1>5, <1>6, <1>7

LEMMA CostsPositive == ASSUME cost \in Graphs, EdgesKnown PROVE Positive(cost)
<1> SUFFICES ASSUME NEW u \in Nodes, NEW v \in Nodes PROVE cost[<<u, v>>] # 0
  BY DEF Positive
<1>1. PICK c \in EdgeCosts[<<u, v>>] \cup {w[<<u, v>>] : w \in FirstGraphs} : c = cost[<<u, v>>]
  BY DEF EdgesKnown
<1>2. c # 0
  BY <1>1, PlannerAssumption
<1> QED BY <1>1, <1>2

LEMMA SolvesL ==
  ASSUME L!SearchTypeOK, EdgesKnown, NEW d, d = L!Distances(cost, Start)
  PROVE  d \in [Nodes -> L!Cost] /\ L!Solves(d)
<1>1. Cost = L!Cost /\ Graphs = L!Graphs /\ Start \in Nodes
  BY PlannerAssumption DEF Cost, L!Cost, Inf, L!Inf, Graphs, L!Graphs
<1>2. Positive(cost)
  BY <1>1, CostsPositive DEF L!SearchTypeOK
<1>3. d \in [Nodes -> Cost] /\ Relaxes(cost, Start, d, d)
  BY <1>1, <1>2, PathsL, DistancesSolve
<1>4. PICK r : r = [v \in Nodes |-> L!Lookahead(d, v)]
  OBVIOUS
<1>5. \A v \in Nodes : r[v] = L!Lookahead(d, v)
  BY <1>4
<1>6. Relaxes(cost, Start, d, r)
  BY <1>1, <1>3, <1>5, RelaxesL
<1>7. r \in [Nodes -> Cost]
  <2>1. \A v \in Nodes : L!Lookahead(d, v) \in Cost
    BY <1>1, <1>3, LookaheadL
  <2> QED BY <1>4, <2>1
<1>8. \A v \in Nodes : d[v] = r[v]
  BY <1>1, <1>3, <1>6, <1>7, RelaxedOnce
<1> QED BY <1>1, <1>3, <1>5, <1>8 DEF L!Solves

LEMMA RoutesL ==
  ASSUME L!TypeOK, L!Repairable, EdgesKnown, SettledL
  PROVE  L!ShortestPathKnown
<1> SUFFICES ASSUME phase = "idle", unnotified = {}
             PROVE  /\ LET d == L!Distances(cost, Start) IN L!Solves(d) /\ L!DistanceKnown(d)
                    /\ g[Goal] = L!Inf \/ L!Routes # {}
                    /\ g[Goal] # L!Inf => \A p \in L!Routes : L!PathCost(cost, p) = g[Goal]
  BY DEF L!ShortestPathKnown
<1>1. L!SearchTypeOK /\ Start \in Nodes /\ Goal \in Nodes
  BY PlannerAssumption DEF L!TypeOK
<1>2. PICK d : d = L!Distances(cost, Start)
  OBVIOUS
<1>3. L!Solves(d) /\ L!DistanceKnown(d)
  BY <1>1, <1>2, SolvesL, DistanceL
<1>4. PICK next : next =
        [u \in Nodes |-> {v \in L!Successors(cost, u) : g[v] # L!Inf /\ L!CheckedAdd(g[u], cost[<<u, v>>]) = g[v]}]
  OBVIOUS
<1>5. L!Routes = BacktrackingPaths(Start, Goal, next)
  <2>1. L!Routes = L!BacktrackingPaths(Start, Goal, next)
    BY <1>4, Zenon DEF L!Routes
  <2> QED BY <2>1, PathsL
<1>6. \A u, v \in Nodes : g[u] \in L!Cost /\ cost[<<u, v>>] \in L!Cost
  BY <1>1 DEF L!SearchTypeOK, L!Graphs
<1>7. \A u, v \in Nodes : cost[<<u, v>>] # 0
  <2>1. Cost = L!Cost /\ Graphs = L!Graphs
    BY DEF Cost, L!Cost, Inf, L!Inf, Graphs, L!Graphs
  <2>2. Positive(cost)
    BY <1>1, <2>1, CostsPositive DEF L!SearchTypeOK
  <2> QED BY <2>2 DEF Positive
<1>8. ASSUME NEW u \in Nodes, NEW v \in Nodes
      PROVE  v \in next[u] <=> cost[<<u, v>>] \in Nat \ {0} /\ g[u] \in Nat /\ g[v] \in Nat
                               /\ g[v] = g[u] + cost[<<u, v>>]
  <2>1. PICK x \in L!Cost, y \in L!Cost, c \in L!Cost : x = g[u] /\ y = g[v] /\ c = cost[<<u, v>>] /\ c # 0
    BY <1>6, <1>7
  <2>2. v \in next[u] <=> c # L!Inf /\ y # L!Inf /\ L!CheckedAdd(x, c) = y
    BY <1>4, <2>1 DEF L!Successors
  <2>3. (c # L!Inf <=> c \in Nat) /\ (y # L!Inf <=> y \in Nat)
    BY NumberL
  <2>4. /\ L!CheckedAdd(x, c) \in Nat <=> x \in Nat /\ c \in Nat
        /\ x \in Nat /\ c \in Nat => L!CheckedAdd(x, c) = x + c
    BY AddedL
  <2>5. c # L!Inf /\ y # L!Inf /\ L!CheckedAdd(x, c) = y <=> c \in Nat /\ x \in Nat /\ y \in Nat /\ y = x + c
    BY <2>3, <2>4
  <2> QED BY <2>1, <2>2, <2>5
<1>9. GoesUp(cost, g, next)
  <2>1. \A u, v \in Nodes : v \in next[u] =>
          g[v] \in Int /\ cost[<<u, v>>] \in Nat \ {0} /\ g[v] = g[u] + cost[<<u, v>>]
    BY <1>8
  <2>2. \A u, v \in Nodes : g[u] \in Nat /\ g[v] \in Nat /\ cost[<<u, v>>] \in Nat /\ g[v] = g[u] + cost[<<u, v>>] =>
          v \in next[u]
    BY <1>7, <1>8
  <2> QED BY <2>1, <2>2 DEF GoesUp
<1>10. PICK h : h = [v \in Nodes |-> Heuristic[<<v, Goal>>]]
  OBVIOUS
<1>11. \A v \in Nodes : h[v] = Heuristic[<<v, Goal>>]
  BY <1>10
<1>12. \A v \in Nodes : rhs[v] = L!Lookahead(g, v)
  BY DEF L!Repairable
<1>13. g \in [Nodes -> L!Cost]
  BY <1>1 DEF L!SearchTypeOK
<1>14. Relaxes(cost, Start, g, rhs) /\ Bounded(cost, h, Goal) /\ Behind(g, rhs, h, Goal)
  BY <1>1, <1>11, <1>12, <1>13, RelaxesL, BoundedL, BehindL
<1>15. ASSUME g[Goal] # L!Inf
       PROVE  L!Routes # {} /\ \A p \in L!Routes : L!PathCost(cost, p) = g[Goal]
  <2>1. g[Goal] \in Nat
    BY <1>1, <1>6, <1>15, NumberL
  <2>2. g[Start] = 0 /\ \E p : Climbs(cost, g, p) /\ p[1] = Start /\ p[Len(p)] = Goal
                               /\ \A i \in 1 .. Len(p) : g[p[i]] \in Nat
    BY <1>1, <1>14, <2>1, ClimbExists
  <2>3. PICK p : Climbs(cost, g, p) /\ p[1] = Start /\ p[Len(p)] = Goal
                 /\ \A i \in 1 .. Len(p) : g[p[i]] \in Nat
    BY <2>2
  <2>4. p \in L!Routes
    BY <1>1, <1>5, <1>9, <2>3, BacktracksAll
  <2>5. ASSUME NEW q \in L!Routes PROVE L!PathCost(cost, q) = g[Goal]
    <3>1. Climbs(cost, g, q) /\ q[1] = Start /\ q[Len(q)] = Goal
      BY <1>1, <1>5, <1>9, <2>2, BacktracksUp
    <3>2. PathCost(cost, q) = g[q[Len(q)]] - g[q[1]]
      BY <3>1, ClimbCosts
    <3>3. L!PathCost(cost, q) = PathCost(cost, q)
      BY PathsL
    <3> QED BY <2>1, <2>2, <3>1, <3>2, <3>3
  <2> QED BY <2>4, <2>5
<1> QED BY <1>2, <1>3, <1>15

\* The order of the keys is total.
LEMMA KeyBetweenL ==
  ASSUME NEW k \in L!Cost \X L!Cost, NEW l \in L!Cost \X L!Cost, NEW m \in L!Cost \X L!Cost,
         L!KeyLess(k, l), ~L!KeyLess(m, l)
  PROVE  L!KeyLess(k, m)
<1> DEFINE k1 == k[1] k2 == k[2] l1 == l[1] l2 == l[2] m1 == m[1] m2 == m[2]
<1>1. k1 \in L!Cost /\ k2 \in L!Cost /\ l1 \in L!Cost /\ l2 \in L!Cost /\ m1 \in L!Cost /\ m2 \in L!Cost
  OBVIOUS
<1>2. L!Less(k1, l1) \/ (k1 = l1 /\ L!Less(k2, l2))
  BY DEF L!KeyLess
<1>3. ~(L!Less(m1, l1) \/ (m1 = l1 /\ L!Less(m2, l2)))
  BY DEF L!KeyLess
<1>4. L!Less(k1, m1) \/ (k1 = m1 /\ L!Less(k2, m2))
  <2> HIDE DEF k1, k2, l1, l2, m1, m2
  <2> QED BY <1>1, <1>2, <1>3 DEF L!Less, L!Cost, L!Inf
<1> QED BY <1>4 DEF L!KeyLess

LEMMA SettledNextL ==
  ASSUME L!TypeOK, L!Repairable, SettledL, EdgesKnown, L!Next
  PROVE  SettledL' /\ EdgesKnown'
<1>1. CASE L!Return
  <2>1. UNCHANGED <<cost, g, rhs>>
    BY <1>1 DEF L!Return, L!graph, L!search
  <2>2. \A w \in Nodes : L!Key(w)' = L!Key(w) /\ L!Key(w) \in L!Cost \X L!Cost
    BY <2>1, KeyL DEF L!Key, L!KeyOf, L!TypeOK, L!SearchTypeOK
  <2>3. EdgesKnown'
    BY <2>1 DEF EdgesKnown
  <2>4. CASE queue = {} /\ rhs[Goal] = g[Goal]
    BY <2>1, <2>3, <2>4 DEF L!Repairable, SettledL
  <2>5. CASE \E e \in queue : L!AtTop(e) /\ L!Current(e) /\ ~L!Unfinished(e.key)
    <3>1. PICK e \in queue : L!AtTop(e) /\ ~L!Unfinished(e.key)
      BY <2>5
    <3>2. rhs[Goal] = g[Goal] /\ ~L!KeyLess(e.key, L!Key(Goal))
      BY <3>1 DEF L!Unfinished
    <3>3. e.key \in L!Cost \X L!Cost /\ Goal \in Nodes
      BY PlannerAssumption DEF L!TypeOK, L!SearchTypeOK
    <3>4. ASSUME NEW v \in Nodes, g[v] # rhs[v] PROVE ~L!KeyLess(L!Key(v), L!Key(Goal))
      <4>1. [key |-> L!Key(v), node |-> v] \in queue
        BY <3>4 DEF L!Repairable
      <4>2. ~L!KeyLess(L!Key(v), e.key)
        BY <3>1, <4>1 DEF L!AtTop
      <4> QED BY <2>2, <3>2, <3>3, <4>2, KeyBetweenL
    <3> QED BY <2>1, <2>2, <2>3, <3>2, <3>3, <3>4 DEF SettledL
  <2> QED BY <1>1, <2>4, <2>5 DEF L!Return
<1>2. ASSUME NEW u \in Nodes, NEW v \in Nodes, NEW c \in EdgeCosts[<<u, v>>], L!ChangeEdge(u, v, c)
      PROVE  SettledL' /\ EdgesKnown'
  <2>1. UNCHANGED <<g, rhs, phase>> /\ cost' = [cost EXCEPT ![<<u, v>>] = c]
    BY <1>2 DEF L!ChangeEdge, L!search, L!SetEdge
  <2>2. \A w \in Nodes : L!Key(w)' = L!Key(w)
    BY <2>1 DEF L!Key, L!KeyOf
  <2>3. SettledL'
    BY <2>1, <2>2, PlannerAssumption DEF SettledL
  <2>4. cost \in [Nodes \X Nodes -> L!Cost]
    BY DEF L!TypeOK, L!SearchTypeOK, L!Graphs
  <2>5. ASSUME NEW x \in Nodes, NEW y \in Nodes
        PROVE  cost'[<<x, y>>] \in EdgeCosts[<<x, y>>] \cup {w[<<x, y>>] : w \in FirstGraphs}
    <3>1. CASE x = u /\ y = v
      BY <2>1, <2>4, <3>1
    <3>2. CASE ~(x = u /\ y = v)
      <4>1. cost'[<<x, y>>] = cost[<<x, y>>]
        BY <2>1, <2>4, <3>2
      <4> QED BY <4>1 DEF EdgesKnown
    <3> QED BY <3>1, <3>2
  <2> QED BY <2>3, <2>5 DEF EdgesKnown
<1>3. ASSUME UNCHANGED cost, phase' = "searching" PROVE SettledL' /\ EdgesKnown'
  BY <1>3 DEF SettledL, EdgesKnown
<1>4. ASSUME NEW u \in Nodes, NEW v \in Nodes, L!NotifyEdgeChange(u, v)
      PROVE  UNCHANGED cost /\ phase' = "searching"
  BY <1>4 DEF L!NotifyEdgeChange, L!Notified
<1>5. ASSUME NEW e \in queue, L!DropConsistent(e) \/ L!PushAgain(e) \/ L!Lower(e) \/ L!Raise(e)
      PROVE  UNCHANGED cost /\ phase' = "searching"
  BY <1>5 DEF L!DropConsistent, L!PushAgain, L!Lower, L!Raise, L!graph
<1> QED BY <1>1, <1>2, <1>3, <1>4, <1>5 DEF L!Next, L!Compute


LEMMA PlanStutterL ==
  ASSUME L!TypeOK, L!Repairable, SettledL, EdgesKnown,
         UNCHANGED <<cost, unnotified, changes, g, rhs, queue, phase>>
  PROVE  L!TypeOK' /\ L!Repairable' /\ SettledL' /\ EdgesKnown'
<1>1. L!TypeOK'
  BY DEF L!TypeOK, L!SearchTypeOK
<1>2. \A w \in Nodes : L!Key(w)' = L!Key(w) /\ L!Lookahead(g, w)' = L!Lookahead(g, w)
  BY DEF L!Key, L!KeyOf, L!Lookahead
<1>3. L!Exhausted' = L!Exhausted
  BY <1>2 DEF L!Exhausted, L!AtTop
<1>4. L!Repairable'
  BY <1>2, <1>3 DEF L!Repairable
<1>5. SettledL' /\ EdgesKnown'
  BY <1>2, PlannerAssumption DEF SettledL, EdgesKnown
<1> QED BY <1>1, <1>4, <1>5

-----------------------------------------------------------------------------
(* D* Lite.                                                                *)

LEMMA LeastD ==
  ASSUME NEW C \in SUBSET D!Cost
  PROVE  D!Least(C) \in D!Cost
<1>1. CASE \A x \in C : x = D!Inf
  BY <1>1 DEF D!Least, D!Cost
<1>2. CASE \E x \in C : x # D!Inf
  <2> DEFINE N == C \ {D!Inf}
  <2>1. N \in SUBSET Nat /\ N # {}
    BY <1>2 DEF D!Cost
  <2>2. PICK m \in N : \A x \in N : m <= x
    BY <2>1, LeastOf
  <2>3. \A x \in C : ~D!Less(x, m)
    BY <2>1, <2>2 DEF D!Less, D!Inf
  <2>4. D!Least(C) \in C
    BY <1>2, <2>3 DEF D!Least
  <2> QED BY <2>4
<1> QED BY <1>1, <1>2

LEMMA SumD == ASSUME NEW a \in D!Cost, NEW b \in D!Cost PROVE D!CheckedAdd(a, b) \in D!Cost
BY DEF D!CheckedAdd, D!Cost, D!Inf

LEMMA LookaheadD ==
  ASSUME D!SearchTypeOK, NEW gs \in [Nodes -> D!Cost], NEW v \in Nodes
  PROVE  D!Lookahead(gs, v) \in D!Cost
<1> DEFINE C == {D!CheckedAdd(cost[<<v, w>>], gs[w]) : w \in D!Successors(cost, v)}
<1>1. C \in SUBSET D!Cost
  <2> SUFFICES ASSUME NEW w \in D!Successors(cost, v)
               PROVE  D!CheckedAdd(cost[<<v, w>>], gs[w]) \in D!Cost
    OBVIOUS
  <2>1. w \in Nodes /\ <<v, w>> \in Nodes \X Nodes
    BY DEF D!Successors
  <2>2. gs[w] \in D!Cost /\ cost[<<v, w>>] \in D!Cost
    BY <2>1 DEF D!SearchTypeOK, D!Graphs
  <2> QED BY <2>2, SumD
<1> HIDE DEF C
<1>2. D!Least(C) \in D!Cost
  BY <1>1, LeastD
<1>3. D!Lookahead(gs, v) = IF v = Goal THEN 0 ELSE D!Least(C)
  BY DEF D!Lookahead, C
<1> QED BY <1>2, <1>3 DEF D!Cost

LEMMA KeyD ==
  ASSUME start \in Nodes, km \in Nat,
         NEW gs \in [Nodes -> D!Cost], NEW rs \in [Nodes -> D!Cost], NEW v \in Nodes
  PROVE  D!KeyOf(gs, rs, v) \in D!Cost \X D!Cost
<1>1. {gs[v], rs[v]} \in SUBSET D!Cost
  OBVIOUS
<1>2. PICK base \in D!Cost : base = D!Least({gs[v], rs[v]})
  BY <1>1, LeastD
<1>3. Heuristic[<<start, v>>] \in D!Cost /\ km \in D!Cost
  BY PlannerAssumption DEF D!Cost
<1>4. D!CheckedAdd(D!CheckedAdd(base, Heuristic[<<start, v>>]), km) \in D!Cost
  <2>1. D!CheckedAdd(base, Heuristic[<<start, v>>]) \in D!Cost
    BY <1>2, <1>3, SumD
  <2> QED BY <1>3, <2>1, SumD
<1> QED BY <1>2, <1>4 DEF D!KeyOf

\* The keys are ordered.
LEMMA KeyNotBelowItself ==
  ASSUME NEW k \in D!Cost \X D!Cost PROVE ~D!KeyLess(k, k)
BY DEF D!KeyLess, D!Less, D!Cost, D!Inf

\* What UpdateVertices does: rhs is looked up for every node of changed, and
\* those of them that are inconsistent are queued.
LEMMA UpdateD ==
  ASSUME D!TypeOK, NEW gs \in [Nodes -> D!Cost], NEW changed \in SUBSET Nodes,
         NEW entries \in SUBSET [key : D!Cost \X D!Cost, node : Nodes],
         D!UpdateVertices(gs, changed, entries), UNCHANGED <<cost, start, km>>
  PROVE  /\ g' = gs /\ rhs' \in [Nodes -> D!Cost]
         /\ queue' \subseteq [key : D!Cost \X D!Cost, node : Nodes]
         /\ entries \subseteq queue'
         /\ \A v \in changed :
              /\ rhs'[v] = D!Lookahead(g, v)'
              /\ gs[v] # rhs'[v] => [key |-> D!Key(v)', node |-> v] \in queue'
         /\ \A v \in Nodes \ changed : rhs'[v] = rhs[v]
<1>1. /\ g' = gs
      /\ rhs' = [v \in Nodes |-> IF v \in changed THEN D!Lookahead(gs, v) ELSE rhs[v]]
      /\ queue' = entries \cup {[key |-> D!KeyOf(gs, rhs', v), node |-> v] :
                                 v \in {x \in changed : gs[x] # rhs'[x]}}
  BY DEF D!UpdateVertices
<1>2. rhs' \in [Nodes -> D!Cost]
  BY <1>1, LookaheadD DEF D!TypeOK, D!SearchTypeOK
<1>3. \A v \in Nodes : [key |-> D!KeyOf(gs, rhs', v), node |-> v] \in [key : D!Cost \X D!Cost, node : Nodes]
  BY <1>2, KeyD DEF D!TypeOK
<1>4. queue' \subseteq [key : D!Cost \X D!Cost, node : Nodes] /\ entries \subseteq queue'
  BY <1>1, <1>3
<1>5. ASSUME NEW v \in changed
      PROVE  /\ rhs'[v] = D!Lookahead(g, v)'
             /\ gs[v] # rhs'[v] => [key |-> D!Key(v)', node |-> v] \in queue'
  <2>1. D!Lookahead(g, v)' = D!Lookahead(gs, v)
    BY <1>1 DEF D!Lookahead
  <2>2. D!Key(v)' = D!KeyOf(gs, rhs', v)
    BY <1>1 DEF D!Key, D!KeyOf
  <2> QED BY <1>1, <2>1, <2>2
<1> QED BY <1>1, <1>2, <1>4, <1>5

\* An update of every node whose neighbours changed keeps the search repairable.
LEMMA RepairD ==
  ASSUME D!TypeOK, D!Repairable, NEW gs \in [Nodes -> D!Cost], NEW changed \in SUBSET Nodes,
         NEW entries \in SUBSET queue,
         D!UpdateVertices(gs, changed, entries), UNCHANGED <<cost, start, km>>,
         \A v \in Nodes \ changed : D!Lookahead(gs, v) = D!Lookahead(g, v),
         \A v \in Nodes \ changed : gs[v] = g[v] \/ gs[v] = rhs[v],
         \A e \in queue \ entries : e.node \notin changed => gs[e.node] = rhs[e.node],
         \A v \in Nodes \ changed : \A w \in Nodes : <<v, w>> \in unnotified => <<v, w>> \in unnotified'
  PROVE  /\ g' \in [Nodes -> D!Cost] /\ rhs' \in [Nodes -> D!Cost]
         /\ queue' \subseteq [key : D!Cost \X D!Cost, node : Nodes]
         /\ D!Repairable'
<1>1. entries \in SUBSET [key : D!Cost \X D!Cost, node : Nodes]
  BY DEF D!TypeOK, D!SearchTypeOK
<1>2. /\ g' = gs /\ rhs' \in [Nodes -> D!Cost]
      /\ queue' \subseteq [key : D!Cost \X D!Cost, node : Nodes]
      /\ entries \subseteq queue'
      /\ \A v \in changed :
           /\ rhs'[v] = D!Lookahead(g, v)'
           /\ gs[v] # rhs'[v] => [key |-> D!Key(v)', node |-> v] \in queue'
      /\ \A v \in Nodes \ changed : rhs'[v] = rhs[v]
  BY <1>1, UpdateD
<1>3. ASSUME NEW v \in Nodes, \A w \in Nodes : <<v, w>> \notin unnotified'
      PROVE  rhs'[v] = D!Lookahead(g, v)'
  <2>1. CASE v \in changed
    BY <1>2, <2>1
  <2>2. CASE v \notin changed
    <3>1. \A w \in Nodes : <<v, w>> \notin unnotified
      BY <1>3, <2>2
    <3>2. rhs[v] = D!Lookahead(gs, v)
      BY <2>2, <3>1 DEF D!Repairable
    <3>3. D!Lookahead(g, v)' = D!Lookahead(gs, v)
      BY <1>2 DEF D!Lookahead
    <3> QED BY <1>2, <2>2, <3>2, <3>3
  <2> QED BY <2>1, <2>2
<1>4. ASSUME NEW v \in Nodes, g'[v] # rhs'[v]
      PROVE  \E e \in queue' : e.node = v /\ ~D!KeyLess(D!Key(v)', e.key)
  <2>1. CASE v \in changed
    <3>1. PICK k : k = D!Key(v)'
      OBVIOUS
    <3>2. [key |-> k, node |-> v] \in queue'
      BY <1>2, <1>4, <2>1, <3>1
    <3>3. k \in D!Cost \X D!Cost
      BY <1>2, <3>2
    <3>4. ~D!KeyLess(k, k)
      BY <3>3, KeyNotBelowItself
    <3> QED BY <3>1, <3>2, <3>4
  <2>2. CASE v \notin changed
    <3>1. rhs'[v] = rhs[v] /\ g'[v] = g[v]
      BY <1>2, <1>4, <2>2
    <3>2. PICK e \in queue : e.node = v /\ ~D!KeyLess(D!Key(v), e.key)
      BY <1>4, <3>1 DEF D!Repairable
    <3>3. e \in entries
      BY <1>2, <1>4, <2>2, <3>1, <3>2
    <3>4. D!Key(v)' = D!Key(v)
      BY <3>1 DEF D!Key, D!KeyOf
    <3> QED BY <1>2, <3>2, <3>3, <3>4
  <2> QED BY <2>1, <2>2
<1>5. ~D!Exhausted'
  BY <1>4 DEF D!Exhausted, D!TypeOK
<1>6. D!Repairable'
  BY <1>3, <1>4, <1>5 DEF D!Repairable
<1> QED BY <1>2, <1>6

\* Raising or lowering g at one node changes the lookahead of its predecessors only.
LEMMA PredecessorsD ==
  ASSUME D!TypeOK, NEW x \in Nodes, NEW c \in D!Cost, NEW v \in Nodes, v \notin D!Predecessors(cost, x)
  PROVE  D!Lookahead([g EXCEPT ![x] = c], v) = D!Lookahead(g, v)
<1> DEFINE gs == [g EXCEPT ![x] = c]
           sum(h) == {D!CheckedAdd(cost[<<v, w>>], h[w]) : w \in D!Successors(cost, v)}
<1>1. g \in [Nodes -> D!Cost]
  BY DEF D!TypeOK, D!SearchTypeOK
<1>2. ASSUME NEW w \in D!Successors(cost, v) PROVE gs[w] = g[w]
  BY <1>1, <1>2 DEF D!Predecessors, D!Successors
<1>3. sum(gs) = sum(g)
  BY <1>2
<1> QED BY <1>3 DEF D!Lookahead

LEMMA PlanInitD == D!Init => D!TypeOK /\ D!Repairable
<1> SUFFICES ASSUME D!Init PROVE D!TypeOK /\ D!Repairable
  OBVIOUS
<1>1. /\ cost \in FirstGraphs /\ unnotified = {} /\ changes = 0
      /\ start = Start /\ km = 0 /\ moves = 0
      /\ g = [v \in Nodes |-> D!Inf]
      /\ rhs = [v \in Nodes |-> IF v = Goal THEN 0 ELSE D!Inf]
      /\ queue = {[key |-> <<Heuristic[<<Start, Goal>>], 0>>, node |-> Goal]}
      /\ phase = "searching"
  BY DEF D!Init, D!InitGraph
<1>2. Start \in Nodes /\ Goal \in Nodes /\ Heuristic[<<Start, Goal>>] \in Nat /\ FirstGraphs \subseteq Graphs
  BY PlannerAssumption
<1>3. D!TypeOK
  <2>1. cost \in D!Graphs
    BY <1>1, <1>2 DEF D!Graphs, Graphs, D!Cost, Cost, D!Inf, Inf
  <2>2. g \in [Nodes -> D!Cost] /\ rhs \in [Nodes -> D!Cost]
    BY <1>1 DEF D!Cost
  <2>3. queue \subseteq [key : D!Cost \X D!Cost, node : Nodes]
    BY <1>1, <1>2 DEF D!Cost
  <2>4. changes \in 0 .. MaxAgentChanges /\ unnotified \subseteq Nodes \X Nodes /\ phase \in {"searching", "idle"}
    BY <1>1, PlannersAssumption
  <2>5. start \in Nodes /\ km \in Nat /\ moves \in 0 .. MaxMoves
    BY <1>1, <1>2, PlannersAssumption
  <2> QED BY <2>1, <2>2, <2>3, <2>4, <2>5 DEF D!TypeOK, D!SearchTypeOK
<1>4. ASSUME NEW v \in Nodes PROVE rhs[v] = D!Lookahead(g, v)
  <2>1. CASE v = Goal
    BY <1>1, <2>1 DEF D!Lookahead
  <2>2. CASE v # Goal
    <3> DEFINE C == {D!CheckedAdd(cost[<<v, w>>], g[w]) : w \in D!Successors(cost, v)}
    <3>1. \A x \in C : x = D!Inf
      BY <1>1 DEF D!CheckedAdd, D!Successors
    <3>2. D!Least(C) = D!Inf
      BY <3>1 DEF D!Least
    <3> QED BY <1>1, <2>2, <3>2 DEF D!Lookahead
  <2> QED BY <2>1, <2>2
<1>5. ASSUME NEW v \in Nodes, g[v] # rhs[v]
      PROVE  \E e \in queue : e.node = v /\ ~D!KeyLess(D!Key(v), e.key)
  <2>1. v = Goal
    BY <1>1, <1>5
  <2>2. g[v] = D!Inf /\ rhs[v] = 0
    BY <1>1, <2>1
  <2>3. D!Least({g[v], rhs[v]}) = 0
    BY <2>2 DEF D!Least, D!Less, D!Inf
  <2>4. D!Key(v) = <<Heuristic[<<Start, Goal>>], 0>>
    <3>1. D!CheckedAdd(D!CheckedAdd(0, Heuristic[<<start, v>>]), km) = Heuristic[<<Start, Goal>>]
      BY <1>1, <1>2, <2>1 DEF D!CheckedAdd, D!Inf
    <3> QED BY <2>3, <3>1 DEF D!Key, D!KeyOf
  <2>5. D!Key(v) \in D!Cost \X D!Cost
    BY <1>2, <2>4 DEF D!Cost
  <2> QED BY <1>1, <2>1, <2>4, <2>5, KeyNotBelowItself
<1>6. ~D!Exhausted
  BY <1>1 DEF D!Exhausted
<1> QED BY <1>3, <1>4, <1>5, <1>6 DEF D!Repairable

\* A move takes at most as much from the heuristic of a node as it adds to km,
\* so that no key gets below the one its node was queued with.
LEMMA MoveKeepsKeys ==
  ASSUME D!TypeOK, NEW v \in Nodes, NEW u \in Nodes, NEW k \in D!Cost \X D!Cost,
         ~D!KeyLess(D!Key(u), k), D!MoveStart(v)
  PROVE  ~D!KeyLess(D!Key(u)', k)
<1>1. UNCHANGED <<g, rhs>> /\ start' = v /\ km' = km + Heuristic[<<start, v>>]
  BY DEF D!MoveStart, D!KmAfter, D!search
<1>2. {g[u], rhs[u]} \in SUBSET D!Cost
  BY DEF D!TypeOK, D!SearchTypeOK
<1>3. PICK base \in D!Cost : base = D!Least({g[u], rhs[u]})
  BY <1>2, LeastD
<1>4. PICK h \in Nat, i \in Nat, j \in Nat :
        h = Heuristic[<<start, u>>] /\ i = Heuristic[<<v, u>>] /\ j = Heuristic[<<start, v>>]
  BY PlannerAssumption DEF D!TypeOK
<1>5. h <= j + i
  BY <1>4, PlannersAssumption DEF D!MetricHeuristic, D!TypeOK
<1>6. D!Key(u) = <<D!CheckedAdd(D!CheckedAdd(base, h), km), base>>
  BY <1>3, <1>4 DEF D!Key, D!KeyOf
<1>7. D!Key(u)' = <<D!CheckedAdd(D!CheckedAdd(base, i), km + j), base>>
  BY <1>1, <1>3, <1>4 DEF D!Key, D!KeyOf
<1>8. km \in Nat
  BY DEF D!TypeOK
<1>9. CASE base = D!Inf
  BY <1>6, <1>7, <1>9 DEF D!CheckedAdd
<1>10. CASE base # D!Inf
  <2>1. base \in Nat
    BY <1>10 DEF D!Cost
  <2>2. D!CheckedAdd(D!CheckedAdd(base, h), km) = base + h + km
    BY <1>8, <2>1 DEF D!CheckedAdd, D!Inf
  <2>3. D!CheckedAdd(D!CheckedAdd(base, i), km + j) = base + i + km + j
    BY <1>8, <2>1 DEF D!CheckedAdd, D!Inf
  <2>4. PICK a \in Nat, b \in Nat : a = base + h + km /\ b = base + i + km + j /\ a <= b
    BY <1>5, <1>8, <2>1
  <2>5. k[1] \in D!Cost /\ k[2] \in D!Cost
    OBVIOUS
  <2>6. ~D!Less(a, k[1]) /\ ~(a = k[1] /\ D!Less(base, k[2]))
    BY <1>6, <2>2, <2>4 DEF D!KeyLess
  <2>7. ~D!Less(b, k[1]) /\ ~(b = k[1] /\ D!Less(base, k[2]))
    BY <2>1, <2>4, <2>5, <2>6 DEF D!Less, D!Cost, D!Inf
  <2> QED BY <1>7, <2>3, <2>4, <2>7 DEF D!KeyLess
<1> QED BY <1>9, <1>10

LEMMA PlanNextD ==
  ASSUME D!TypeOK, D!Repairable, D!Next
  PROVE  D!TypeOK' /\ D!Repairable'
<1>1. ASSUME NEW u \in Nodes, NEW v \in Nodes, D!NotifyEdgeChange(u, v)
      PROVE  D!TypeOK' /\ D!Repairable'
  <2>1. D!UpdateVertices(g, {u}, queue) /\ UNCHANGED <<cost, changes, start, km, moves>>
        /\ unnotified' = unnotified \ {<<u, v>>} /\ phase' = "searching"
    BY <1>1 DEF D!NotifyEdgeChange, D!Notified, D!agent
  <2>2. g \in [Nodes -> D!Cost]
    BY DEF D!TypeOK, D!SearchTypeOK
  <2>3. \A w \in Nodes \ {u} : \A y \in Nodes : <<w, y>> \in unnotified => <<w, y>> \in unnotified'
    BY <2>1
  <2>4. /\ g' \in [Nodes -> D!Cost] /\ rhs' \in [Nodes -> D!Cost]
        /\ queue' \subseteq [key : D!Cost \X D!Cost, node : Nodes]
        /\ D!Repairable'
    BY <2>1, <2>2, <2>3, RepairD
  <2> QED BY <2>1, <2>4 DEF D!TypeOK, D!SearchTypeOK
<1>2. ASSUME NEW u \in Nodes, NEW v \in Nodes, NEW c \in EdgeCosts[<<u, v>>],
             D!ChangeEdge(u, v, c), UNCHANGED D!agent
      PROVE  D!TypeOK' /\ D!Repairable'
  <2>1. /\ UNCHANGED <<g, rhs, queue, phase, start, km, moves>> /\ changes' = changes + 1 /\ changes < MaxAgentChanges
        /\ unnotified' = unnotified \cup {<<u, v>>} /\ cost' = [cost EXCEPT ![<<u, v>>] = c]
    BY <1>2 DEF D!ChangeEdge, D!search, D!SetEdge, D!agent
  <2>2. c \in D!Cost
    BY PlannerAssumption DEF D!Cost, Cost, D!Inf, Inf
  <2>3. changes' \in 0 .. MaxAgentChanges
    <3>1. MaxAgentChanges \in Nat /\ changes \in 0 .. MaxAgentChanges
      BY PlannersAssumption DEF D!TypeOK, D!SearchTypeOK
    <3> QED BY <2>1, <3>1
  <2>4. cost \in [Nodes \X Nodes -> D!Cost] /\ cost' \in [Nodes \X Nodes -> D!Cost]
    BY <2>1, <2>2 DEF D!TypeOK, D!SearchTypeOK, D!Graphs
  <2>5. D!TypeOK'
    BY <2>1, <2>3, <2>4 DEF D!TypeOK, D!SearchTypeOK, D!Graphs
  <2>6. ASSUME NEW w \in Nodes, \A y \in Nodes : <<w, y>> \notin unnotified'
        PROVE  rhs'[w] = D!Lookahead(g, w)'
    <3>1. w # u /\ \A y \in Nodes : <<w, y>> \notin unnotified
      BY <2>1, <2>6
    <3>2. \A y \in Nodes : cost'[<<w, y>>] = cost[<<w, y>>]
      BY <2>1, <2>4, <3>1
    <3>3. D!Successors(cost, w)' = D!Successors(cost, w)
      BY <3>2 DEF D!Successors
    <3>4. \A y \in D!Successors(cost, w) : cost'[<<w, y>>] = cost[<<w, y>>]
      BY <3>2 DEF D!Successors
    <3>5. D!Lookahead(g, w)' = D!Lookahead(g, w)
      BY <2>1, <3>3, <3>4 DEF D!Lookahead
    <3> QED BY <2>1, <3>1, <3>5 DEF D!Repairable
  <2>7. \A w \in Nodes : D!Key(w)' = D!Key(w)
    BY <2>1 DEF D!Key, D!KeyOf
  <2>8. ~D!Exhausted'
    BY <2>1 DEF D!Repairable, D!Exhausted
  <2> QED BY <2>1, <2>5, <2>6, <2>7, <2>8 DEF D!Repairable
<1>3. ASSUME NEW e \in queue, D!DropConsistent(e) \/ D!PushAgain(e)
      PROVE  D!TypeOK' /\ D!Repairable'
  <2> DEFINE new == [key |-> D!Key(e.node), node |-> e.node]
  <2>1. UNCHANGED <<cost, unnotified, changes, g, rhs, phase, start, km, moves>>
    BY <1>3 DEF D!DropConsistent, D!PushAgain, D!graph, D!agent
  <2>2. \/ g[e.node] = rhs[e.node] /\ queue' = queue \ {e}
        \/ e.key # D!Key(e.node) /\ queue' = (queue \ {e}) \cup {new}
    BY <1>3 DEF D!DropConsistent, D!PushAgain, D!Repushed
  <2>3. e \in [key : D!Cost \X D!Cost, node : Nodes]
    BY DEF D!TypeOK, D!SearchTypeOK
  <2>4. new \in [key : D!Cost \X D!Cost, node : Nodes]
    BY <2>3, KeyD DEF D!TypeOK, D!SearchTypeOK, D!Key
  <2>5. D!TypeOK'
    BY <2>1, <2>2, <2>4 DEF D!TypeOK, D!SearchTypeOK
  <2>6. \A w \in Nodes : D!Key(w)' = D!Key(w) /\ D!Lookahead(g, w)' = D!Lookahead(g, w)
    BY <2>1 DEF D!Key, D!KeyOf, D!Lookahead
  <2>7. ASSUME NEW w \in Nodes, g[w] # rhs[w]
        PROVE  \E d \in queue' : d.node = w /\ ~D!KeyLess(D!Key(w), d.key)
    <3>1. PICK d \in queue : d.node = w /\ ~D!KeyLess(D!Key(w), d.key)
      BY <2>7 DEF D!Repairable
    <3>2. CASE d # e
      BY <2>2, <3>1, <3>2
    <3>3. CASE d = e
      <4>1. new \in queue' /\ new.node = w /\ new.key = D!Key(w)
        BY <2>2, <2>7, <3>1, <3>3
      <4>2. ~D!KeyLess(D!Key(w), D!Key(w))
        BY <2>4, <4>1, KeyNotBelowItself
      <4> HIDE DEF new
      <4> QED BY <4>1, <4>2
    <3> QED BY <3>2, <3>3
  <2>8. ~D!Exhausted'
    BY <2>1, <2>7 DEF D!Exhausted, D!TypeOK
  <2> QED BY <2>1, <2>5, <2>6, <2>7, <2>8 DEF D!Repairable
<1>4. ASSUME NEW e \in queue, D!Lower(e) \/ D!Raise(e)
      PROVE  D!TypeOK' /\ D!Repairable'
  <2>1. e.node \in Nodes /\ g \in [Nodes -> D!Cost] /\ rhs \in [Nodes -> D!Cost]
    BY DEF D!TypeOK, D!SearchTypeOK
  <2>2. PICK c \in D!Cost, changed \in SUBSET Nodes :
          /\ D!UpdateVertices([g EXCEPT ![e.node] = c], changed, queue \ {e})
          /\ D!Predecessors(cost, e.node) \subseteq changed
          /\ c = rhs[e.node] \/ e.node \in changed
    <3>1. CASE D!Lower(e)
      <4>1. rhs[e.node] \in D!Cost /\ D!Predecessors(cost, e.node) \in SUBSET Nodes
        BY <2>1 DEF D!Predecessors
      <4> QED BY <3>1, <4>1 DEF D!Lower
    <3>2. CASE D!Raise(e)
      <4>1. D!Inf \in D!Cost /\ D!Predecessors(cost, e.node) \cup {e.node} \in SUBSET Nodes
        BY <2>1 DEF D!Predecessors, D!Cost
      <4> QED BY <3>2, <4>1 DEF D!Raise
    <3> QED BY <1>4, <3>1, <3>2
  <2>3. UNCHANGED <<cost, unnotified, changes, phase, start, km, moves>>
    BY <1>4 DEF D!Lower, D!Raise, D!graph, D!agent
  <2>4. PICK gs \in [Nodes -> D!Cost] : gs = [g EXCEPT ![e.node] = c]
    BY <2>1
  <2>5. ASSUME NEW v \in Nodes \ changed
        PROVE  D!Lookahead(gs, v) = D!Lookahead(g, v)
    <3>1. v \notin D!Predecessors(cost, e.node)
      BY <2>2
    <3>2. D!Lookahead([g EXCEPT ![e.node] = c], v) = D!Lookahead(g, v)
      BY <2>1, <3>1, PredecessorsD
    <3> QED BY <2>4, <3>2
  <2>6. \A v \in Nodes \ changed : gs[v] = g[v] \/ gs[v] = rhs[v]
    BY <2>1, <2>2, <2>4
  <2>7. \A d \in queue \ (queue \ {e}) : d.node \notin changed => gs[d.node] = rhs[d.node]
    BY <2>1, <2>2, <2>4
  <2>8. D!UpdateVertices(gs, changed, queue \ {e})
    BY <2>2, <2>4
  <2>9. PICK entries \in SUBSET queue : entries = queue \ {e}
    OBVIOUS
  <2>10. /\ g' \in [Nodes -> D!Cost] /\ rhs' \in [Nodes -> D!Cost]
         /\ queue' \subseteq [key : D!Cost \X D!Cost, node : Nodes]
         /\ D!Repairable'
    BY <2>3, <2>5, <2>6, <2>7, <2>8, <2>9, RepairD
  <2> QED BY <2>3, <2>10 DEF D!TypeOK, D!SearchTypeOK
<1>5. CASE D!Return
  <2>1. UNCHANGED <<cost, unnotified, changes, g, rhs, queue, start, km, moves>> /\ phase' = "idle"
    BY <1>5 DEF D!Return, D!graph, D!search, D!agent
  <2>2. D!TypeOK'
    BY <2>1 DEF D!TypeOK, D!SearchTypeOK
  <2>3. \A w \in Nodes : D!Key(w)' = D!Key(w) /\ D!Lookahead(g, w)' = D!Lookahead(g, w)
    BY <2>1 DEF D!Key, D!KeyOf, D!Lookahead
  <2>4. ~D!Exhausted'
    BY <2>1 DEF D!Exhausted
  <2> QED BY <2>1, <2>2, <2>3, <2>4 DEF D!Repairable
<1>6. ASSUME NEW v \in Nodes, D!MoveStart(v)
      PROVE  D!TypeOK' /\ D!Repairable'
  <2>1. /\ UNCHANGED <<cost, unnotified, changes, g, rhs, queue>>
        /\ start' = v /\ km' = km + Heuristic[<<start, v>>] /\ phase' = "searching"
        /\ moves' = moves + 1 /\ moves < MaxMoves
    BY <1>6 DEF D!MoveStart, D!KmAfter, D!graph, D!search
  <2>2. km' \in Nat
    BY <2>1, PlannerAssumption DEF D!TypeOK
  <2>3. moves' \in 0 .. MaxMoves
    <3>1. MaxMoves \in Nat /\ moves \in 0 .. MaxMoves
      BY PlannersAssumption DEF D!TypeOK
    <3> QED BY <2>1, <3>1
  <2>4. D!TypeOK'
    BY <2>1, <2>2, <2>3 DEF D!TypeOK, D!SearchTypeOK
  <2>5. \A w \in Nodes : D!Lookahead(g, w)' = D!Lookahead(g, w)
    BY <2>1 DEF D!Lookahead
  <2>6. ASSUME NEW w \in Nodes, g[w] # rhs[w]
        PROVE  \E e \in queue : e.node = w /\ ~D!KeyLess(D!Key(w)', e.key)
    <3>1. PICK e \in queue : e.node = w /\ ~D!KeyLess(D!Key(w), e.key)
      BY <2>6 DEF D!Repairable
    <3>2. e.key \in D!Cost \X D!Cost
      BY DEF D!TypeOK, D!SearchTypeOK
    <3>3. ~D!KeyLess(D!Key(w)', e.key)
      BY <1>6, <3>1, <3>2, MoveKeepsKeys
    <3> QED BY <3>1, <3>3
  <2>7. ~D!Exhausted'
    BY <2>1, <2>6, <2>4 DEF D!Exhausted, D!TypeOK
  <2> QED BY <2>1, <2>4, <2>5, <2>6, <2>7 DEF D!Repairable
<1> QED BY <1>1, <1>2, <1>3, <1>4, <1>5, <1>6 DEF D!Next, D!Compute

\* Least is a least number, if there is any.
LEMMA LeastIsD ==
  ASSUME NEW C \in SUBSET D!Cost
  PROVE  /\ D!Least(C) \in Nat => D!Least(C) \in C
         /\ \A x \in C : x \in Nat => D!Least(C) \in Nat /\ D!Least(C) <= x
<1>1. CASE \A x \in C : x = D!Inf
  BY <1>1 DEF D!Least, D!Inf
<1>2. CASE \E x \in C : x # D!Inf
  <2> DEFINE N == C \ {D!Inf}
  <2>1. N \in SUBSET Nat /\ N # {}
    BY <1>2 DEF D!Cost
  <2>2. PICK m \in N : \A x \in N : m <= x
    BY <2>1, LeastOf
  <2>3. \A x \in C : ~D!Less(x, m)
    BY <2>1, <2>2 DEF D!Less, D!Inf
  <2>4. PICK n \in C : n = D!Least(C) /\ \A x \in C : ~D!Less(x, n)
    BY <1>2, <2>3 DEF D!Least
  <2>5. n # D!Inf
    BY <1>2, <2>4 DEF D!Less
  <2>6. n \in Nat
    BY <2>4, <2>5 DEF D!Cost
  <2>7. \A x \in C : x \in Nat => n <= x
    BY <2>4, <2>6 DEF D!Less, D!Inf
  <2> QED BY <2>4, <2>6, <2>7
<1> QED BY <1>1, <1>2

LEMMA NumberD == \A c \in D!Cost : c # D!Inf <=> c \in Nat
BY DEF D!Cost, D!Inf

LEMMA AddedD ==
  ASSUME NEW a \in D!Cost, NEW b \in D!Cost
  PROVE  /\ D!CheckedAdd(a, b) \in Nat <=> a \in Nat /\ b \in Nat
         /\ a \in Nat /\ b \in Nat => D!CheckedAdd(a, b) = a + b
BY DEF D!CheckedAdd, D!Cost, D!Inf

\* The weights in the direction of the search, from the goal.
Turned == [e \in Nodes \X Nodes |-> cost[<<e[2], e[1]>>]]

LEMMA TurnedIs == \A u, v \in Nodes : Turned[<<u, v>>] = cost[<<v, u>>]
BY DEF Turned

\* Looking every node up is one relaxation.
LEMMA RelaxesD ==
  ASSUME D!SearchTypeOK, NEW gs \in [Nodes -> D!Cost], NEW rs,
         \A v \in Nodes : rs[v] = D!Lookahead(gs, v)
  PROVE  Relaxes(Turned, Goal, gs, rs)
<1> DEFINE C(v) == {D!CheckedAdd(cost[<<v, w>>], gs[w]) : w \in D!Successors(cost, v)}
<1>1. \A u, v \in Nodes : gs[u] \in D!Cost /\ cost[<<u, v>>] \in D!Cost
  BY DEF D!SearchTypeOK, D!Graphs
<1>2. \A v \in Nodes : C(v) \in SUBSET D!Cost
  BY <1>1, SumD DEF D!Successors
<1>3. \A v \in Nodes : v # Goal => rs[v] = D!Least(C(v))
  BY DEF D!Lookahead
<1>4. rs[Goal] = 0
  BY PlannerAssumption DEF D!Lookahead
<1>5. ASSUME NEW u \in Nodes, NEW v \in Nodes, v # Goal, gs[u] \in Nat, Turned[<<u, v>>] \in Nat
      PROVE  rs[v] \in Nat /\ rs[v] <= gs[u] + Turned[<<u, v>>]
  <2>1. Turned[<<u, v>>] = cost[<<v, u>>]
    BY TurnedIs
  <2>2. u \in D!Successors(cost, v)
    BY <1>1, <1>5, <2>1, NumberD DEF D!Successors
  <2>3. PICK x \in C(v) : x = gs[u] + cost[<<v, u>>] /\ x \in Nat
    <3>1. D!CheckedAdd(cost[<<v, u>>], gs[u]) = cost[<<v, u>>] + gs[u]
      BY <1>1, <1>5, <2>1, AddedD
    <3>2. D!CheckedAdd(cost[<<v, u>>], gs[u]) \in C(v)
      BY <2>2
    <3> HIDE DEF C
    <3> QED BY <1>5, <2>1, <3>1, <3>2
  <2> HIDE DEF C
  <2>4. D!Least(C(v)) \in Nat /\ D!Least(C(v)) <= x
    BY <1>2, <2>3, LeastIsD
  <2> QED BY <1>3, <1>5, <2>1, <2>3, <2>4
<1>6. ASSUME NEW v \in Nodes, v # Goal, rs[v] \in Nat
      PROVE  \E u \in Nodes : gs[u] \in Nat /\ Turned[<<u, v>>] \in Nat /\ rs[v] = gs[u] + Turned[<<u, v>>]
  <2>1. rs[v] \in C(v)
    <3> HIDE DEF C
    <3> QED BY <1>2, <1>3, <1>6, LeastIsD
  <2>2. PICK u \in D!Successors(cost, v) : rs[v] = D!CheckedAdd(cost[<<v, u>>], gs[u])
    BY <2>1
  <2>3. u \in Nodes
    BY DEF D!Successors
  <2>4. gs[u] \in Nat /\ cost[<<v, u>>] \in Nat /\ rs[v] = gs[u] + cost[<<v, u>>]
    <3>1. PICK x \in D!Cost, y \in D!Cost : x = cost[<<v, u>>] /\ y = gs[u]
      BY <1>1, <2>3
    <3>2. D!CheckedAdd(x, y) \in Nat
      BY <1>6, <2>2, <3>1
    <3>3. x \in Nat /\ y \in Nat /\ D!CheckedAdd(x, y) = y + x
      BY <3>2, AddedD
    <3> HIDE DEF C
    <3> QED BY <2>2, <3>1, <3>3
  <2> QED BY <2>3, <2>4, TurnedIs
<1> HIDE DEF C
<1> QED BY <1>4, <1>5, <1>6 DEF Relaxes

LEMMA BoundedD ==
  ASSUME D!TypeOK, EdgesKnown, NEW h, \A v \in Nodes : h[v] = Heuristic[<<start, v>>]
  PROVE  Bounded(Turned, h, start)
<1>1. h[start] = 0 /\ \A v \in Nodes : h[v] \in Nat
  BY PlannerAssumption, PlannersAssumption DEF D!MetricHeuristic, D!TypeOK
<1>2. ASSUME NEW u \in Nodes, NEW v \in Nodes, Turned[<<u, v>>] \in Nat
      PROVE  Turned[<<u, v>>] > 0 /\ h[u] <= Turned[<<u, v>>] + h[v]
  <2>1. PICK c \in EdgeCosts[<<v, u>>] \cup {w[<<v, u>>] : w \in FirstGraphs} : c = cost[<<v, u>>]
    BY DEF EdgesKnown
  <2>2. c # 0
    BY PlannerAssumption
  <2>3. c = D!Inf \/ Heuristic[<<v, u>>] <= c
    BY PlannersAssumption DEF D!MetricHeuristic, D!Above
  <2>4. h[u] <= h[v] + Heuristic[<<v, u>>]
    BY PlannersAssumption DEF D!MetricHeuristic, D!TypeOK
  <2>5. Heuristic[<<v, u>>] \in Nat
    BY PlannerAssumption
  <2>6. c \in Nat /\ c = Turned[<<u, v>>]
    BY <1>2, <2>1, TurnedIs
  <2> QED BY <1>1, <2>2, <2>3, <2>4, <2>5, <2>6 DEF D!Inf
<1> QED BY <1>1, <1>2 DEF Bounded

\* A call returns only when no inconsistent node is in front of the agent.
SettledD ==
  phase = "idle" => /\ rhs[start] = g[start]
                    /\ \A v \in Nodes : g[v] # rhs[v] => ~D!KeyLess(D!Key(v), D!Key(start))

\* What the keys say of the nodes behind the agent.
LEMMA BehindD ==
  ASSUME D!TypeOK, SettledD, phase = "idle",
         NEW h, \A v \in Nodes : h[v] = Heuristic[<<start, v>>]
  PROVE  Behind(g, rhs, h, start)
<1>1. \A v \in Nodes : g[v] \in D!Cost /\ rhs[v] \in D!Cost /\ h[v] \in Nat
  BY PlannerAssumption DEF D!SearchTypeOK, D!TypeOK
<1>2. h[start] = 0 /\ start \in Nodes /\ g[start] = rhs[start] /\ km \in Nat
  BY PlannersAssumption DEF D!MetricHeuristic, SettledD, D!TypeOK
<1>3. ASSUME NEW v \in Nodes, g[v] # rhs[v], NEW y \in {g[v], rhs[v]}, y \in Nat
      PROVE  g[start] \in Nat /\ g[start] <= y + h[v] /\ (g[start] = y + h[v] => g[start] <= y)
  <2>1. PICK x : x = D!Least({g[v], rhs[v]})
    OBVIOUS
  <2>2. x \in Nat /\ x <= y
    BY <1>1, <1>3, <2>1, LeastIsD
  <2>3. D!Key(v) = <<x + h[v] + km, x>>
    <3>1. Heuristic[<<start, v>>] = h[v] /\ h[v] \in D!Cost /\ x \in D!Cost /\ km \in D!Cost
      BY <1>1, <1>2, <2>2 DEF D!Cost
    <3>2. D!CheckedAdd(x, Heuristic[<<start, v>>]) = x + h[v]
      BY <1>1, <2>2, <3>1, AddedD
    <3>3. x + h[v] \in D!Cost /\ x + h[v] \in Nat
      BY <1>1, <2>2 DEF D!Cost
    <3>5. D!CheckedAdd(x + h[v], km) = x + h[v] + km
      BY <1>2, <3>1, <3>3, AddedD
    <3> QED BY <2>1, <3>2, <3>5 DEF D!Key, D!KeyOf
  <2>4. PICK G \in D!Cost : G = g[start]
    BY <1>1, <1>2
  <2>5. D!Least({G, G}) = G
    BY <2>4, NumberD, LeastIsD DEF D!Least
  <2>6. D!Key(start) = <<D!CheckedAdd(G, km), G>>
    <3>1. D!CheckedAdd(G, 0) = G
      BY DEF D!CheckedAdd, D!Cost, D!Inf
    <3> QED BY <1>2, <2>4, <2>5, <3>1 DEF D!Key, D!KeyOf
  <2>7. ~D!KeyLess(<<x + h[v] + km, x>>, <<D!CheckedAdd(G, km), G>>)
    BY <1>3, <2>3, <2>6 DEF SettledD
  <2>8. PICK i \in Nat : i = h[v]
    BY <1>1
  <2>9. G \in Nat /\ G <= x + i /\ (G = x + i => G <= x)
    BY <1>2, <2>2, <2>4, <2>7, <2>8 DEF D!CheckedAdd, D!KeyLess, D!Less, D!Cost, D!Inf
  <2> QED BY <1>1, <1>3, <2>2, <2>4, <2>8, <2>9
<1> QED BY <1>2, <1>3 DEF Behind

\* A planner that has settled knows the distance.
LEMMA DistanceD ==
  ASSUME D!TypeOK, D!Repairable, EdgesKnown, SettledD, NEW d \in [Nodes -> D!Cost]
  PROVE  D!DistanceKnown(d)
<1> SUFFICES ASSUME phase = "idle", unnotified = {}, D!Solves(d) PROVE g[start] = d[start]
  BY DEF D!DistanceKnown
<1>1. D!SearchTypeOK /\ start \in Nodes /\ Goal \in Nodes
  BY PlannerAssumption DEF D!TypeOK
<1>2. PICK h : h = [v \in Nodes |-> Heuristic[<<start, v>>]]
  OBVIOUS
<1>3. \A v \in Nodes : h[v] = Heuristic[<<start, v>>]
  BY <1>2
<1>4. \A v \in Nodes : rhs[v] = D!Lookahead(g, v)
  BY DEF D!Repairable
<1>5. g \in [Nodes -> D!Cost]
  BY <1>1 DEF D!SearchTypeOK
<1>6. Relaxes(Turned, Goal, g, rhs)
  BY <1>1, <1>4, <1>5, RelaxesD
<1>7. Relaxes(Turned, Goal, d, d)
  BY <1>1, RelaxesD DEF D!Solves
<1>8. Bounded(Turned, h, start) /\ Behind(g, rhs, h, start)
  BY <1>1, <1>3, BoundedD, BehindD
<1>9. g[start] \in Nat => d[start] \in Nat /\ d[start] <= g[start]
  BY <1>1, <1>6, <1>7, <1>8, NotTooLow
<1>10. d[start] \in Nat => g[start] \in Nat /\ g[start] <= d[start]
  BY <1>1, <1>6, <1>7, <1>8, NotTooHigh
<1>11. g[start] \in D!Cost /\ d[start] \in D!Cost
  BY <1>1, <1>5
<1> QED BY <1>9, <1>10, <1>11 DEF D!Cost

-----------------------------------------------------------------------------
(* D* Lite follows a shortest route.                                       *)

LEMMA CardinalityD == \A X : D!Cardinality(X) = Cardinality(X)
<1>1. \A X : D!IsFiniteSet(X) <=> IsFiniteSet(X)
  BY Zenon DEF D!IsFiniteSet, IsFiniteSet
<1> QED BY <1>1, Zenon DEF D!Cardinality, Cardinality

LEMMA PathsD ==
  /\ \A w, a : D!Distances(w, a) = Distances(w, a)
  /\ \A w, p : D!PathCost(w, p) = PathCost(w, p)
  /\ \A a, b, next : D!SuccessorPath(a, b, next) = SuccessorPath(a, b, next)
<1>1. \A step, base, n : D!Iterated(step, base, n) = Iterated(step, base, n)
  BY Zenon DEF D!Iterated, Iterated
<1>3. \A p, q : D!CheckedAdd(p, q) = CheckedAdd(p, q)
  BY Zenon DEF D!CheckedAdd, CheckedAdd, D!Inf, Inf
<1>4. \A X : D!Least(X) = Least(X)
  BY Zenon DEF D!Least, Least, D!Less, Less, D!Inf, Inf
<1>5. \A w, a : D!Distances(w, a) = Distances(w, a)
  BY <1>1, <1>3, <1>4, CardinalityD, Zenon DEF D!Distances, Distances, D!Cost, Cost, D!Inf, Inf
<1>6. \A w, p : D!PathCost(w, p) = PathCost(w, p)
  BY <1>3, Zenon DEF D!PathCost, PathCost
<1>7. \A a, b, next : D!SuccessorPath(a, b, next) = SuccessorPath(a, b, next)
  <2> SUFFICES ASSUME NEW a, NEW b, NEW next
               PROVE  D!SuccessorPath(a, b, next) = SuccessorPath(a, b, next)
    OBVIOUS
  <2>1. PICK walk : walk = [path \in Seq(Nodes) |->
          IF path = <<>> \/ Last(path) = b THEN path
          ELSE LET v == next[<<Last(path), ToSet(path)>>]
               IN IF v = None \/ v \in ToSet(path) THEN <<>> ELSE Append(path, v)]
    OBVIOUS
  <2>2. PICK q : q = Iterated(walk, <<a>>, Cardinality(Nodes))
    OBVIOUS
  <2>3. SuccessorPath(a, b, next) = IF q # <<>> /\ Last(q) = b THEN q ELSE <<>>
    BY <2>1, <2>2, Zenon DEF SuccessorPath
  <2>4. PICK step : step = [path \in Seq(Nodes) |->
          IF path = <<>> \/ D!Last(path) = b THEN path
          ELSE LET v == next[<<D!Last(path), D!ToSet(path)>>]
               IN IF v = D!None \/ v \in D!ToSet(path) THEN <<>> ELSE Append(path, v)]
    OBVIOUS
  <2>5. PICK p : p = D!Iterated(step, <<a>>, D!Cardinality(Nodes))
    OBVIOUS
  <2>6. D!SuccessorPath(a, b, next) = IF p # <<>> /\ D!Last(p) = b THEN p ELSE <<>>
    BY <2>4, <2>5, Zenon DEF D!SuccessorPath
  <2>7. step = walk
    BY <2>1, <2>4, Zenon DEF D!Last, Last, D!ToSet, ToSet, D!None, None
  <2>8. p = q
    BY <1>1, <2>2, <2>5, <2>7, CardinalityD
  <2>9. D!Last(p) = Last(q)
    BY <2>8, Zenon DEF D!Last, Last
  <2> QED BY <2>3, <2>6, <2>8, <2>9
<1> QED BY <1>5, <1>6, <1>7

LEMMA SolvesD ==
  ASSUME D!SearchTypeOK, EdgesKnown, NEW d, d = D!Distances(D!Reversed(cost), Goal)
  PROVE  d \in [Nodes -> D!Cost] /\ D!Solves(d)
<1>1. Cost = D!Cost /\ Graphs = D!Graphs /\ Goal \in Nodes
  BY PlannerAssumption DEF Cost, D!Cost, Inf, D!Inf, Graphs, D!Graphs
<1>2. Positive(cost)
  BY <1>1, CostsPositive DEF D!SearchTypeOK
<1>3. Turned \in Graphs
  BY <1>2 DEF Positive, Graphs, Turned
<1>4. Positive(Turned)
  <2>1. ASSUME NEW e \in Nodes \X Nodes PROVE Turned[e] # 0
    <3>1. PICK u \in Nodes, v \in Nodes : e = <<u, v>>
      OBVIOUS
    <3>2. cost[<<v, u>>] # 0
      BY <1>2 DEF Positive
    <3> QED BY <3>1, <3>2, TurnedIs
  <2> QED BY <1>3, <2>1 DEF Positive
<1>5. d = Distances(Turned, Goal)
  <2>1. D!Reversed(cost) = Turned
    BY Zenon DEF D!Reversed, Turned
  <2> QED BY <2>1, PathsD
<1>6. d \in [Nodes -> Cost] /\ Relaxes(Turned, Goal, d, d)
  BY <1>1, <1>4, <1>5, DistancesSolve
<1>7. PICK r : r = [v \in Nodes |-> D!Lookahead(d, v)]
  OBVIOUS
<1>8. \A v \in Nodes : r[v] = D!Lookahead(d, v)
  BY <1>7
<1>9. Relaxes(Turned, Goal, d, r)
  BY <1>1, <1>6, <1>8, RelaxesD
<1>10. r \in [Nodes -> Cost]
  <2>1. \A v \in Nodes : D!Lookahead(d, v) \in Cost
    BY <1>1, <1>6, LookaheadD
  <2> QED BY <1>7, <2>1
<1>11. \A v \in Nodes : d[v] = r[v]
  BY <1>1, <1>6, <1>9, <1>10, RelaxedOnce
<1> QED BY <1>1, <1>6, <1>8, <1>11 DEF D!Solves

\* Of the nodes with the best value the policy takes the first.
LEMMA FirstBest ==
  ASSUME NEW C \in SUBSET Nodes, NEW c, NEW m \in Nat, \A v \in C : c[v] \in Nat /\ m <= c[v],
         \E v \in C : c[v] = m,
         NEW z, z = CHOOSE v \in C : \A y \in C : Less(c[v], c[y]) \/ (c[v] = c[y] /\ v <= y)
  PROVE  z \in C /\ c[z] = m
<1> DEFINE N == {v \in C : c[v] = m}
<1>1. N \in SUBSET Nat /\ N # {}
  BY NodesAssumption
<1>2. PICK v \in N : \A y \in N : v <= y
  BY <1>1, LeastOf
<1>3. ASSUME NEW y \in C PROVE Less(c[v], c[y]) \/ (c[v] = c[y] /\ v <= y)
  <2>1. c[v] = m /\ c[y] \in Nat /\ m <= c[y]
    BY <1>2
  <2>2. CASE c[y] = m
    BY <1>2, <2>1, <2>2
  <2>3. CASE c[y] # m
    BY <2>1, <2>3 DEF Less, Inf
  <2> QED BY <2>2, <2>3
<1>4. v \in C /\ c[v] = m
  BY <1>2
<1>5. z \in C /\ \A y \in C : Less(c[z], c[y]) \/ (c[z] = c[y] /\ z <= y)
  BY <1>3, <1>4
<1>6. c[z] \in Nat /\ m <= c[z] /\ (Less(c[z], m) \/ c[z] = m)
  BY <1>4, <1>5
<1> QED BY <1>5, <1>6 DEF Less, Inf

LEMMA PolicyD ==
  ASSUME D!SearchTypeOK, NEW h, NEW a, Relaxes(Turned, Goal, g, rhs), Bounded(Turned, h, a),
         NEW next, next = [k \in Nodes \X SUBSET Nodes |-> D!NextStep(k[1], k[2])]
  PROVE  Policy(cost, g, rhs, h, a, Goal, next)
<1> SUFFICES ASSUME NEW u \in Nodes, NEW past \in SUBSET Nodes,
                    InFrontOf(g, rhs, h, a, u), u # Goal, \A v \in past : g[v] >= g[u]
             PROVE  Downhill(cost, g, u, past, next[<<u, past>>])
  BY DEF Policy
<1>1. \A y, v \in Nodes : g[y] \in D!Cost /\ cost[<<y, v>>] \in D!Cost
  BY DEF D!SearchTypeOK, D!Graphs
<1>2. g[u] = rhs[u] /\ g[u] \in Nat
  BY DEF InFrontOf
<1> DEFINE C == {v \in D!Successors(cost, u) \ past : g[v] # D!Inf}
<1>4. \A v : v \in C <=> v \in Nodes /\ v \notin past /\ g[v] \in Nat /\ cost[<<u, v>>] \in Nat
  BY <1>1, NumberD DEF D!Successors
<1> HIDE DEF C
<1>5. PICK c : c = [v \in Nodes |-> D!CheckedAdd(cost[<<u, v>>], g[v])]
  OBVIOUS
<1>6. \A v \in C : c[v] = g[v] + cost[<<u, v>>]
  <2> SUFFICES ASSUME NEW v \in C PROVE c[v] = g[v] + cost[<<u, v>>]
    OBVIOUS
  <2>1. PICK x \in D!Cost, y \in D!Cost : x = cost[<<u, v>>] /\ y = g[v] /\ x \in Nat /\ y \in Nat
    BY <1>1, <1>4
  <2>2. D!CheckedAdd(x, y) = x + y
    BY <2>1, AddedD
  <2> QED BY <1>4, <1>5, <2>1, <2>2
<1>7. \A v \in C : c[v] \in Nat /\ g[u] <= c[v]
  <2> SUFFICES ASSUME NEW v \in C PROVE c[v] \in Nat /\ g[u] <= c[v]
    OBVIOUS
  <2>1. v \in Nodes /\ g[v] \in Nat /\ cost[<<u, v>>] \in Nat
    BY <1>4
  <2>2. Turned[<<v, u>>] = cost[<<u, v>>]
    BY <2>1, TurnedIs
  <2>3. rhs[u] <= g[v] + cost[<<u, v>>]
    BY <2>1, <2>2 DEF Relaxes
  <2> QED BY <1>2, <1>6, <2>1, <2>3
<1>8. \E v \in C : c[v] = g[u]
  <2>1. PICK v \in Nodes : g[v] \in Nat /\ Turned[<<v, u>>] \in Nat /\ rhs[u] = g[v] + Turned[<<v, u>>]
    BY <1>2 DEF Relaxes
  <2>2. Turned[<<v, u>>] = cost[<<u, v>>] /\ Turned[<<v, u>>] > 0
    BY <2>1, TurnedIs DEF Bounded
  <2>3. g[v] < g[u]
    BY <1>2, <2>1, <2>2
  <2>4. v \notin past
    BY <1>2, <2>1, <2>3
  <2>5. v \in C
    BY <1>4, <2>1, <2>2, <2>4
  <2> QED BY <1>2, <1>6, <2>1, <2>2, <2>5
<1>9. PICK z : z = CHOOSE v \in C : \A y \in C : Less(c[v], c[y]) \/ (c[v] = c[y] /\ v <= y)
  OBVIOUS
<1>10. C \in SUBSET Nodes
  BY <1>4
<1>11. z \in C /\ c[z] = g[u]
  BY <1>2, <1>7, <1>8, <1>9, <1>10, FirstBest
<1>12. next[<<u, past>>] = z
  <2>1. next[<<u, past>>] = D!NextStep(u, past)
    OBVIOUS
  <2>2. \A p, q : D!Less(p, q) <=> Less(p, q)
    BY Zenon DEF D!Less, Less, D!Inf, Inf
  <2>3. \A v \in C : c[v] = D!CheckedAdd(cost[<<u, v>>], g[v])
    BY <1>5, <1>10
  <2>4. D!NextStep(u, past) = IF C = {} THEN D!None
          ELSE CHOOSE v \in C : \A y \in C :
            D!Less(D!CheckedAdd(cost[<<u, v>>], g[v]), D!CheckedAdd(cost[<<u, y>>], g[y]))
              \/ (D!CheckedAdd(cost[<<u, v>>], g[v]) = D!CheckedAdd(cost[<<u, y>>], g[y]) /\ v <= y)
    BY Zenon DEF D!NextStep, C
  <2>5. (CHOOSE v \in C : \A y \in C :
            D!Less(D!CheckedAdd(cost[<<u, v>>], g[v]), D!CheckedAdd(cost[<<u, y>>], g[y]))
              \/ (D!CheckedAdd(cost[<<u, v>>], g[v]) = D!CheckedAdd(cost[<<u, y>>], g[y]) /\ v <= y))
        = CHOOSE v \in C : \A y \in C : Less(c[v], c[y]) \/ (c[v] = c[y] /\ v <= y)
    BY <2>2, <2>3
  <2> QED BY <1>9, <1>11, <2>1, <2>4, <2>5
<1>13. z \in Nodes /\ z \notin past /\ g[z] \in Nat /\ cost[<<u, z>>] \in Nat /\ g[u] = g[z] + cost[<<u, z>>]
  BY <1>4, <1>6, <1>11
<1> QED BY <1>2, <1>12, <1>13 DEF Downhill

LEMMA RoutesD ==
  ASSUME D!TypeOK, D!Repairable, EdgesKnown, SettledD
  PROVE  D!ShortestPathKnown
<1> SUFFICES ASSUME phase = "idle", unnotified = {}
             PROVE  /\ LET d == D!Distances(D!Reversed(cost), Goal) IN D!Solves(d) /\ D!DistanceKnown(d)
                    /\ g[start] # D!Inf => D!Route # <<>> /\ D!PathCost(cost, D!Route) = g[start]
  BY DEF D!ShortestPathKnown
<1>1. D!SearchTypeOK /\ start \in Nodes /\ Goal \in Nodes
  BY PlannerAssumption DEF D!TypeOK
<1>2. PICK d : d = D!Distances(D!Reversed(cost), Goal)
  OBVIOUS
<1>3. D!Solves(d) /\ D!DistanceKnown(d)
  BY <1>1, <1>2, SolvesD, DistanceD
<1>4. PICK next : next = [k \in Nodes \X SUBSET Nodes |-> D!NextStep(k[1], k[2])]
  OBVIOUS
<1>5. D!Route = SuccessorPath(start, Goal, next)
  <2>1. D!Route = D!SuccessorPath(start, Goal, next)
    BY <1>4, Zenon DEF D!Route
  <2> QED BY <2>1, PathsD
<1>6. PICK h : h = [v \in Nodes |-> Heuristic[<<start, v>>]]
  OBVIOUS
<1>7. \A v \in Nodes : h[v] = Heuristic[<<start, v>>]
  BY <1>6
<1>8. \A v \in Nodes : rhs[v] = D!Lookahead(g, v)
  BY DEF D!Repairable
<1>9. g \in [Nodes -> D!Cost]
  BY <1>1 DEF D!SearchTypeOK
<1>10. Relaxes(Turned, Goal, g, rhs) /\ Bounded(Turned, h, start) /\ Behind(g, rhs, h, start)
  BY <1>1, <1>7, <1>8, <1>9, RelaxesD, BoundedD, BehindD
<1>11. ASSUME g[start] # D!Inf
       PROVE  D!Route # <<>> /\ D!PathCost(cost, D!Route) = g[start]
  <2>1. g[start] \in Nat
    BY <1>1, <1>9, <1>11, NumberD
  <2>2. Policy(cost, g, rhs, h, start, Goal, next)
    BY <1>1, <1>4, <1>10, PolicyD
  <2>3. SuccessorPath(start, Goal, next) # <<>> /\ PathCost(cost, SuccessorPath(start, Goal, next)) = g[start]
    <3>1. \A v \in Nodes : g[v] \in Int
      BY <1>9 DEF D!Cost, D!Inf
    <3> QED BY <1>1, <1>10, <2>1, <2>2, <3>1, TurnedIs, WalkArrives
  <2> QED BY <1>5, <2>3, PathsD
<1> QED BY <1>2, <1>3, <1>11

\* The order of the keys is total.
LEMMA KeyBetweenD ==
  ASSUME NEW k \in D!Cost \X D!Cost, NEW l \in D!Cost \X D!Cost, NEW m \in D!Cost \X D!Cost,
         D!KeyLess(k, l), ~D!KeyLess(m, l)
  PROVE  D!KeyLess(k, m)
<1> DEFINE k1 == k[1] k2 == k[2] l1 == l[1] l2 == l[2] m1 == m[1] m2 == m[2]
<1>1. k1 \in D!Cost /\ k2 \in D!Cost /\ l1 \in D!Cost /\ l2 \in D!Cost /\ m1 \in D!Cost /\ m2 \in D!Cost
  OBVIOUS
<1>2. D!Less(k1, l1) \/ (k1 = l1 /\ D!Less(k2, l2))
  BY DEF D!KeyLess
<1>3. ~(D!Less(m1, l1) \/ (m1 = l1 /\ D!Less(m2, l2)))
  BY DEF D!KeyLess
<1>4. D!Less(k1, m1) \/ (k1 = m1 /\ D!Less(k2, m2))
  <2> HIDE DEF k1, k2, l1, l2, m1, m2
  <2> QED BY <1>1, <1>2, <1>3 DEF D!Less, D!Cost, D!Inf
<1> QED BY <1>4 DEF D!KeyLess

LEMMA SettledNextD ==
  ASSUME D!TypeOK, D!Repairable, SettledD, EdgesKnown, D!Next
  PROVE  SettledD' /\ EdgesKnown'
<1>1. CASE D!Return
  <2>1. UNCHANGED <<cost, g, rhs, start, km>>
    BY <1>1 DEF D!Return, D!graph, D!search, D!agent
  <2>2. \A w \in Nodes : D!Key(w)' = D!Key(w) /\ D!Key(w) \in D!Cost \X D!Cost
    BY <2>1, KeyD DEF D!Key, D!KeyOf, D!TypeOK, D!SearchTypeOK
  <2>3. EdgesKnown'
    BY <2>1 DEF EdgesKnown
  <2>4. CASE queue = {} /\ rhs[start] = g[start]
    BY <2>1, <2>3, <2>4 DEF D!Repairable, SettledD
  <2>5. CASE \E e \in queue : D!AtTop(e) /\ D!Current(e) /\ ~D!Unfinished(e.key)
    <3>1. PICK e \in queue : D!AtTop(e) /\ ~D!Unfinished(e.key)
      BY <2>5
    <3>2. rhs[start] = g[start] /\ ~D!KeyLess(e.key, D!Key(start))
      BY <3>1 DEF D!Unfinished
    <3>3. e.key \in D!Cost \X D!Cost /\ start \in Nodes
      BY PlannerAssumption DEF D!TypeOK, D!SearchTypeOK
    <3>4. ASSUME NEW v \in Nodes, g[v] # rhs[v] PROVE ~D!KeyLess(D!Key(v), D!Key(start))
      <4>1. PICK i \in queue : i.node = v /\ ~D!KeyLess(D!Key(v), i.key)
        BY <3>4 DEF D!Repairable
      <4>2. ~D!KeyLess(i.key, e.key)
        BY <3>1 DEF D!AtTop
      <4>3. i.key \in D!Cost \X D!Cost
        BY DEF D!TypeOK, D!SearchTypeOK
      <4>4. ~D!KeyLess(i.key, D!Key(start))
        BY <2>2, <3>2, <3>3, <4>2, <4>3, KeyBetweenD
      <4> QED BY <2>2, <3>3, <4>1, <4>3, <4>4, KeyBetweenD
    <3> QED BY <2>1, <2>2, <2>3, <3>2, <3>3, <3>4 DEF SettledD
  <2> QED BY <1>1, <2>4, <2>5 DEF D!Return
<1>2. ASSUME NEW u \in Nodes, NEW v \in Nodes, NEW c \in EdgeCosts[<<u, v>>], D!ChangeEdge(u, v, c), UNCHANGED D!agent
      PROVE  SettledD' /\ EdgesKnown'
  <2>1. UNCHANGED <<g, rhs, phase, start, km>> /\ cost' = [cost EXCEPT ![<<u, v>>] = c]
    BY <1>2 DEF D!ChangeEdge, D!search, D!SetEdge, D!agent
  <2>2. \A w \in Nodes : D!Key(w)' = D!Key(w)
    BY <2>1 DEF D!Key, D!KeyOf
  <2>3. SettledD'
    BY <2>1, <2>2 DEF SettledD, D!TypeOK
  <2>4. cost \in [Nodes \X Nodes -> D!Cost]
    BY DEF D!TypeOK, D!SearchTypeOK, D!Graphs
  <2>5. ASSUME NEW x \in Nodes, NEW y \in Nodes
        PROVE  cost'[<<x, y>>] \in EdgeCosts[<<x, y>>] \cup {w[<<x, y>>] : w \in FirstGraphs}
    <3>1. CASE x = u /\ y = v
      BY <2>1, <2>4, <3>1
    <3>2. CASE ~(x = u /\ y = v)
      <4>1. cost'[<<x, y>>] = cost[<<x, y>>]
        BY <2>1, <2>4, <3>2
      <4> QED BY <4>1 DEF EdgesKnown
    <3> QED BY <3>1, <3>2
  <2> QED BY <2>3, <2>5 DEF EdgesKnown
<1>3. ASSUME UNCHANGED cost, phase' = "searching" PROVE SettledD' /\ EdgesKnown'
  BY <1>3 DEF SettledD, EdgesKnown
<1>4. ASSUME NEW u \in Nodes, NEW v \in Nodes, D!NotifyEdgeChange(u, v)
      PROVE  UNCHANGED cost /\ phase' = "searching"
  BY <1>4 DEF D!NotifyEdgeChange, D!Notified
<1>5. ASSUME NEW e \in queue, D!DropConsistent(e) \/ D!PushAgain(e) \/ D!Lower(e) \/ D!Raise(e)
      PROVE  UNCHANGED cost /\ phase' = "searching"
  BY <1>5 DEF D!DropConsistent, D!PushAgain, D!Lower, D!Raise, D!graph
<1>6. ASSUME NEW v \in Nodes, D!MoveStart(v) PROVE UNCHANGED cost /\ phase' = "searching"
  BY <1>6 DEF D!MoveStart, D!graph
<1> QED BY <1>1, <1>2, <1>3, <1>4, <1>5, <1>6 DEF D!Next, D!Compute


LEMMA PlanStutterD ==
  ASSUME D!TypeOK, D!Repairable, SettledD, EdgesKnown,
         UNCHANGED <<start, km, moves, cost, unnotified, changes, g, rhs, queue, phase>>
  PROVE  D!TypeOK' /\ D!Repairable' /\ SettledD' /\ EdgesKnown'
<1>1. D!TypeOK'
  BY DEF D!TypeOK, D!SearchTypeOK
<1>2. \A w \in Nodes : D!Key(w)' = D!Key(w) /\ D!Lookahead(g, w)' = D!Lookahead(g, w)
  BY DEF D!Key, D!KeyOf, D!Lookahead
<1>3. D!Exhausted' = D!Exhausted
  BY <1>2 DEF D!Exhausted, D!AtTop
<1>4. D!Repairable'
  BY <1>2, <1>3 DEF D!Repairable
<1>5. SettledD' /\ EdgesKnown'
  <2>1. start \in Nodes
    BY DEF D!TypeOK
  <2> QED BY <1>2, <2>1 DEF SettledD, EdgesKnown
<1> QED BY <1>1, <1>4, <1>5

-----------------------------------------------------------------------------
(* The scheduler.                                                          *)

LEMMA FiniteS == \A x : S!IsFiniteSet(x) <=> IsFiniteSet(x)
BY DEF S!IsFiniteSet, IsFiniteSet

LEMMA CardinalityS == \A x : S!Cardinality(x) = Cardinality(x)
BY FiniteS, Zenon DEF S!Cardinality, Cardinality

LEMMA JobsAre == /\ \E n \in Nat : Jobs = 1 .. n
                 /\ IsFiniteSet(Jobs) /\ S!Idle \notin Jobs
                 /\ \A j \in Jobs : j \in Int
<1>1. IsFiniteSet(Jobs) /\ Jobs = 1 .. Cardinality(Jobs)
  BY LabsAssumption, FiniteS, CardinalityS DEF S!InputsAssumption
<1>2. Cardinality(Jobs) \in Nat
  BY <1>1, FS_CardinalityType
<1> QED BY <1>1, <1>2 DEF S!Idle

\* A strict total order of the jobs.
Total(R) ==
  /\ \A i, j \in Jobs : i = j \/ <<i, j>> \in R \/ <<j, i>> \in R
  /\ \A i, j, k \in Jobs : <<i, j>> \in R /\ <<j, k>> \in R => <<i, k>> \in R

FirstIn(R, A) == \E j \in A : \A k \in A \ {j} : <<j, k>> \in R

\* One of some jobs is the first.
LEMMA FirstExists ==
  ASSUME NEW R, Total(R), NEW A \in SUBSET Jobs, A # {}
  PROVE  FirstIn(R, A)
<1> DEFINE Bad == {m \in Nat : \E B \in SUBSET Jobs : B \subseteq 1 .. m /\ B # {} /\ ~FirstIn(R, B)}
<1>1. ASSUME Bad # {} PROVE FALSE
  <2>1. PICK m \in Bad : \A x \in Bad : m <= x
    <3>1. Bad \in SUBSET Nat
      OBVIOUS
    <3> HIDE DEF Bad
    <3> QED BY <1>1, <3>1, LeastOf
  <2>2. m \in Nat
    OBVIOUS
  <2>3. PICK B \in SUBSET Jobs : B \subseteq 1 .. m /\ B # {} /\ ~FirstIn(R, B)
    OBVIOUS
  <2>4. PICK l \in Nat : m = l + 1
    <3>1. ASSUME m = 0 PROVE FALSE
      <4>1. 1 .. m = {}
        BY <3>1
      <4> QED BY <2>3, <4>1
    <3>2. m - 1 \in Nat /\ m = (m - 1) + 1
      BY <2>2, <3>1
    <3> QED BY <3>2
  <2>5. l \notin Bad
    BY <2>1, <2>4
  <2>6. ASSUME NEW C \in SUBSET Jobs, C \subseteq 1 .. l, C # {}
        PROVE  FirstIn(R, C)
    BY <2>5, <2>6
  <2> HIDE DEF Bad
  <2>7. m \in B
    <3>1. ASSUME m \notin B PROVE B \subseteq 1 .. l
      BY <2>3, <2>4, <3>1
    <3> QED BY <2>3, <2>6, <3>1
  <2> DEFINE C == B \ {m}
  <2>8. C \in SUBSET Jobs /\ C \subseteq 1 .. l
    BY <2>3, <2>4
  <2>9. CASE C = {}
    BY <2>3, <2>7, <2>9 DEF FirstIn
  <2>10. CASE C # {}
    <3>1. PICK j \in C : \A k \in C \ {j} : <<j, k>> \in R
      BY <2>6, <2>8, <2>10 DEF FirstIn
    <3>2. CASE <<j, m>> \in R
      <4>1. \A k \in B \ {j} : <<j, k>> \in R
        BY <3>1, <3>2
      <4> QED BY <2>3, <3>1, <4>1 DEF FirstIn
    <3>3. CASE <<m, j>> \in R
      <4>1. \A k \in B \ {m} : <<m, k>> \in R
        BY <2>3, <2>7, <3>1, <3>3 DEF Total
      <4> QED BY <2>3, <2>7, <4>1 DEF FirstIn
    <3> QED BY <2>3, <2>7, <3>1, <3>2, <3>3 DEF Total
  <2> QED BY <2>9, <2>10
<1>2. PICK n \in Nat : Jobs = 1 .. n
  BY JobsAre
<1> QED BY <1>1, <1>2

Ordered(R, s, A) ==
  /\ s \in [1 .. Cardinality(A) -> A] /\ \A j \in A : \E n \in DOMAIN s : s[n] = j
  /\ \A m, n \in DOMAIN s : m < n => <<s[m], s[n]>> \in R

\* Some jobs can be put in order.
LEMMA OrderExists ==
  ASSUME NEW R, Total(R), NEW A \in SUBSET Jobs
  PROVE  \E s : Ordered(R, s, A)
<1> DEFINE Bad == {m \in Nat : \E B \in SUBSET Jobs : Cardinality(B) = m /\ ~\E s : Ordered(R, s, B)}
<1>1. ASSUME Bad # {} PROVE FALSE
  <2>1. PICK m \in Bad : \A x \in Bad : m <= x
    <3>1. Bad \in SUBSET Nat
      OBVIOUS
    <3> HIDE DEF Bad
    <3> QED BY <1>1, <3>1, LeastOf
  <2>2. m \in Nat
    OBVIOUS
  <2>3. PICK B \in SUBSET Jobs : Cardinality(B) = m /\ ~\E s : Ordered(R, s, B)
    OBVIOUS
  <2>4. IsFiniteSet(B)
    BY JobsAre, FS_Subset
  <2>5. CASE B = {}
    <3>1. m = 0
      BY <2>3, <2>5, FS_EmptySet
    <3>2. Ordered(R, [n \in 1 .. 0 |-> 0], B)
      BY <2>3, <2>5, <3>1 DEF Ordered
    <3> QED BY <2>3, <3>2
  <2>6. CASE B # {}
    <3>1. PICK j \in B : \A k \in B \ {j} : <<j, k>> \in R
      BY <2>6, FirstExists DEF FirstIn
    <3>2. PICK C \in SUBSET Jobs : C = B \ {j}
      BY <2>3
    <3>3. IsFiniteSet(C) /\ Cardinality(C) = m - 1 /\ Cardinality(C) \in Nat
      BY <2>3, <2>4, <3>1, <3>2, FS_RemoveElement, FS_CardinalityType
    <3>4. PICK l \in Nat : l = Cardinality(C) /\ m = l + 1
      BY <2>2, <3>3
    <3>5. l \notin Bad
      BY <2>1, <3>4
    <3>6. PICK s : Ordered(R, s, C)
      BY <3>4, <3>5
    <3> HIDE DEF Bad
    <3> DEFINE w == [n \in 1 .. m |-> IF n = 1 THEN j ELSE s[n - 1]]
    <3>7. s \in [1 .. l -> C]
      BY <3>4, <3>6 DEF Ordered
    <3>8. \A n \in 1 .. m : n # 1 => n - 1 \in 1 .. l
      BY <3>4
    <3>9. w \in [1 .. m -> B]
      BY <3>1, <3>2, <3>7, <3>8
    <3>10. ASSUME NEW k \in B PROVE \E n \in 1 .. m : w[n] = k
      <4>1. CASE k = j
        BY <3>4, <4>1
      <4>2. CASE k # j
        <5>1. PICK n \in 1 .. l : s[n] = k
          BY <3>2, <3>6, <3>7, <4>2 DEF Ordered
        <5>2. n + 1 \in 1 .. m /\ n + 1 # 1 /\ (n + 1) - 1 = n
          BY <3>4
        <5> QED BY <5>1, <5>2
      <4> QED BY <4>1, <4>2
    <3>11. ASSUME NEW a \in 1 .. m, NEW b \in 1 .. m, a < b PROVE <<w[a], w[b]>> \in R
      <4>1. b # 1 /\ b - 1 \in 1 .. l /\ w[b] = s[b - 1]
        BY <3>8, <3>11
      <4>2. CASE a = 1
        <5>1. s[b - 1] \in C
          BY <3>7, <4>1
        <5> QED BY <3>1, <3>2, <4>1, <4>2, <5>1
      <4>3. CASE a # 1
        <5>1. a - 1 \in 1 .. l /\ a - 1 < b - 1 /\ w[a] = s[a - 1]
          BY <3>8, <3>11, <4>3
        <5> QED BY <3>6, <3>7, <4>1, <5>1 DEF Ordered
      <4> QED BY <4>2, <4>3
    <3>12. DOMAIN w = 1 .. m
      OBVIOUS
    <3> HIDE DEF w
    <3>13. Ordered(R, w, B)
      BY <2>3, <3>9, <3>10, <3>11, <3>12 DEF Ordered
    <3> QED BY <2>3, <3>13
  <2> QED BY <2>5, <2>6
<1>2. Cardinality(A) \in Nat
  BY JobsAre, FS_Subset, FS_CardinalityType
<1> QED BY <1>1, <1>2

\* Ranks of two and of three parts are compared as it should be.
LEMMA BeforeTwo ==
  ASSUME NEW a \in Int, NEW i \in Int, NEW b \in Int, NEW j \in Int
  PROVE  S!Before(<<a, i>>, <<b, j>>) <=> a < b \/ (a = b /\ i < j)
<1> DEFINE r == <<a, i>>
           s == <<b, j>>
           first(n) == r[n] < s[n] /\ \A m \in 1 .. n - 1 : r[m] = s[m]
<1>1. S!Before(r, s) <=> \E n \in DOMAIN r : first(n)
  BY DEF S!Before
<1>2. r[1] = a /\ r[2] = i /\ s[1] = b /\ s[2] = j /\ DOMAIN r = {1, 2}
  OBVIOUS
<1>3. 1 .. 1 - 1 = {} /\ 1 .. 2 - 1 = {1}
  OBVIOUS
<1>4. first(1) <=> a < b
  BY <1>2, <1>3
<1>5. first(2) <=> i < j /\ a = b
  BY <1>2, <1>3
<1> HIDE DEF first
<1>6. (\E n \in DOMAIN r : first(n)) <=> first(1) \/ first(2)
  BY <1>2
<1> QED BY <1>1, <1>4, <1>5, <1>6

LEMMA BeforeThree ==
  ASSUME NEW x \in Int, NEW a \in Int, NEW i \in Int, NEW y \in Int, NEW b \in Int, NEW j \in Int
  PROVE  S!Before(<<x, a, i>>, <<y, b, j>>) <=> x < y \/ (x = y /\ (a < b \/ (a = b /\ i < j)))
<1> DEFINE r == <<x, a, i>>
           s == <<y, b, j>>
           first(n) == r[n] < s[n] /\ \A m \in 1 .. n - 1 : r[m] = s[m]
<1>1. S!Before(r, s) <=> \E n \in DOMAIN r : first(n)
  BY DEF S!Before
<1>2. r[1] = x /\ r[2] = a /\ r[3] = i /\ s[1] = y /\ s[2] = b /\ s[3] = j /\ DOMAIN r = {1, 2, 3}
  OBVIOUS
<1>3. 1 .. 1 - 1 = {} /\ 1 .. 2 - 1 = {1} /\ 1 .. 3 - 1 = {1, 2}
  OBVIOUS
<1>4. first(1) <=> x < y
  BY <1>2, <1>3
<1>5. first(2) <=> a < b /\ x = y
  BY <1>2, <1>3
<1>6. first(3) <=> i < j /\ x = y /\ a = b
  BY <1>2, <1>3
<1> HIDE DEF first
<1>7. (\E n \in DOMAIN r : first(n)) <=> first(1) \/ first(2) \/ first(3)
  BY <1>2
<1> QED BY <1>1, <1>4, <1>5, <1>6, <1>7

\* The types the steps rest on.
Typed ==
  /\ input.arrival \in [Jobs -> Nat] /\ input.burst \in [Jobs -> Nat \ {0}]
  /\ input.priority \in [Jobs -> Int]
  /\ input.policy \in {"fcfs", "sjf", "srtf", "rr", "priority"}
  /\ input.quantum \in Nat \ {0} /\ input.aging \in BOOLEAN
  /\ time \in Nat /\ remaining \in [Jobs -> Nat]
  /\ arrived \in SUBSET Jobs /\ ready \in Seq(Jobs)
  /\ segments \in Seq([start : Nat, end : Nat, job : Jobs \cup {S!Idle}])
  /\ firstStart \in [Jobs -> Nat \cup {S!None}] /\ completion \in [Jobs -> Nat \cup {S!None}]

LEMMA TypedIs == ASSUME S!TypeOK PROVE Typed
BY LabsAssumption DEF S!TypeOK, S!InputsAssumption, Typed

LEMMA NumbersAre ==
  ASSUME Typed
  PROVE  time \in Nat /\ \A i \in Jobs : i \in Int /\ input.arrival[i] \in Nat
<1>1. \A i \in Jobs : i \in Int
  BY JobsAre
<1>2. \A i \in Jobs : input.arrival[i] \in Nat
  BY DEF Typed
<1>3. time \in Nat
  BY DEF Typed
<1> QED BY <1>1, <1>2, <1>3

LEMMA SoonerIs ==
  ASSUME Typed, NEW i \in Jobs, NEW j \in Jobs
  PROVE  S!Sooner(i, j) <=>
           input.arrival[i] < input.arrival[j] \/ (input.arrival[i] = input.arrival[j] /\ i < j)
<1>1. PICK a \in Int, b \in Int, p \in Int, r \in Int :
        a = input.arrival[i] /\ b = input.arrival[j] /\ p = i /\ r = j
  BY NumbersAre
<1>2. S!Before(<<a, p>>, <<b, r>>) <=> a < b \/ (a = b /\ p < r)
  BY BeforeTwo
<1> QED BY <1>1, <1>2 DEF S!Sooner

\* The arrivals at t come in order, each once.
LEMMA InOrderIs ==
  ASSUME Typed, NEW A \in SUBSET Jobs
  PROVE  /\ S!InOrder(A) \in Seq(A)
         /\ \A j \in A : \E n \in DOMAIN S!InOrder(A) : S!InOrder(A)[n] = j
         /\ \A m, n \in DOMAIN S!InOrder(A) : S!InOrder(A)[m] = S!InOrder(A)[n] => m = n
<1> DEFINE R == {p \in Jobs \X Jobs : S!Sooner(p[1], p[2])}
<1>1. \A i, j \in Jobs : S!Sooner(i, j) <=>
        input.arrival[i] < input.arrival[j] \/ (input.arrival[i] = input.arrival[j] /\ i < j)
  BY SoonerIs
<1>2. \A i, j \in Jobs : <<i, j>> \in R <=> S!Sooner(i, j)
  OBVIOUS
<1>3. \A i \in Jobs : i \in Int /\ input.arrival[i] \in Int
  BY NumbersAre
<1> HIDE DEF R
<1>4. Total(R)
  BY <1>1, <1>2, <1>3 DEF Total
<1> DEFINE In(s) == S!ToSet(s) = A /\ \A m, n \in DOMAIN s : m < n => S!Sooner(s[m], s[n])
<1>5. \E s \in [1 .. S!Cardinality(A) -> A] : In(s)
  <2>1. PICK s : Ordered(R, s, A)
    BY <1>4, OrderExists
  <2>2. s \in [1 .. S!Cardinality(A) -> A] /\ \A j \in A : \E n \in DOMAIN s : s[n] = j
    BY <2>1, CardinalityS DEF Ordered
  <2>3. S!ToSet(s) = A
    BY <2>2 DEF S!ToSet
  <2>4. ASSUME NEW m \in DOMAIN s, NEW n \in DOMAIN s, m < n PROVE S!Sooner(s[m], s[n])
    <3>1. s[m] \in Jobs /\ s[n] \in Jobs /\ <<s[m], s[n]>> \in R
      BY <2>1, <2>2, <2>4 DEF Ordered
    <3> QED BY <1>2, <3>1
  <2> QED BY <2>2, <2>3, <2>4
<1>6. PICK s : s = S!InOrder(A)
  OBVIOUS
<1>7. s \in [1 .. S!Cardinality(A) -> A] /\ In(s)
  <2>1. s = CHOOSE x \in [1 .. S!Cardinality(A) -> A] : In(x)
    BY <1>6, Zenon DEF S!InOrder
  <2> HIDE DEF In
  <2> QED BY <1>5, <2>1, Zenon
<1>8. S!Cardinality(A) \in Nat
  BY CardinalityS, JobsAre, FS_Subset, FS_CardinalityType
<1>9. s \in Seq(A)
  BY <1>7, <1>8
<1>10. \A j \in A : \E n \in DOMAIN s : s[n] = j
  BY <1>7 DEF S!ToSet
<1>11. ASSUME NEW m \in DOMAIN s, NEW n \in DOMAIN s, s[m] = s[n] PROVE m = n
  <2>1. m \in Nat /\ n \in Nat /\ s[m] \in Jobs
    BY <1>7, <1>8
  <2>2. ~S!Sooner(s[m], s[m])
    BY <1>1, <1>3, <2>1
  <2> QED BY <1>7, <1>11, <2>1, <2>2
<1> QED BY <1>6, <1>9, <1>10, <1>11
Has(q, j) == \E n \in DOMAIN q : q[n] = j
Once(q) == \A m, n \in DOMAIN q : q[m] = q[n] => m = n

LEMMA JoinedIs ==
  ASSUME NEW q \in Seq(Jobs), NEW s \in Seq(Jobs), Once(q), Once(s), \A j \in Jobs : ~(Has(q, j) /\ Has(s, j))
  PROVE  /\ q \o s \in Seq(Jobs) /\ Once(q \o s)
         /\ \A j \in Jobs : Has(q \o s, j) <=> Has(q, j) \/ Has(s, j)
<1>1. PICK w : w = q \o s
  OBVIOUS
<1>2. /\ w \in Seq(Jobs) /\ Len(w) = Len(q) + Len(s)
      /\ \A i \in 1 .. Len(w) : w[i] = IF i <= Len(q) THEN q[i] ELSE s[i - Len(q)]
  BY <1>1, ConcatProperties
<1>3. Len(q) \in Nat /\ Len(s) \in Nat /\ DOMAIN q = 1 .. Len(q) /\ DOMAIN s = 1 .. Len(s) /\ DOMAIN w = 1 .. Len(w)
  BY <1>2, LenProperties
<1>4. ASSUME NEW i \in DOMAIN w
      PROVE  \/ i \in DOMAIN q /\ w[i] = q[i]
             \/ i - Len(q) \in DOMAIN s /\ i \notin DOMAIN q /\ w[i] = s[i - Len(q)]
  BY <1>2, <1>3
<1>5. ASSUME NEW m \in DOMAIN w, NEW n \in DOMAIN w, w[m] = w[n] PROVE m = n
  <2>1. m \in Nat /\ n \in Nat /\ w[m] \in Jobs
    BY <1>2, <1>3, ElementOfSeq
  <2>2. CASE m \in DOMAIN q /\ w[m] = q[m] /\ n \in DOMAIN q /\ w[n] = q[n]
    BY <1>5, <2>2 DEF Once
  <2>3. CASE m - Len(q) \in DOMAIN s /\ w[m] = s[m - Len(q)] /\ n - Len(q) \in DOMAIN s /\ w[n] = s[n - Len(q)]
    <3>1. m - Len(q) = n - Len(q)
      BY <1>5, <2>3 DEF Once
    <3> QED BY <1>3, <2>1, <3>1
  <2>4. ASSUME NEW a, NEW b, a \in DOMAIN q, b \in DOMAIN s, q[a] = s[b], q[a] \in Jobs PROVE FALSE
    BY <2>4 DEF Has
  <2> QED BY <1>4, <1>5, <2>1, <2>2, <2>3, <2>4
<1>6. ASSUME NEW j \in Jobs PROVE Has(w, j) <=> Has(q, j) \/ Has(s, j)
  <2>1. Has(w, j) => Has(q, j) \/ Has(s, j)
    BY <1>4 DEF Has
  <2>2. Has(q, j) => Has(w, j)
    BY <1>2, <1>3 DEF Has
  <2>3. ASSUME NEW n \in DOMAIN s, s[n] = j PROVE Has(w, j)
    <3>1. n + Len(q) \in DOMAIN w /\ ~(n + Len(q) <= Len(q)) /\ (n + Len(q)) - Len(q) = n
      BY <1>2, <1>3
    <3>2. w[n + Len(q)] = s[n]
      BY <1>2, <1>3, <3>1
    <3> QED BY <2>3, <3>1, <3>2 DEF Has
  <2> QED BY <2>1, <2>2, <2>3 DEF Has
<1> QED BY <1>1, <1>2, <1>5, <1>6 DEF Once

LEMMA ArrivalsAre == ASSUME NEW known, NEW t PROVE S!Arrivals(known, t) \in SUBSET Jobs
BY DEF S!Arrivals

LEMMA AdmittedIs ==
  ASSUME Typed, NEW q \in Seq(Jobs), NEW known \in SUBSET Jobs, NEW t, Once(q), \A j \in Jobs : Has(q, j) => j \in known
  PROVE  /\ S!Admitted(q, known, t) \in Seq(Jobs) /\ Once(S!Admitted(q, known, t))
         /\ \A j \in Jobs : Has(S!Admitted(q, known, t), j) <=> Has(q, j) \/ j \in S!Arrivals(known, t)
<1>1. PICK A \in SUBSET Jobs : A = S!Arrivals(known, t)
  BY ArrivalsAre
<1>2. PICK s : s = S!InOrder(A)
  OBVIOUS
<1>3. s \in Seq(A) /\ Once(s) /\ \A j \in A : Has(s, j)
  BY <1>2, InOrderIs DEF Once, Has
<1>4. s \in Seq(Jobs)
  BY <1>3
<1>5. \A j \in Jobs : Has(s, j) <=> j \in A
  BY <1>3, ElementOfSeq DEF Has
<1>6. \A j \in A : j \notin known
  BY <1>1 DEF S!Arrivals
<1> QED BY <1>1, <1>2, <1>3, <1>4, <1>5, <1>6, JoinedIs DEF S!Admitted

LEMMA MinIs ==
  ASSUME NEW N \in SUBSET Nat, N # {}
  PROVE  S!Min(N) \in N /\ \A x \in N : S!Min(N) <= x
<1>1. PICK m \in N : \A x \in N : m <= x
  BY LeastOf
<1> QED BY <1>1 DEF S!Min

LEMMA PieceIs ==
  ASSUME NEW q \in Seq(Jobs), NEW m \in Int, NEW n \in Int, 1 <= m, m <= n + 1, n <= Len(q)
  PROVE  /\ SubSeq(q, m, n) \in Seq(Jobs) /\ Len(SubSeq(q, m, n)) = n - m + 1
         /\ \A i \in 1 .. n - m + 1 : SubSeq(q, m, n)[i] = q[m + i - 1]
<1>1. \A i \in m .. n : i \in 1 .. Len(q)
  BY LenProperties
<1>2. \A i \in m .. n : q[i] \in Jobs
  BY <1>1, ElementOfSeq
<1>3. (IF m <= n THEN n - m + 1 ELSE 0) = n - m + 1
  OBVIOUS
<1> QED BY <1>2, <1>3, SubSeqProperties

LEMMA WithoutIs ==
  ASSUME NEW q \in Seq(Jobs), NEW j \in Jobs, Once(q), Has(q, j)
  PROVE  /\ S!Without(q, j) \in Seq(Jobs) /\ Once(S!Without(q, j))
         /\ \A k \in Jobs : Has(S!Without(q, j), k) <=> Has(q, k) /\ k # j
<1>1. PICK here \in DOMAIN q : q[here] = j
  BY DEF Has
<1>2. Len(q) \in Nat /\ DOMAIN q = 1 .. Len(q) /\ here \in Nat
  BY <1>1, LenProperties
<1>3. {n \in DOMAIN q : q[n] = j} = {here}
  BY <1>1 DEF Once
<1>4. S!Min({n \in DOMAIN q : q[n] = j}) = here
  <2>1. {here} \in SUBSET Nat /\ {here} # {}
    BY <1>2
  <2> QED BY <1>3, <2>1, MinIs
<1>5. PICK w : w = SubSeq(q, 1, here - 1) \o SubSeq(q, here + 1, Len(q))
  OBVIOUS
<1>6. w = S!Without(q, j)
  BY <1>4, <1>5 DEF S!Without, S!RemoveAt
<1>7. PICK a \in Seq(Jobs) : /\ a = SubSeq(q, 1, here - 1) /\ Len(a) = here - 1
                            /\ \A i \in 1 .. here - 1 : a[i] = q[i]
  <2>1. \A i \in 1 .. here - 1 : 1 + i - 1 = i
    BY <1>2
  <2>2. PICK m \in Int : m = here - 1 /\ 1 <= m + 1 /\ m <= Len(q) /\ m - 1 + 1 = m
    BY <1>1, <1>2
  <2>3. /\ SubSeq(q, 1, m) \in Seq(Jobs) /\ Len(SubSeq(q, 1, m)) = m - 1 + 1
        /\ \A i \in 1 .. m - 1 + 1 : SubSeq(q, 1, m)[i] = q[1 + i - 1]
    BY <2>2, PieceIs
  <2>4. /\ SubSeq(q, 1, here - 1) \in Seq(Jobs) /\ Len(SubSeq(q, 1, here - 1)) = here - 1
        /\ \A i \in 1 .. here - 1 : SubSeq(q, 1, here - 1)[i] = q[i]
    BY <2>1, <2>2, <2>3
  <2> QED BY <2>4
<1>8. PICK b \in Seq(Jobs) : /\ b = SubSeq(q, here + 1, Len(q)) /\ Len(b) = Len(q) - here
                            /\ \A i \in 1 .. Len(q) - here : b[i] = q[here + i]
  <2>1. \A i \in 1 .. Len(q) - here : (here + 1) + i - 1 = here + i
    BY <1>2
  <2>2. /\ here + 1 \in Int /\ 1 <= here + 1 /\ here + 1 <= Len(q) + 1
        /\ Len(q) - (here + 1) + 1 = Len(q) - here
    BY <1>1, <1>2
  <2>3. /\ SubSeq(q, here + 1, Len(q)) \in Seq(Jobs) /\ Len(SubSeq(q, here + 1, Len(q))) = Len(q) - here
        /\ \A i \in 1 .. Len(q) - here : SubSeq(q, here + 1, Len(q))[i] = q[(here + 1) + i - 1]
    BY <1>2, <2>2, PieceIs
  <2> QED BY <2>1, <2>3
<1>9. /\ w \in Seq(Jobs) /\ Len(w) = Len(q) - 1
      /\ \A i \in 1 .. Len(w) : w[i] = IF i <= here - 1 THEN a[i] ELSE b[i - (here - 1)]
  <2>1. /\ w \in Seq(Jobs) /\ Len(w) = Len(a) + Len(b)
        /\ \A i \in 1 .. Len(a) + Len(b) : w[i] = IF i <= Len(a) THEN a[i] ELSE b[i - Len(a)]
    <3>1. w = a \o b
      BY <1>5, <1>7, <1>8
    <3> QED BY <3>1, ConcatProperties
  <2>2. Len(a) = here - 1 /\ Len(a) + Len(b) = Len(q) - 1
    <3>1. Len(a) = here - 1
      BY <1>7
    <3>2. Len(b) = Len(q) - here
      BY <1>8
    <3>3. PICK n \in Nat : n = Len(q)
      BY <1>2
    <3>4. (here - 1) + (n - here) = n - 1
      BY <1>2
    <3> QED BY <3>1, <3>2, <3>3, <3>4
  <2> QED BY <2>1, <2>2
<1>10. DOMAIN w = 1 .. Len(q) - 1
  BY <1>2, <1>9, LenProperties
<1>11. ASSUME NEW i \in DOMAIN w
       PROVE  \/ i < here /\ i \in DOMAIN q /\ w[i] = q[i]
              \/ i >= here /\ i + 1 \in DOMAIN q /\ w[i] = q[i + 1]
  <2>1. CASE i < here
    <3>1. i \in 1 .. here - 1 /\ i \in DOMAIN q /\ i \in 1 .. Len(w)
      BY <1>2, <1>9, <1>10, <2>1
    <3> QED BY <1>7, <1>9, <2>1, <3>1
  <2>2. CASE i >= here
    <3>1. i - (here - 1) \in 1 .. Len(q) - here /\ here + (i - (here - 1)) = i + 1
      BY <1>2, <1>10, <2>2
    <3>2. i + 1 \in DOMAIN q /\ ~(i <= here - 1) /\ i \in 1 .. Len(w)
      BY <1>2, <1>9, <1>10, <2>2
    <3>3. w[i] = b[i - (here - 1)]
      BY <1>9, <3>2
    <3>4. b[i - (here - 1)] = q[i + 1]
      BY <1>8, <3>1
    <3> QED BY <2>2, <3>2, <3>3, <3>4
  <2> QED BY <1>2, <1>10, <2>1, <2>2
<1>12. Once(w)
  <2> SUFFICES ASSUME NEW m \in DOMAIN w, NEW n \in DOMAIN w, w[m] = w[n] PROVE m = n
    BY DEF Once
  <2>1. m \in Nat /\ n \in Nat
    BY <1>2, <1>10
  <2>2. PICK x \in DOMAIN q : q[x] = w[m] /\ ((m < here /\ x = m) \/ (m >= here /\ x = m + 1))
    BY <1>11
  <2>3. PICK y \in DOMAIN q : q[y] = w[n] /\ ((n < here /\ y = n) \/ (n >= here /\ y = n + 1))
    BY <1>11
  <2>4. x = y
    BY <2>2, <2>3 DEF Once
  <2> QED BY <1>2, <2>1, <2>2, <2>3, <2>4
<1>13. ASSUME NEW k \in Jobs PROVE Has(w, k) <=> Has(q, k) /\ k # j
  <2>1. ASSUME NEW n \in DOMAIN w, w[n] = k PROVE Has(q, k) /\ k # j
    <3>1. PICK x \in DOMAIN q : q[x] = w[n] /\ x # here
      BY <1>2, <1>10, <1>11
    <3> QED BY <1>1, <2>1, <3>1 DEF Has, Once
  <2>2. ASSUME NEW x \in DOMAIN q, q[x] = k, k # j PROVE Has(w, k)
    <3>1. x # here
      BY <1>1, <2>2
    <3>2. CASE x < here
      <4>1. x \in DOMAIN w /\ w[x] = q[x]
        BY <1>2, <1>7, <1>9, <1>10, <3>2
      <4> QED BY <2>2, <4>1 DEF Has
    <3>3. CASE x > here
      <4>1. x - 1 \in DOMAIN w /\ ~(x - 1 <= here - 1) /\ (x - 1) - (here - 1) \in 1 .. Len(q) - here
            /\ here + ((x - 1) - (here - 1)) = x
        BY <1>2, <1>10, <3>3
      <4>2. w[x - 1] = b[(x - 1) - (here - 1)]
        BY <1>9, <1>10, <4>1
      <4>3. w[x - 1] = q[x]
        BY <1>8, <4>1, <4>2
      <4> QED BY <2>2, <4>1, <4>3 DEF Has
    <3> QED BY <1>2, <3>1, <3>2, <3>3
  <2> QED BY <2>1, <2>2 DEF Has
<1> QED BY <1>6, <1>9, <1>12, <1>13

\* Jobs compared by a number, then by arrival, then by their own number are in
\* a total order.
LEMMA Lexicographic ==
  ASSUME Typed, NEW x \in [Jobs -> Int], NEW R,
         \A i, j \in Jobs : <<i, j>> \in R <=>
           \/ x[i] < x[j]
           \/ /\ x[i] = x[j]
              /\ \/ input.arrival[i] < input.arrival[j]
                 \/ input.arrival[i] = input.arrival[j] /\ i < j
  PROVE  Total(R)
<1> DEFINE less(i, j) == \/ x[i] < x[j]
                         \/ /\ x[i] = x[j]
                            /\ \/ input.arrival[i] < input.arrival[j]
                               \/ input.arrival[i] = input.arrival[j] /\ i < j
<1>1. \A i \in Jobs : i \in Int /\ x[i] \in Int /\ input.arrival[i] \in Int
  BY NumbersAre
<1>2. ASSUME NEW i \in Jobs, NEW j \in Jobs PROVE i = j \/ less(i, j) \/ less(j, i)
  BY <1>1
<1>3. ASSUME NEW i \in Jobs, NEW j \in Jobs, NEW k \in Jobs, less(i, j), less(j, k) PROVE less(i, k)
  BY <1>1, <1>3
<1>4. \A i, j \in Jobs : <<i, j>> \in R <=> less(i, j)
  OBVIOUS
<1> HIDE DEF less
<1> QED BY <1>2, <1>3, <1>4 DEF Total

\* choose takes a job of the list: its first, or the one of best rank.
LEMMA ChoiceIs ==
  ASSUME Typed, NEW q \in Seq(Jobs), q # <<>>
  PROVE  /\ S!Choice(q) \in Jobs /\ Has(q, S!Choice(q))
         /\ input.policy = "rr" => S!Choice(q) = q[1]
         /\ input.policy # "rr" =>
              \A j \in Jobs : Has(q, j) /\ j # S!Choice(q) => S!Before(S!Rank(S!Choice(q)), S!Rank(j))
<1>1. 1 \in DOMAIN q
  BY EmptySeq, LenProperties
<1>2. CASE input.policy = "rr"
  <2>1. S!Choice(q) = q[1]
    BY <1>2 DEF S!Choice
  <2> QED BY <1>1, <1>2, <2>1, ElementOfSeq, LenProperties DEF Has
<1>3. CASE input.policy # "rr"
  <2>1. PICK A \in SUBSET Jobs : A = S!ToSet(q)
    <3>1. \A n \in DOMAIN q : q[n] \in Jobs
      OBVIOUS
    <3>2. S!ToSet(q) \subseteq Jobs
      BY <3>1 DEF S!ToSet
    <3> QED BY <3>2
  <2>2. A # {}
    BY <1>1, <2>1 DEF S!ToSet
  <2> DEFINE R == {p \in Jobs \X Jobs : S!Before(S!Rank(p[1]), S!Rank(p[2]))}
  <2>3. \A i, j \in Jobs : <<i, j>> \in R <=> S!Before(S!Rank(i), S!Rank(j))
    OBVIOUS
  <2>4. \A i \in Jobs : i \in Int /\ input.arrival[i] \in Int
    BY NumbersAre
  <2>5. Total(R)
    <3>1. CASE input.policy = "fcfs"
      <4>1. ASSUME NEW i \in Jobs PROVE S!Rank(i) = <<input.arrival[i], i>>
        BY <3>1 DEF S!Rank
      <4>2. ASSUME NEW i \in Jobs, NEW j \in Jobs
            PROVE  <<i, j>> \in R <=>
                     input.arrival[i] < input.arrival[j] \/ (input.arrival[i] = input.arrival[j] /\ i < j)
        <5>1. PICK a \in Int, b \in Int, p \in Int, r \in Int :
                a = input.arrival[i] /\ b = input.arrival[j] /\ p = i /\ r = j
          BY <2>4
        <5>2. S!Before(<<a, p>>, <<b, r>>) <=> a < b \/ (a = b /\ p < r)
          BY BeforeTwo
        <5>3. S!Rank(i) = <<a, p>> /\ S!Rank(j) = <<b, r>>
          BY <4>1, <5>1
        <5> HIDE DEF R
        <5> QED BY <2>3, <5>1, <5>2, <5>3
      <4>3. PICK x \in [Jobs -> Int] : \A i \in Jobs : x[i] = 0
        <5>1. [i \in Jobs |-> 0] \in [Jobs -> Int]
          OBVIOUS
        <5> QED BY <5>1
      <4> HIDE DEF R
      <4> QED BY <4>2, <4>3, Lexicographic
    <3>2. CASE input.policy # "fcfs"
      <4>1. PICK x \in [Jobs -> Int] : \A i \in Jobs : S!Rank(i) = <<x[i], input.arrival[i], i>>
        <5> DEFINE aged(i) == IF input.aging THEN (time - input.arrival[i]) \div 3 ELSE 0
        <5>1. ASSUME NEW i \in Jobs PROVE aged(i) \in Int
          <6>1. PICK d \in Int : d = time - input.arrival[i]
            BY NumbersAre
          <6>2. d \div 3 \in Int
            OBVIOUS
          <6> QED BY <6>1, <6>2
        <5>2. CASE input.policy = "sjf"
          <6>1. \A i \in Jobs : S!Rank(i) = <<input.burst[i], input.arrival[i], i>>
            BY <5>2 DEF S!Rank
          <6>2. input.burst \in [Jobs -> Int]
            BY DEF Typed
          <6> QED BY <6>1, <6>2
        <5>3. CASE input.policy = "srtf"
          <6>1. \A i \in Jobs : S!Rank(i) = <<remaining[i], input.arrival[i], i>>
            BY <5>3 DEF S!Rank
          <6>2. remaining \in [Jobs -> Int]
            BY DEF Typed
          <6> QED BY <6>1, <6>2
        <5>4. CASE input.policy = "priority"
          <6>1. \A i \in Jobs : S!Rank(i) = <<input.priority[i] - aged(i), input.arrival[i], i>>
            BY <5>4 DEF S!Rank
          <6>2. \A i \in Jobs : input.priority[i] \in Int
            BY DEF Typed
          <6> HIDE DEF aged
          <6>3. [i \in Jobs |-> input.priority[i] - aged(i)] \in [Jobs -> Int]
            BY <5>1, <6>2
          <6> QED BY <6>1, <6>3
        <5> QED BY <1>3, <3>2, <5>2, <5>3, <5>4 DEF Typed
      <4>3. \A i \in Jobs : x[i] \in Int
        OBVIOUS
      <4>2. ASSUME NEW i \in Jobs, NEW j \in Jobs
            PROVE  <<i, j>> \in R <=>
                     \/ x[i] < x[j]
                     \/ /\ x[i] = x[j]
                        /\ \/ input.arrival[i] < input.arrival[j]
                           \/ input.arrival[i] = input.arrival[j] /\ i < j
        <5>1. S!Before(<<x[i], input.arrival[i], i>>, <<x[j], input.arrival[j], j>>) <=>
                     \/ x[i] < x[j]
                     \/ /\ x[i] = x[j]
                        /\ \/ input.arrival[i] < input.arrival[j]
                           \/ input.arrival[i] = input.arrival[j] /\ i < j
          <6>1. x[i] \in Int /\ x[j] \in Int /\ input.arrival[i] \in Int /\ input.arrival[j] \in Int
                /\ i \in Int /\ j \in Int
            BY <2>4, <4>3
          <6>2. PICK u \in Int, v \in Int : u = x[i] /\ v = x[j]
            BY <6>1
          <6>3. PICK b \in Int, c \in Int : b = input.arrival[i] /\ c = input.arrival[j]
            BY <6>1
          <6>4. PICK p \in Int, r \in Int : p = i /\ r = j
            BY <6>1
          <6>5. S!Before(<<u, b, p>>, <<v, c, r>>) <=> u < v \/ (u = v /\ (b < c \/ (b = c /\ p < r)))
            BY BeforeThree
          <6> QED BY <6>2, <6>3, <6>4, <6>5
        <5> HIDE DEF R
        <5> QED BY <2>3, <4>1, <5>1
      <4> HIDE DEF R
      <4> QED BY <4>2, Lexicographic
    <3> QED BY <3>1, <3>2
  <2>6. \E j \in A : \A k \in A \ {j} : <<j, k>> \in R
    BY <2>2, <2>5, FirstExists DEF FirstIn
  <2>7. \E j \in A : \A k \in A \ {j} : S!Before(S!Rank(j), S!Rank(k))
    BY <2>3, <2>6
  <2> DEFINE best(j) == \A k \in A \ {j} : S!Before(S!Rank(j), S!Rank(k))
  <2>8. S!Choice(q) = CHOOSE j \in A : best(j)
    BY <1>3, <2>1 DEF S!Choice
  <2>9. S!Choice(q) \in A /\ best(S!Choice(q))
    <3>1. \E j \in A : best(j)
      BY <2>7
    <3> HIDE DEF best
    <3> QED BY <2>8, <3>1, Zenon
  <2>10. \A j \in Jobs : Has(q, j) <=> j \in A
    BY <2>1 DEF Has, S!ToSet
  <2> HIDE DEF R
  <2> QED BY <1>3, <2>9, <2>10
<1> QED BY <1>2, <1>3

\* The chosen job runs for some time, and not longer than it needs.
LEMMA RunForIs ==
  ASSUME Typed, NEW j \in Jobs, NEW known, remaining[j] > 0, \A k \in Jobs \ known : input.arrival[k] > time
  PROVE  S!RunFor(j, known) \in 1 .. remaining[j]
<1>1. PICK left \in Nat : left = remaining[j] /\ left > 0
  BY DEF Typed
<1>2. CASE input.policy = "rr"
  <2>1. S!RunFor(j, known) = S!Min({left, input.quantum})
    BY <1>1, <1>2 DEF S!RunFor
  <2>2. PICK quantum \in Nat \ {0} : quantum = input.quantum
    BY DEF Typed
  <2>3. PICK N \in SUBSET Nat : N = {left, quantum}
    OBVIOUS
  <2>4. S!Min(N) \in N /\ \A x \in N : S!Min(N) <= x
    BY <2>3, MinIs
  <2> QED BY <1>1, <2>1, <2>2, <2>3, <2>4
<1>3. CASE input.policy = "srtf"
  <2>1. PICK next : next = {input.arrival[k] : k \in S!Arrivals(known, time + remaining[j] - 1)}
    OBVIOUS
  <2>2. \A a \in next : a \in Nat /\ time < a /\ a <= time + left - 1
    <3>1. \A k \in Jobs : input.arrival[k] \in Nat
      BY DEF Typed
    <3> QED BY <1>1, <2>1, <3>1 DEF S!Arrivals
  <2>3. S!RunFor(j, known) = IF next # {} THEN S!Min(next) - time ELSE left
    BY <1>1, <1>3, <2>1 DEF S!RunFor
  <2>4. ASSUME next # {} PROVE S!Min(next) \in next
    BY <2>2, <2>4, MinIs
  <2>5. time \in Nat
    BY DEF Typed
  <2> QED BY <1>1, <2>2, <2>3, <2>4, <2>5
<1>4. CASE input.policy \notin {"rr", "srtf"}
  <2>1. S!RunFor(j, known) = left
    BY <1>1, <1>4 DEF S!RunFor
  <2> QED BY <1>1, <2>1
<1> QED BY <1>2, <1>3, <1>4

Segment == [start : Nat, end : Nat, job : Jobs \cup {S!Idle}]

\* A timeline until now: segments that follow each other without a gap.
Timeline(segs, now) ==
  /\ \A n \in DOMAIN segs :
       /\ segs[n].start = IF n = 1 THEN 0 ELSE segs[n - 1].end
       /\ segs[n].start < segs[n].end /\ segs[n].end <= now
       /\ n > 1 => segs[n].job # segs[n - 1].job
  /\ \A m, n \in DOMAIN segs : m < n => segs[m].end <= segs[n].start
  /\ now = IF segs = <<>> THEN 0 ELSE segs[Len(segs)].end
  /\ \A t \in 0 .. now - 1 : \E n \in DOMAIN segs : segs[n].start <= t /\ t < segs[n].end

\* The timeline w goes on from segs with a job that ran from now.
GoesOn(segs, w, now, until, job) ==
  /\ w \in Seq(Segment) /\ Timeline(w, until)
  /\ \A n \in DOMAIN segs :
       /\ n \in DOMAIN w /\ w[n].start = segs[n].start
       /\ w[n].job = segs[n].job /\ segs[n].end <= w[n].end
  /\ \E n \in DOMAIN w : w[n].job = job /\ w[n].start <= now /\ until <= w[n].end

LEMMA SegmentIs ==
  ASSUME NEW segs \in Seq(Segment)
  PROVE  /\ Len(segs) \in Nat /\ DOMAIN segs = 1 .. Len(segs) /\ (segs = <<>> <=> Len(segs) = 0)
         /\ \A n \in DOMAIN segs : /\ segs[n] \in Segment /\ segs[n].start \in Nat /\ segs[n].end \in Nat
                                   /\ segs[n].job \in Jobs \cup {S!Idle}
<1>1. Len(segs) \in Nat /\ DOMAIN segs = 1 .. Len(segs)
  BY LenProperties
<1>2. segs = <<>> <=> Len(segs) = 0
  BY EmptySeq, LenProperties
<1>3. ASSUME NEW n \in DOMAIN segs PROVE segs[n] \in Segment
  BY <1>1
<1>4. ASSUME NEW r \in Segment PROVE r.start \in Nat /\ r.end \in Nat /\ r.job \in Jobs \cup {S!Idle}
  BY DEF Segment
<1> QED BY <1>1, <1>2, <1>3, <1>4

\* The two ways to put a segment at the end.
Merges(segs, w, until, job) ==
  /\ segs # <<>> /\ segs[Len(segs)].job = job
  /\ w = [segs EXCEPT ![Len(segs)].end = until]
Grows(segs, w, now, until, job) ==
  /\ segs # <<>> => segs[Len(segs)].job # job
  /\ w = Append(segs, [start |-> now, end |-> until, job |-> job])

LEMMA MergedIs ==
  ASSUME NEW segs \in Seq(Segment), NEW now \in Nat, NEW until \in Nat, NEW job, now < until, Timeline(segs, now),
         NEW w, Merges(segs, w, until, job)
  PROVE  GoesOn(segs, w, now, until, job)
<1>1. PICK l \in Nat : l = Len(segs) /\ l \in DOMAIN segs /\ DOMAIN segs = 1 .. l
  BY SegmentIs DEF Merges
<1>13. PICK r \in Segment : r = segs[l]
  BY <1>1, SegmentIs
<1>14. [r EXCEPT !.end = until] \in Segment
  BY DEF Segment
<1>2. PICK s \in Segment : s = [segs[l] EXCEPT !.end = until]
  BY <1>13, <1>14
<1>3. /\ s.start = segs[l].start /\ s.job = segs[l].job /\ s.end = until
  <2>1. s = [r EXCEPT !.end = until]
    BY <1>2, <1>13
  <2>2. s.start = r.start /\ s.job = r.job /\ s.end = until
    BY <2>1 DEF Segment
  <2> QED BY <1>13, <2>2
<1>4. w = [segs EXCEPT ![l] = s]
  BY <1>1, <1>2 DEF Merges
<1>5. w \in Seq(Segment) /\ Len(w) = l /\ DOMAIN w = 1 .. l
  BY <1>1, <1>2, <1>4
<1>6. segs[l].end = now
  BY <1>1 DEF Timeline, Merges
<1>7. w[l] = s /\ \A n \in 1 .. l : n # l => w[n] = segs[n]
  BY <1>1, <1>4
<1>8. \A n \in 1 .. l : segs[n].start \in Nat /\ segs[n].end \in Nat /\ segs[n].end <= now
  BY <1>1, SegmentIs DEF Timeline
<1>9. \A n \in 1 .. l :
        /\ w[n].start = segs[n].start /\ w[n].job = segs[n].job
        /\ w[n].end = IF n = l THEN until ELSE segs[n].end
  <2> SUFFICES ASSUME NEW n \in 1 .. l
               PROVE  /\ w[n].start = segs[n].start /\ w[n].job = segs[n].job
                      /\ w[n].end = IF n = l THEN until ELSE segs[n].end
    OBVIOUS
  <2>1. CASE n = l
    <3>1. w[n] = s /\ segs[n] = segs[l]
      BY <1>7, <2>1
    <3> QED BY <1>3, <2>1, <3>1
  <2>2. CASE n # l
    <3>1. w[n] = segs[n]
      BY <1>7, <2>2
    <3> QED BY <2>2, <3>1, Zenon
  <2> QED BY <2>1, <2>2
<1>10. Timeline(w, until)
  <2>1. ASSUME NEW n \in 1 .. l
        PROVE  /\ w[n].start = IF n = 1 THEN 0 ELSE w[n - 1].end
               /\ w[n].start < w[n].end /\ w[n].end <= until
               /\ n > 1 => w[n].job # w[n - 1].job
    <3>1. /\ segs[n].start = IF n = 1 THEN 0 ELSE segs[n - 1].end
          /\ segs[n].start < segs[n].end /\ segs[n].end <= now
          /\ n > 1 => segs[n].job # segs[n - 1].job
      BY <1>1 DEF Timeline
    <3>2. n # 1 => n - 1 \in 1 .. l /\ n - 1 # l
      BY <1>1
    <3>3. w[n].start = IF n = 1 THEN 0 ELSE w[n - 1].end
      BY <1>9, <3>1, <3>2
    <3>4. w[n].start < w[n].end /\ w[n].end <= until
      BY <1>8, <1>9, <3>1
    <3>5. n > 1 => w[n].job # w[n - 1].job
      BY <1>9, <3>1, <3>2
    <3> QED BY <3>3, <3>4, <3>5
  <2>2. ASSUME NEW m \in 1 .. l, NEW n \in 1 .. l, m < n PROVE w[m].end <= w[n].start
    <3>1. \A x, y \in DOMAIN segs : x < y => segs[x].end <= segs[y].start
      BY DEF Timeline
    <3>2. segs[m].end <= segs[n].start /\ m # l
      BY <1>1, <2>2, <3>1
    <3> QED BY <1>9, <3>2
  <2>3. ASSUME NEW t \in 0 .. until - 1 PROVE \E n \in 1 .. l : w[n].start <= t /\ t < w[n].end
    <3>1. CASE t < now
      <4>3. t \in 0 .. now - 1
        BY <3>1
      <4>1. PICK n \in 1 .. l : segs[n].start <= t /\ t < segs[n].end
        BY <1>1, <4>3 DEF Timeline
      <4>2. t < w[n].end
        BY <1>8, <1>9, <4>1
      <4> QED BY <1>9, <4>1, <4>2
    <3>2. CASE t >= now
      <4>1. segs[l].start < now
        BY <1>1, <1>6 DEF Timeline
      <4>2. segs[l].start <= t
        BY <1>1, <1>8, <3>2, <4>1
      <4> QED BY <1>1, <1>9, <4>2
    <3> QED BY <3>1, <3>2
  <2>4. w # <<>>
    BY <1>1, <1>5
  <2>5. until = w[Len(w)].end
    BY <1>1, <1>5, <1>9
  <2> QED BY <1>5, <2>1, <2>2, <2>3, <2>4, <2>5 DEF Timeline
<1>11. ASSUME NEW n \in 1 .. l PROVE segs[n].end <= w[n].end
  BY <1>8, <1>9
<1>12. w[l].job = job /\ w[l].start <= now /\ until <= w[l].end
  <2>1. segs[l].start < segs[l].end
    BY <1>1 DEF Timeline
  <2>2. segs[l].job = job
    BY <1>1 DEF Merges
  <2> QED BY <1>1, <1>6, <1>8, <1>9, <2>1, <2>2
<1> QED BY <1>1, <1>5, <1>9, <1>10, <1>11, <1>12 DEF GoesOn

LEMMA GrownIs ==
  ASSUME NEW segs \in Seq(Segment), NEW now \in Nat, NEW until \in Nat, NEW job \in Jobs \cup {S!Idle},
         now < until, Timeline(segs, now),
         NEW w, Grows(segs, w, now, until, job)
  PROVE  GoesOn(segs, w, now, until, job)
<1>1. PICK l \in Nat : l = Len(segs) /\ DOMAIN segs = 1 .. l /\ (segs = <<>> <=> l = 0)
  BY SegmentIs
<1>2. PICK s \in Segment : s = [start |-> now, end |-> until, job |-> job]
  BY DEF Segment
<1>3. s.start = now /\ s.job = job /\ s.end = until
  BY <1>2
<1>5. /\ w \in Seq(Segment) /\ Len(w) = l + 1 /\ DOMAIN w = 1 .. l + 1
      /\ w[l + 1] = s /\ \A n \in 1 .. l : w[n] = segs[n]
  BY <1>1, <1>2, AppendProperties, LenProperties DEF Grows
<1>6. l # 0 => segs[l].end = now
  BY <1>1 DEF Timeline
<1>8. \A n \in 1 .. l : segs[n].start \in Nat /\ segs[n].end \in Nat /\ segs[n].end <= now
  BY <1>1, SegmentIs DEF Timeline
<1>10. Timeline(w, until)
  <2>1. ASSUME NEW n \in 1 .. l + 1
        PROVE  /\ w[n].start = IF n = 1 THEN 0 ELSE w[n - 1].end
               /\ w[n].start < w[n].end /\ w[n].end <= until
               /\ n > 1 => w[n].job # w[n - 1].job
    <3>1. CASE n \in 1 .. l
      <4>1. /\ segs[n].start = IF n = 1 THEN 0 ELSE segs[n - 1].end
            /\ segs[n].start < segs[n].end /\ segs[n].end <= now
            /\ n > 1 => segs[n].job # segs[n - 1].job
        BY <1>1, <3>1 DEF Timeline
      <4>2. w[n] = segs[n] /\ (n # 1 => w[n - 1] = segs[n - 1])
        BY <1>1, <1>5, <3>1
      <4>3. segs[n].end <= until
        BY <1>8, <3>1
      <4>4. w[n].start = segs[n].start /\ w[n].end = segs[n].end /\ w[n].job = segs[n].job
        BY <4>2
      <4>5. n # 1 => w[n - 1].end = segs[n - 1].end /\ w[n - 1].job = segs[n - 1].job
        BY <4>2
      <4>6. n > 1 => n # 1
        BY <3>1
      <4> QED BY <4>1, <4>3, <4>4, <4>5, <4>6
    <3>2. CASE n = l + 1
      <4>1. CASE l = 0
        <5>1. now = 0
          BY <1>1, <4>1 DEF Timeline
        <5>2. n = 1 /\ ~(n > 1) /\ w[n] = s
          BY <1>5, <3>2, <4>1
        <5>3. w[n].start = 0 /\ w[n].end = until /\ until <= until /\ w[n].start < w[n].end
          BY <1>3, <5>1, <5>2
        <5> QED BY <5>2, <5>3
      <4>2. CASE l # 0
        <5>1. n # 1 /\ n - 1 = l /\ w[n - 1] = segs[l] /\ w[n] = s
          BY <1>1, <1>5, <3>2, <4>2
        <5>2. segs[l].job # job
          BY <1>1, <4>2 DEF Grows
        <5>3. w[n].start = now /\ w[n].end = until /\ w[n].job = job
          BY <1>3, <5>1
        <5>4. w[n - 1].end = now /\ w[n - 1].job # job
          BY <1>6, <4>2, <5>1, <5>2
        <5>5. w[n].start = IF n = 1 THEN 0 ELSE w[n - 1].end
          BY <5>1, <5>3, <5>4, Zenon
        <5>6. w[n].start < w[n].end /\ w[n].end <= until
          BY <5>3
        <5>7. w[n].job # w[n - 1].job
          BY <5>3, <5>4, Zenon
        <5> QED BY <5>5, <5>6, <5>7
      <4> QED BY <4>1, <4>2
    <3> QED BY <1>1, <3>1, <3>2
  <2>2. ASSUME NEW m \in 1 .. l + 1, NEW n \in 1 .. l + 1, m < n PROVE w[m].end <= w[n].start
    <3>1. m \in 1 .. l /\ w[m] = segs[m]
      BY <1>1, <1>5, <2>2
    <3>2. CASE n \in 1 .. l
      <4>1. segs[m].end <= segs[n].start
        BY <1>1, <2>2, <3>1, <3>2 DEF Timeline
      <4> QED BY <1>5, <3>1, <3>2, <4>1
    <3>3. CASE n = l + 1
      BY <1>3, <1>5, <1>8, <3>1, <3>3
    <3> QED BY <1>1, <3>2, <3>3
  <2>3. ASSUME NEW t \in 0 .. until - 1 PROVE \E n \in 1 .. l + 1 : w[n].start <= t /\ t < w[n].end
    <3>1. CASE t < now
      <4>1. t \in 0 .. now - 1
        BY <3>1
      <4>2. PICK n \in 1 .. l : segs[n].start <= t /\ t < segs[n].end
        BY <1>1, <4>1 DEF Timeline
      <4>3. n \in 1 .. l + 1 /\ w[n] = segs[n]
        BY <1>1, <1>5
      <4> QED BY <4>2, <4>3
    <3>2. CASE t >= now
      <4>1. l + 1 \in 1 .. l + 1 /\ w[l + 1].start = now /\ w[l + 1].end = until
        BY <1>1, <1>3, <1>5
      <4>2. now <= t /\ t < until
        BY <3>2
      <4>3. w[l + 1].start <= t /\ t < w[l + 1].end
        BY <4>1, <4>2, Zenon
      <4> QED BY <4>1, <4>3, Zenon
    <3> QED BY <3>1, <3>2
  <2>4. w # <<>>
    BY <1>1, <1>5
  <2>5. until = w[Len(w)].end
    BY <1>3, <1>5
  <2> QED BY <1>5, <2>1, <2>2, <2>3, <2>4, <2>5 DEF Timeline
<1>11. ASSUME NEW n \in 1 .. l
       PROVE  /\ n \in 1 .. l + 1 /\ w[n].start = segs[n].start
              /\ w[n].job = segs[n].job /\ segs[n].end <= w[n].end
  <2>1. w[n] = segs[n] /\ segs[n].end <= segs[n].end /\ n \in 1 .. l + 1
    BY <1>1, <1>5, <1>8
  <2> QED BY <2>1
<1>12. l + 1 \in DOMAIN w /\ w[l + 1].job = job /\ w[l + 1].start <= now /\ until <= w[l + 1].end
  BY <1>1, <1>3, <1>5
<1> QED BY <1>1, <1>5, <1>10, <1>11, <1>12 DEF GoesOn
\* The job of the segment t lies in.
RunsIn(segs, t) == (CHOOSE s \in S!ToSet(segs) : s.start <= t /\ t < s.end).job

LEMMA RunsInIs ==
  ASSUME NEW segs \in Seq(Segment), NEW now, Timeline(segs, now), NEW n \in DOMAIN segs, NEW t \in Nat,
         segs[n].start <= t, t < segs[n].end
  PROVE  RunsIn(segs, t) = segs[n].job
<1> DEFINE covers(s) == s.start <= t /\ t < s.end
<1>1. PICK c : c = CHOOSE s \in S!ToSet(segs) : covers(s)
  OBVIOUS
<1>2. segs[n] \in S!ToSet(segs) /\ covers(segs[n])
  BY DEF S!ToSet
<1> HIDE DEF covers
<1>3. c \in S!ToSet(segs) /\ covers(c)
  BY <1>1, <1>2
<1>4. PICK m \in DOMAIN segs : c = segs[m]
  BY <1>3 DEF S!ToSet
<1>5. /\ m \in Nat /\ n \in Nat
      /\ segs[m].start \in Nat /\ segs[m].end \in Nat /\ segs[n].start \in Nat /\ segs[n].end \in Nat
  BY SegmentIs
<1>6. segs[m].start <= t /\ t < segs[m].end
  BY <1>3, <1>4 DEF covers
<1>7. ~(m < n)
  <2>1. m < n => segs[m].end <= segs[n].start
    BY DEF Timeline
  <2> QED BY <1>5, <1>6, <2>1
<1>8. ~(n < m)
  <2>1. n < m => segs[n].end <= segs[m].start
    BY DEF Timeline
  <2> QED BY <1>5, <1>6, <2>1
<1>9. m = n
  BY <1>5, <1>7, <1>8
<1>10. RunsIn(segs, t) = c.job
  BY <1>1, Zenon DEF RunsIn, covers
<1> QED BY <1>4, <1>9, <1>10, Zenon

\* The units a job ran in, until now, and the job that ran from now on.
LEMMA UnitsGrow ==
  ASSUME Typed, Timeline(segments, time), NEW until \in Nat, time < until, NEW job,
         GoesOn(segments, segments', time, until, job), time' = until, NEW k
  PROVE  S!Units(k)' = S!Units(k) \cup IF k = job THEN time .. until - 1 ELSE {}
<1>1. segments \in Seq(Segment) /\ time \in Nat
  BY DEF Typed, Segment
<1>2. segments' \in Seq(Segment) /\ Timeline(segments', until)
  BY DEF GoesOn
<1>3. \A t : S!RunsAt(t) = RunsIn(segments, t) /\ S!RunsAt(t)' = RunsIn(segments', t)
  BY Zenon DEF S!RunsAt, RunsIn
<1>4. ASSUME NEW t \in 0 .. time - 1 PROVE RunsIn(segments', t) = RunsIn(segments, t)
  <2>1. PICK n \in DOMAIN segments : segments[n].start <= t /\ t < segments[n].end
    BY DEF Timeline
  <2>2. /\ n \in DOMAIN segments' /\ segments'[n].start = segments[n].start
        /\ segments'[n].job = segments[n].job /\ segments[n].end <= segments'[n].end
    BY DEF GoesOn
  <2>3. segments[n].end \in Nat /\ segments'[n].end \in Nat /\ t \in Nat
    BY <1>1, <1>2, <2>2, SegmentIs
  <2>4. segments'[n].start <= t /\ t < segments'[n].end
    BY <2>1, <2>2, <2>3
  <2>5. RunsIn(segments, t) = segments[n].job
    BY <1>1, <2>1, <2>3, RunsInIs
  <2>6. RunsIn(segments', t) = segments'[n].job
    BY <1>2, <2>2, <2>3, <2>4, RunsInIs
  <2> QED BY <2>2, <2>5, <2>6
<1>5. ASSUME NEW t \in time .. until - 1 PROVE RunsIn(segments', t) = job
  <2>1. PICK n \in DOMAIN segments' :
          segments'[n].job = job /\ segments'[n].start <= time /\ until <= segments'[n].end
    BY DEF GoesOn
  <2>2. segments'[n].start \in Nat /\ segments'[n].end \in Nat /\ t \in Nat
    BY <1>1, <1>2, SegmentIs
  <2>3. segments'[n].start <= t /\ t < segments'[n].end
    BY <1>1, <2>1, <2>2
  <2> QED BY <1>2, <2>1, <2>2, <2>3, RunsInIs
<1>6. S!Units(k)' = {t \in 0 .. until - 1 : RunsIn(segments', t) = k}
  BY <1>3 DEF S!Units
<1>7. S!Units(k) = {t \in 0 .. time - 1 : RunsIn(segments, t) = k}
  BY <1>3 DEF S!Units
<1>8. \A t \in 0 .. until - 1 : t \in 0 .. time - 1 \/ t \in time .. until - 1
  BY <1>1
<1>9. \A t : t \in 0 .. time - 1 \/ t \in time .. until - 1 => t \in 0 .. until - 1
  BY <1>1
<1>10. \A t : t \in S!Units(k)' <=> t \in S!Units(k) \/ (k = job /\ t \in time .. until - 1)
  BY <1>4, <1>5, <1>6, <1>7, <1>8, <1>9
<1> QED BY <1>10

\* _append keeps the timeline whole.
LEMMA AppendedIs ==
  ASSUME Typed, Timeline(segments, time), NEW until \in Nat, time < until, NEW job \in Jobs \cup {S!Idle}
  PROVE  GoesOn(segments, S!Appended(time, until, job), time, until, job)
<1>1. segments \in Seq(Segment) /\ time \in Nat
  BY DEF Typed, Segment
<1>2. Len(segments) \in Nat /\ (segments = <<>> <=> Len(segments) = 0)
  BY <1>1, SegmentIs
<1>3. segments # <<>> => segments[Len(segments)].end = time
  BY DEF Timeline
<1>4. PICK w : w = S!Appended(time, until, job)
  OBVIOUS
<1>5. CASE segments # <<>> /\ segments[Len(segments)].job = job
  <2>1. w = [segments EXCEPT ![Len(segments)].end = until]
    BY <1>2, <1>3, <1>4, <1>5 DEF S!Appended
  <2>2. Merges(segments, w, until, job)
    BY <1>5, <2>1 DEF Merges
  <2> QED BY <1>1, <1>4, <2>2, MergedIs
<1>6. CASE ~(segments # <<>> /\ segments[Len(segments)].job = job)
  <2>1. w = Append(segments, [start |-> time, end |-> until, job |-> job])
    BY <1>2, <1>4, <1>6 DEF S!Appended
  <2>2. Grows(segments, w, time, until, job)
    BY <1>6, <2>1 DEF Grows
  <2> QED BY <1>1, <1>4, <2>2, GrownIs
<1> QED BY <1>5, <1>6

\* The list holds each job that has come and is not done, once.
ReadyInv ==
  /\ Once(ready)
  /\ \A j \in Jobs : Has(ready, j) <=> j \in arrived /\ completion[j] = S!None
  /\ \A j \in Jobs : j \in arrived => input.arrival[j] <= time
  /\ \A j \in Jobs : completion[j] # S!None => j \in arrived

\* What the timeline says of job j.
JobInv(j) ==
  /\ completion[j] = S!None <=> remaining[j] > 0
  /\ completion[j] # S!None => completion[j] <= time
  /\ Cardinality(S!Units(j)) = input.burst[j] - remaining[j]
  /\ \A t \in S!Units(j) : input.arrival[j] <= t /\ (completion[j] # S!None => t < completion[j])
  /\ firstStart[j] = S!None => S!Units(j) = {}
  /\ firstStart[j] # S!None => firstStart[j] \in S!Units(j) /\ \A t \in S!Units(j) : firstStart[j] <= t
  /\ \A t \in S!Units(S!Idle) :
       t < input.arrival[j] \/ (completion[j] # S!None /\ completion[j] <= t)

SchedulerInv == S!TypeOK /\ Timeline(segments, time) /\ ReadyInv /\ \A j \in Jobs : JobInv(j)

LEMMA UnitsAre ==
  ASSUME Typed, NEW k
  PROVE  S!Units(k) \in SUBSET (0 .. time - 1) /\ IsFiniteSet(S!Units(k)) /\ \A t \in S!Units(k) : t \in Nat /\ t < time
<1>1. time \in Nat
  BY DEF Typed
<1>2. S!Units(k) \in SUBSET (0 .. time - 1)
  BY DEF S!Units
<1>3. IsFiniteSet(0 .. time - 1)
  BY <1>1, FS_Interval
<1> QED BY <1>1, <1>2, <1>3, FS_Subset

LEMMA SchedulerInit ==
  ASSUME S!Init
  PROVE  SchedulerInv
<1>1. input \in Inputs /\ time = 0 /\ remaining = input.burst /\ arrived = {} /\ ready = <<>> /\ segments = <<>>
      /\ firstStart = [j \in Jobs |-> S!None] /\ completion = [j \in Jobs |-> S!None]
  BY DEF S!Init
<1>2. input.arrival \in [Jobs -> Nat] /\ input.burst \in [Jobs -> Nat \ {0}]
  BY <1>1, LabsAssumption DEF S!InputsAssumption
<1>3. S!TypeOK
  <2>1. remaining \in [Jobs -> Nat]
    BY <1>1, <1>2
  <2> QED BY <1>1, <2>1 DEF S!TypeOK
<1>4. Timeline(segments, time)
  <2>1. DOMAIN segments = {} /\ 0 .. time - 1 = {}
    BY <1>1
  <2> QED BY <1>1, <2>1 DEF Timeline
<1>5. ReadyInv
  BY <1>1 DEF ReadyInv, Once, Has
<1>6. \A k : S!Units(k) = {}
  BY <1>1 DEF S!Units
<1>7. ASSUME NEW j \in Jobs PROVE JobInv(j)
  <2>1. completion[j] = S!None /\ firstStart[j] = S!None /\ remaining[j] = input.burst[j]
        /\ input.burst[j] \in Nat \ {0}
    BY <1>1, <1>2
  <2>2. Cardinality(S!Units(j)) = 0
    BY <1>6, FS_EmptySet
  <2>3. remaining[j] > 0 /\ input.burst[j] - remaining[j] = 0
    BY <2>1
  <2> QED BY <1>6, <2>1, <2>2, <2>3 DEF JobInv
<1> QED BY <1>3, <1>4, <1>5, <1>7 DEF SchedulerInv

\* Nothing is ready, and the clock goes on.
LEMMA WaitStep ==
  ASSUME SchedulerInv, S!Wait
  PROVE  /\ SchedulerInv'
         /\ \A j \in Jobs \ arrived : time' <= input.arrival[j]
         /\ \A j \in Jobs : ~Has(ready, j) /\ S!Units(j)' = S!Units(j)
<1>1. Typed /\ Timeline(segments, time) /\ ReadyInv /\ time \in Nat /\ \A j \in Jobs : JobInv(j)
  BY TypedIs DEF SchedulerInv, Typed
<1>2. PICK coming \in SUBSET Nat : coming = {input.arrival[j] : j \in Jobs \ arrived}
  <2>1. \A j \in Jobs : input.arrival[j] \in Nat
    BY <1>1 DEF Typed
  <2> QED BY <2>1
<1>3. UNCHANGED <<input, remaining, arrived, ready, firstStart, completion>> /\ time' = S!Min(coming)
      /\ segments' = S!Appended(time, time', S!Idle)
  BY <1>2 DEF S!Wait
<1>4. /\ arrived \in SUBSET Jobs /\ ready \in Seq(Jobs)
      /\ \A j \in Jobs : Has(ready, j) => j \in arrived
  BY <1>1 DEF Typed, ReadyInv
<1>5. \A j \in Jobs : ~Has(ready, j) /\ j \notin S!Arrivals(arrived, time)
  <2>1. S!Admitted(ready, arrived, time) = <<>>
    BY DEF S!Wait
  <2>2. \A j \in Jobs : ~Has(S!Admitted(ready, arrived, time), j)
    BY <2>1 DEF Has
  <2> QED BY <1>1, <1>4, <2>2, AdmittedIs DEF ReadyInv
<1>6. \A j \in Jobs : j \in arrived \/ input.arrival[j] > time
  <2> SUFFICES ASSUME NEW j \in Jobs, j \notin arrived PROVE input.arrival[j] > time
    OBVIOUS
  <2>1. input.arrival[j] \in Nat /\ ~(input.arrival[j] <= time)
    BY <1>1, <1>5 DEF Typed, S!Arrivals
  <2> QED BY <1>1, <2>1
<1>7. coming # {}
  <2>1. PICK j \in Jobs : completion[j] = S!None
    BY DEF S!Wait, S!Unfinished
  <2>2. j \notin arrived
    BY <1>1, <1>5, <2>1 DEF ReadyInv
  <2> QED BY <1>2, <2>2
<1>8. time' \in coming /\ \A a \in coming : time' <= a
  BY <1>3, <1>7, MinIs
<1>9. time' \in Nat /\ time < time'
  BY <1>2, <1>6, <1>8
<1>10. GoesOn(segments, segments', time, time', S!Idle)
  BY <1>1, <1>3, <1>9, AppendedIs
<1>11. segments' \in Seq(Segment) /\ Timeline(segments', time')
  BY <1>10 DEF GoesOn
<1>12. S!TypeOK'
  BY <1>3, <1>9, <1>11 DEF SchedulerInv, S!TypeOK, Segment
<1>13. ReadyInv'
  <2>1. \A j \in Jobs : input.arrival[j] \in Nat
    BY <1>1 DEF Typed
  <2>2. \A j \in Jobs : j \in arrived => input.arrival[j] <= time'
    BY <1>1, <1>9, <2>1 DEF ReadyInv
  <2> QED BY <1>1, <1>3, <2>2 DEF ReadyInv, Has, Once
<1>14. ASSUME NEW k
       PROVE  S!Units(k)' = S!Units(k) \cup IF k = S!Idle THEN time .. time' - 1 ELSE {}
  <2>1. PICK until \in Nat : until = time'
    BY <1>9
  <2> QED BY <1>1, <1>9, <1>10, <2>1, UnitsGrow
<1>15. ASSUME NEW j \in Jobs PROVE JobInv(j)'
  <2>1. S!Units(j)' = S!Units(j)
    BY <1>14, JobsAre
  <2>2. completion[j] \in Nat \cup {S!None}
    BY <1>1 DEF Typed
  <2>3. completion[j] # S!None => completion[j] <= time'
    BY <1>1, <1>9, <2>2 DEF JobInv
  <2>4. ASSUME NEW t \in S!Units(S!Idle)'
        PROVE  t < input.arrival[j] \/ (completion[j] # S!None /\ completion[j] <= t)
    <3>1. CASE t \in S!Units(S!Idle)
      BY <1>1, <3>1 DEF JobInv
    <3>2. CASE t \in time .. time' - 1
      <4>1. CASE j \in arrived
        <5>1. completion[j] # S!None
          BY <1>1, <1>5, <4>1 DEF ReadyInv
        <5>2. completion[j] <= time
          BY <1>1, <5>1 DEF JobInv
        <5>3. PICK c \in Nat : c = completion[j]
          BY <2>2, <5>1
        <5>4. c <= t
          BY <1>1, <3>2, <5>2, <5>3
        <5> QED BY <5>1, <5>3, <5>4
      <4>2. CASE j \notin arrived
        <5>1. input.arrival[j] \in coming
          BY <1>2, <4>2
        <5>2. time' <= input.arrival[j]
          BY <1>8, <5>1
        <5>3. PICK a \in Nat : a = input.arrival[j] /\ time' <= a
          BY <1>2, <5>1, <5>2
        <5>4. PICK until \in Nat : until = time'
          BY <1>9
        <5>5. until <= a /\ t \in Int /\ t <= until - 1
          BY <1>1, <3>2, <5>3, <5>4
        <5>6. t < a
          BY <5>5
        <5> QED BY <5>3, <5>6
      <4> QED BY <4>1, <4>2
    <3> QED BY <1>14, <3>1, <3>2
  <2>5. /\ completion[j] = S!None <=> remaining[j] > 0
        /\ Cardinality(S!Units(j)) = input.burst[j] - remaining[j]
        /\ \A t \in S!Units(j) : input.arrival[j] <= t /\ (completion[j] # S!None => t < completion[j])
        /\ firstStart[j] = S!None => S!Units(j) = {}
        /\ firstStart[j] # S!None => firstStart[j] \in S!Units(j) /\ \A t \in S!Units(j) : firstStart[j] <= t
    BY <1>1 DEF JobInv
  <2> QED BY <1>3, <2>1, <2>3, <2>4, <2>5, Zenon DEF JobInv
<1>16. \A j \in Jobs \ arrived : time' <= input.arrival[j]
  BY <1>2, <1>8
<1>17. \A j \in Jobs : ~Has(ready, j) /\ S!Units(j)' = S!Units(j)
  BY <1>5, <1>14, JobsAre
<1> QED BY <1>11, <1>12, <1>13, <1>15, <1>16, <1>17 DEF SchedulerInv

\* The chosen job runs.
LEMMA RunReady ==
  ASSUME Typed, ReadyInv, NEW known \in SUBSET Jobs, known = arrived \cup S!Arrivals(arrived, time),
         NEW c \in Jobs, NEW until \in Nat, time < until,
         Has(S!Admitted(ready, arrived, time), c),
         S!Run(S!Without(S!Admitted(ready, arrived, time), c), known, c, until)
  PROVE  ready' \in Seq(Jobs) /\ arrived' \in SUBSET Jobs /\ ReadyInv'
<1> DEFINE fresh == S!Arrivals(known, until)
<1>1. /\ ready \in Seq(Jobs) /\ arrived \in SUBSET Jobs /\ time \in Nat
      /\ \A j \in Jobs : input.arrival[j] \in Nat
  BY DEF Typed
<1>2. PICK q : q = S!Admitted(ready, arrived, time)
  OBVIOUS
<1>3. /\ q \in Seq(Jobs) /\ Once(q)
      /\ \A j \in Jobs : Has(q, j) <=> j \in known /\ completion[j] = S!None
  <2>1. \A j \in Jobs : Has(ready, j) => j \in arrived
    BY DEF ReadyInv
  <2>2. /\ q \in Seq(Jobs) /\ Once(q)
        /\ \A j \in Jobs : Has(q, j) <=> Has(ready, j) \/ j \in S!Arrivals(arrived, time)
    BY <1>1, <1>2, <2>1, AdmittedIs DEF ReadyInv
  <2>3. \A j \in Jobs : j \in S!Arrivals(arrived, time) => j \notin arrived
    BY DEF S!Arrivals
  <2> QED BY <2>2, <2>3 DEF ReadyInv
<1>4. PICK r : r = S!Without(q, c)
  OBVIOUS
<1>5. /\ r \in Seq(Jobs) /\ Once(r)
      /\ \A j \in Jobs : Has(r, j) <=> j \in known /\ completion[j] = S!None /\ j # c
  BY <1>2, <1>3, <1>4, WithoutIs
<1>6. PICK s : s = S!Admitted(r, known, until)
  OBVIOUS
<1>7. /\ s \in Seq(Jobs) /\ Once(s)
      /\ \A j \in Jobs : Has(s, j) <=> (j \in known /\ completion[j] = S!None /\ j # c) \/ j \in fresh
  BY <1>5, <1>6, AdmittedIs
<1>8. fresh \in SUBSET Jobs /\ \A j \in fresh : j \notin known /\ completion[j] = S!None /\ input.arrival[j] <= until
  BY DEF S!Arrivals, ReadyInv
<1>9. c \in known /\ completion[c] = S!None
  BY <1>2, <1>3
<1>10. arrived' = known \cup fresh /\ time' = until /\ input' = input
  BY DEF S!Run
<1> HIDE DEF fresh
<1>11. \A j \in Jobs : j \in arrived' => input.arrival[j] <= until
  <2>1. \A j \in Jobs : j \in known => input.arrival[j] <= time
    BY DEF ReadyInv, S!Arrivals
  <2>2. \A j \in Jobs : j \in known => input.arrival[j] <= until
    BY <1>1, <2>1
  <2> QED BY <1>8, <1>10, <2>2
<1>12. CASE remaining'[c] = 0
  <2>1. completion' = [completion EXCEPT ![c] = until] /\ ready' = s
    BY <1>2, <1>4, <1>6, <1>12 DEF S!Run
  <2>2. \A j \in Jobs : completion'[j] = IF j = c THEN until ELSE completion[j]
    BY <2>1 DEF Typed
  <2>3. until # S!None
    BY DEF S!None
  <2>4. \A j \in Jobs : Has(ready', j) <=> j \in arrived' /\ completion'[j] = S!None
    BY <1>7, <1>8, <1>9, <1>10, <2>1, <2>2, <2>3
  <2>5. \A j \in Jobs : completion'[j] # S!None => j \in arrived'
    BY <1>9, <1>10, <2>2 DEF ReadyInv
  <2> QED BY <1>7, <1>8, <1>10, <1>11, <2>1, <2>4, <2>5 DEF ReadyInv, Has, Once
<1>13. CASE remaining'[c] # 0
  <2>1. completion' = completion /\ ready' = Append(s, c)
    BY <1>2, <1>4, <1>6, <1>13 DEF S!Run, S!Requeued
  <2>2. PICK one \in Seq(Jobs) : one = <<c>>
    <3>1. <<c>> \in Seq(Jobs)
      OBVIOUS
    <3> QED BY <3>1
  <2>3. Once(one) /\ \A j \in Jobs : Has(one, j) <=> j = c
    BY <2>2 DEF Once, Has
  <2>4. ready' = s \o one
    BY <1>7, <2>1, <2>2, AppendIsConcat
  <2>5. ready' \in Seq(Jobs) /\ Once(ready') /\ \A j \in Jobs : Has(ready', j) <=> Has(s, j) \/ j = c
    BY <1>7, <1>8, <1>9, <2>3, <2>4, JoinedIs
  <2>6. \A j \in Jobs : Has(ready', j) <=> j \in arrived' /\ completion'[j] = S!None
    BY <1>7, <1>8, <1>9, <1>10, <2>1, <2>5
  <2>7. \A j \in Jobs : completion'[j] # S!None => j \in arrived'
    BY <1>10, <2>1 DEF ReadyInv
  <2> QED BY <1>8, <1>10, <1>11, <2>5, <2>6, <2>7 DEF ReadyInv, Has, Once
<1> QED BY <1>12, <1>13

LEMMA RunJobs ==
  ASSUME Typed, ReadyInv, Timeline(segments, time), \A j \in Jobs : JobInv(j),
         NEW known \in SUBSET Jobs, known = arrived \cup S!Arrivals(arrived, time), NEW queue1,
         NEW c \in known, completion[c] = S!None, NEW k \in 1 .. remaining[c],
         NEW until \in Nat, until = time + k,
         S!Run(queue1, known, c, until), NEW j \in Jobs
  PROVE  JobInv(j)'
<1>1. /\ time \in Nat /\ time < until /\ c \in Jobs /\ c # S!Idle /\ j # S!Idle /\ k \in Nat \ {0}
      /\ input.arrival[j] \in Nat /\ input.burst[j] \in Nat /\ remaining[j] \in Nat
      /\ firstStart[j] \in Nat \cup {S!None} /\ completion[j] \in Nat \cup {S!None}
  <2>1. time \in Nat /\ remaining[c] \in Nat
    BY DEF Typed
  <2>2. time < until /\ k \in Nat \ {0}
    BY <2>1
  <2>3. c \in Jobs /\ c # S!Idle /\ j # S!Idle
    BY JobsAre
  <2>4. /\ input.arrival[j] \in Nat /\ input.burst[j] \in Nat /\ remaining[j] \in Nat
        /\ firstStart[j] \in Nat \cup {S!None} /\ completion[j] \in Nat \cup {S!None}
    BY DEF Typed
  <2> QED BY <2>1, <2>2, <2>3, <2>4
<1>2. time' = until /\ segments' = S!Appended(time, until, c) /\ input' = input
  BY DEF S!Run
<1>3. GoesOn(segments, segments', time, until, c)
  BY <1>1, <1>2, AppendedIs
<1>4. S!Units(S!Idle)' = S!Units(S!Idle)
  <2>1. PICK k0 : k0 = S!Idle /\ k0 # c
    BY <1>1
  <2>2. S!Units(k0)' = S!Units(k0) \cup IF k0 = c THEN time .. until - 1 ELSE {}
    BY <1>1, <1>2, <1>3, UnitsGrow
  <2>3. S!Units(k0)' = S!Units(k0)
    BY <2>1, <2>2
  <2> QED BY <2>1, <2>3
<1>5. S!Units(j)' = S!Units(j) \cup IF j = c THEN time .. until - 1 ELSE {}
  BY <1>1, <1>2, <1>3, UnitsGrow
<1>6. JobInv(j)
  OBVIOUS
<1>7. CASE j # c
  <2>1. remaining'[j] = remaining[j] /\ completion'[j] = completion[j] /\ firstStart'[j] = firstStart[j]
    BY <1>1, <1>7 DEF S!Run, Typed
  <2>2. S!Units(j)' = S!Units(j)
    BY <1>5, <1>7
  <2>3. completion[j] # S!None => completion[j] <= until
    BY <1>1, <1>6 DEF JobInv
  <2>4. /\ completion[j] = S!None <=> remaining[j] > 0
        /\ Cardinality(S!Units(j)) = input.burst[j] - remaining[j]
        /\ \A t \in S!Units(j) : input.arrival[j] <= t /\ (completion[j] # S!None => t < completion[j])
        /\ firstStart[j] = S!None => S!Units(j) = {}
        /\ firstStart[j] # S!None => firstStart[j] \in S!Units(j) /\ \A t \in S!Units(j) : firstStart[j] <= t
        /\ \A t \in S!Units(S!Idle) :
             t < input.arrival[j] \/ (completion[j] # S!None /\ completion[j] <= t)
    BY <1>6 DEF JobInv
  <2> QED BY <1>2, <1>4, <2>1, <2>2, <2>3, <2>4, Zenon DEF JobInv
<1>8. CASE j = c
  <2>1. /\ remaining'[c] = remaining[c] - (until - time)
        /\ firstStart'[c] = IF firstStart[c] = S!None THEN time ELSE firstStart[c]
        /\ completion'[c] = IF remaining'[c] = 0 THEN until ELSE completion[c]
    BY <1>1 DEF S!Run, Typed
  <2>2. PICK left \in Nat : left = remaining[c] /\ k <= left /\ remaining'[c] = left - k
    BY <1>1, <1>8, <2>1
  <2>3. PICK U : U = S!Units(c)
    OBVIOUS
  <2>4. IsFiniteSet(U) /\ \A t \in U : t \in Nat /\ t < time
    BY <2>3, UnitsAre
  <2>5. PICK V : V = time .. until - 1
    OBVIOUS
  <2>6. IsFiniteSet(V) /\ Cardinality(V) = k /\ \A t \in V : t \in Nat /\ time <= t /\ t < until
    <3>1. (IF time > until - 1 THEN 0 ELSE until - 1 - time + 1) = k
      BY <1>1
    <3> QED BY <1>1, <2>5, <3>1, FS_Interval
  <2>7. U \cap V = {}
    BY <1>1, <2>4, <2>6
  <2>8. Cardinality(U \cup V) = Cardinality(U) + k
    <3>1. Cardinality(U \cup V) = Cardinality(U) + Cardinality(V) - Cardinality(U \cap V)
      BY <2>4, <2>6, FS_Union
    <3>2. Cardinality(U \cap V) = 0
      BY <2>7, FS_EmptySet
    <3>3. Cardinality(U) \in Nat /\ k \in Nat
      BY <1>1, <2>4, FS_CardinalityType
    <3> QED BY <2>6, <3>1, <3>2, <3>3
  <2>9. S!Units(c)' = U \cup V
    BY <1>5, <1>8, <2>3, <2>5
  <2>10. Cardinality(U) = input.burst[c] - left
    BY <1>6, <1>8, <2>2, <2>3 DEF JobInv
  <2>11. Cardinality(S!Units(c)') = input.burst[c] - remaining'[c]
    <3>1. input.burst[c] \in Nat
      BY <1>1, <1>8
    <3> QED BY <1>1, <2>2, <2>8, <2>9, <2>10, <3>1
  <2>12. completion'[c] = S!None <=> remaining'[c] > 0
    <3>1. until # S!None
      BY DEF S!None
    <3> QED BY <1>1, <2>1, <2>2, <3>1
  <2>13. completion'[c] # S!None => completion'[c] = until
    BY <2>1
  <2>14. ASSUME NEW t \in S!Units(c)'
         PROVE  input.arrival[c] <= t /\ (completion'[c] # S!None => t < completion'[c])
    <3>1. input.arrival[c] <= time /\ input.arrival[c] \in Nat
      BY <1>1, <1>8 DEF ReadyInv, S!Arrivals
    <3>2. t < until
      BY <1>1, <2>4, <2>6, <2>9
    <3>3. input.arrival[c] <= t
      <4>1. CASE t \in U
        BY <1>6, <1>8, <2>3, <4>1 DEF JobInv
      <4>2. CASE t \in V
        BY <1>1, <2>6, <3>1, <4>2
      <4> QED BY <2>9, <4>1, <4>2
    <3> QED BY <2>13, <3>2, <3>3
  <2>15. firstStart'[c] # S!None /\ firstStart'[c] \in U \cup V /\ \A t \in U \cup V : firstStart'[c] <= t
    <3>1. CASE firstStart[c] = S!None
      <4>1. U = {} /\ firstStart'[c] = time
        BY <1>6, <1>8, <2>1, <2>3, <3>1 DEF JobInv
      <4>2. time \in V /\ time # S!None
        BY <1>1, <2>5 DEF S!None
      <4> QED BY <2>6, <4>1, <4>2
    <3>2. CASE firstStart[c] # S!None
      <4>1. firstStart'[c] = firstStart[c] /\ firstStart[c] \in U /\ \A t \in U : firstStart[c] <= t
        BY <1>6, <1>8, <2>1, <2>3, <3>2 DEF JobInv
      <4>2. firstStart[c] \in Nat /\ firstStart[c] < time
        BY <2>4, <4>1
      <4>3. \A t \in V : firstStart[c] <= t
        BY <1>1, <2>6, <4>2
      <4> QED BY <3>2, <4>1, <4>3
    <3> QED BY <3>1, <3>2
  <2>16. ASSUME NEW t \in S!Units(S!Idle)' PROVE t < input.arrival[c]
    BY <1>4, <1>6, <1>8 DEF JobInv
  <2>17. completion'[c] # S!None => completion'[c] <= until
    BY <2>13
  <2>18. JobInv(c)'
    BY <1>2, <2>9, <2>11, <2>12, <2>14, <2>15, <2>16, <2>17, Zenon DEF JobInv
  <2> QED BY <1>8, <2>18
<1> QED BY <1>7, <1>8

LEMMA RunTypes ==
  ASSUME S!TypeOK, NEW known \in SUBSET Jobs, NEW queue1, NEW c \in Jobs, NEW k \in 1 .. remaining[c],
         NEW until \in Nat, until = time + k, S!Run(queue1, known, c, until), ready' \in Seq(Jobs)
  PROVE  /\ input' \in Inputs /\ time' \in Nat /\ remaining' \in [Jobs -> Nat]
         /\ arrived' \in SUBSET Jobs
         /\ firstStart' \in [Jobs -> Nat \cup {S!None}] /\ completion' \in [Jobs -> Nat \cup {S!None}]
<1>1. Typed /\ input \in Inputs
  BY TypedIs DEF S!TypeOK
<1>2. /\ time \in Nat /\ remaining \in [Jobs -> Nat] /\ firstStart \in [Jobs -> Nat \cup {S!None}]
      /\ completion \in [Jobs -> Nat \cup {S!None}]
  BY <1>1 DEF Typed
<1>3. input' \in Inputs /\ time' \in Nat
  BY <1>1 DEF S!Run
<1>4. arrived' \in SUBSET Jobs
  BY ArrivalsAre DEF S!Run
<1>5. remaining' \in [Jobs -> Nat]
  <2>1. PICK left \in Nat : left = remaining[c] - (until - time)
    BY <1>2
  <2>2. remaining' = [remaining EXCEPT ![c] = left]
    BY <2>1 DEF S!Run
  <2> QED BY <1>2, <2>2
<1>6. firstStart' \in [Jobs -> Nat \cup {S!None}]
  <2>1. PICK first \in Nat \cup {S!None} : first = IF firstStart[c] = S!None THEN time ELSE firstStart[c]
    BY <1>2
  <2>2. firstStart' = [firstStart EXCEPT ![c] = first]
    BY <2>1 DEF S!Run
  <2> QED BY <1>2, <2>2
<1>7. completion' \in [Jobs -> Nat \cup {S!None}]
  <2>1. completion' = [completion EXCEPT ![c] = until] \/ completion' = completion
    BY DEF S!Run
  <2> QED BY <1>2, <2>1
<1> QED BY <1>3, <1>4, <1>5, <1>6, <1>7

\* A turn in which job c of the list q runs until a time, the jobs in known having come.
Turn(q, known, c, until) ==
  /\ q = S!Admitted(ready, arrived, time) /\ q \in Seq(Jobs) /\ Once(q) /\ q # <<>>
  /\ known = arrived \cup S!Arrivals(arrived, time)
  /\ \A j \in Jobs : Has(q, j) <=> j \in known /\ completion[j] = S!None
  /\ \A j \in Jobs : j \in known <=> input.arrival[j] <= time
  /\ c = S!Choice(q) /\ c \in Jobs /\ c \in known /\ completion[c] = S!None
  /\ S!RunFor(c, known) \in 1 .. remaining[c]
  /\ until = time + S!RunFor(c, known) /\ until \in Nat /\ time < until
  /\ S!Run(S!Without(q, c), known, c, until)
  /\ \A k : S!Units(k)' = S!Units(k) \cup IF k = c THEN time .. until - 1 ELSE {}

LEMMA DispatchStep ==
  ASSUME SchedulerInv, S!Dispatch
  PROVE  SchedulerInv' /\ \E q, known, c, until : Turn(q, known, c, until)
<1>1. /\ S!TypeOK /\ Typed /\ Timeline(segments, time) /\ ReadyInv /\ time \in Nat
      /\ \A j \in Jobs : JobInv(j)
  BY TypedIs DEF SchedulerInv, Typed
<1>2. PICK known \in SUBSET Jobs : known = arrived \cup S!Arrivals(arrived, time)
  BY <1>1, ArrivalsAre DEF Typed
<1>3. PICK q : q = S!Admitted(ready, arrived, time)
  OBVIOUS
<1>4. PICK c : c = S!Choice(q)
  OBVIOUS
<1>5. q # <<>> /\ S!Run(S!Without(q, c), known, c, time + S!RunFor(c, known))
  BY <1>2, <1>3, <1>4 DEF S!Dispatch
<1>6. /\ q \in Seq(Jobs) /\ Once(q)
      /\ \A j \in Jobs : Has(q, j) <=> Has(ready, j) \/ j \in S!Arrivals(arrived, time)
  <2>1. arrived \in SUBSET Jobs /\ ready \in Seq(Jobs) /\ \A j \in Jobs : Has(ready, j) => j \in arrived
    BY <1>1 DEF Typed, ReadyInv
  <2> QED BY <1>1, <1>3, <2>1, AdmittedIs DEF ReadyInv
<1>7. c \in Jobs /\ Has(q, c)
  BY <1>1, <1>4, <1>5, <1>6, ChoiceIs
<1>8. c \in known /\ completion[c] = S!None
  <2>1. CASE Has(ready, c)
    BY <1>1, <1>2, <1>7, <2>1 DEF ReadyInv
  <2>2. CASE c \in S!Arrivals(arrived, time)
    <3>1. c \notin arrived
      BY <2>2 DEF S!Arrivals
    <3> QED BY <1>1, <1>2, <1>7, <2>2, <3>1 DEF ReadyInv
  <2> QED BY <1>6, <1>7, <2>1, <2>2
<1>9. remaining[c] \in Nat /\ remaining[c] > 0
  BY <1>1, <1>7, <1>8 DEF Typed, JobInv
<1>10. \A j \in Jobs \ known : input.arrival[j] > time
  <2> SUFFICES ASSUME NEW j \in Jobs \ known PROVE input.arrival[j] > time
    OBVIOUS
  <2>1. input.arrival[j] \in Nat /\ ~(input.arrival[j] <= time)
    BY <1>1, <1>2 DEF Typed, S!Arrivals
  <2> QED BY <1>1, <2>1
<1>11. PICK k \in 1 .. remaining[c] : k = S!RunFor(c, known)
  BY <1>1, <1>7, <1>9, <1>10, RunForIs
<1>12. PICK until \in Nat : until = time + k
  BY <1>1, <1>9
<1>13. time < until
  BY <1>1, <1>9, <1>12
<1>14. PICK r : r = S!Without(q, c)
  OBVIOUS
<1>15. S!Run(r, known, c, until)
  BY <1>5, <1>11, <1>12, <1>14, Zenon
<1>16. ready' \in Seq(Jobs) /\ arrived' \in SUBSET Jobs /\ ReadyInv'
  BY <1>1, <1>2, <1>3, <1>7, <1>13, <1>14, <1>15, RunReady
<1>17. \A j \in Jobs : JobInv(j)'
  BY <1>1, <1>2, <1>8, <1>12, <1>15, RunJobs
<1>18. GoesOn(segments, segments', time, until, c) /\ time' = until
  <2>1. segments' = S!Appended(time, until, c) /\ time' = until
    BY <1>15 DEF S!Run
  <2>2. c \in Jobs \cup {S!Idle}
    BY <1>7
  <2> QED BY <1>1, <1>13, <2>1, <2>2, AppendedIs
<1>19. segments' \in Seq(Segment) /\ Timeline(segments', time')
  BY <1>18 DEF GoesOn
<1>20. S!TypeOK'
  BY <1>1, <1>7, <1>12, <1>15, <1>16, <1>19, RunTypes DEF S!TypeOK, Segment
<1>21. \A j \in Jobs : Has(q, j) <=> j \in known /\ completion[j] = S!None
  BY <1>1, <1>2, <1>6 DEF ReadyInv, S!Arrivals
<1>22. ASSUME NEW j \in Jobs PROVE j \in known <=> input.arrival[j] <= time
  <2>1. j \in known => input.arrival[j] <= time
    BY <1>1, <1>2 DEF ReadyInv, S!Arrivals
  <2>2. input.arrival[j] \in Nat
    BY <1>1 DEF Typed
  <2> QED BY <1>1, <1>10, <2>1, <2>2
<1>23. ASSUME NEW i PROVE S!Units(i)' = S!Units(i) \cup IF i = c THEN time .. until - 1 ELSE {}
  BY <1>1, <1>13, <1>18, UnitsGrow
<1>24. SchedulerInv'
  BY <1>16, <1>17, <1>19, <1>20 DEF SchedulerInv
<1>25. Turn(q, known, c, until)
  BY <1>3, <1>4, <1>5, <1>6, <1>2, <1>7, <1>8, <1>11, <1>12, <1>13, <1>14, <1>15, <1>21, <1>22, <1>23
     DEF Turn
<1> QED BY <1>24, <1>25

\* A step that leaves the scheduler alone keeps its invariant.
LEMMA SchedulerStays ==
  ASSUME SchedulerInv, UNCHANGED S!vars
  PROVE  SchedulerInv'
<1>1. /\ input' = input /\ time' = time /\ remaining' = remaining /\ arrived' = arrived /\ ready' = ready
      /\ segments' = segments /\ firstStart' = firstStart /\ completion' = completion
  BY DEF S!vars
<1>2. S!TypeOK' /\ Timeline(segments', time') /\ ReadyInv'
  BY <1>1 DEF SchedulerInv, S!TypeOK, ReadyInv
<1>3. \A k : S!Units(k)' = S!Units(k)
  BY <1>1 DEF S!Units, S!RunsAt
<1>4. ASSUME NEW j \in Jobs PROVE JobInv(j)'
  BY <1>1, <1>3, Zenon DEF SchedulerInv, JobInv
<1> QED BY <1>2, <1>4 DEF SchedulerInv

LEMMA SchedulerNext ==
  ASSUME SchedulerInv, S!Next
  PROVE  SchedulerInv'
BY WaitStep, DispatchStep, SchedulerStays DEF S!Next, S!Finished

\* What the invariant says of the metrics of a completed job.
LEMMA MetricsAre ==
  ASSUME Typed, NEW j \in Jobs, JobInv(j), completion[j] # S!None
  PROVE  /\ S!Waiting(j) = S!Cardinality((input.arrival[j] .. completion[j] - 1) \ S!Units(j))
         /\ S!Response(j) = S!Min(S!Units(j)) - input.arrival[j]
<1>1. PICK a \in Nat, b \in Nat \ {0}, done \in Nat :
         a = input.arrival[j] /\ b = input.burst[j] /\ done = completion[j]
  BY DEF Typed
<1>2. PICK U : U = S!Units(j)
  OBVIOUS
<1>3. remaining[j] = 0
  BY DEF JobInv, Typed
<1>4. Cardinality(U) = b
  BY <1>1, <1>2, <1>3 DEF JobInv
<1>5. IsFiniteSet(U) /\ \A t \in U : t \in Nat /\ a <= t /\ t < done
  BY <1>1, <1>2, UnitsAre DEF JobInv
<1>6. PICK u \in U : TRUE
  <2>1. U # {}
    BY <1>1, <1>4, FS_EmptySet
  <2> QED BY <2>1
<1>7. a < done
  BY <1>5, <1>6
<1>8. PICK V : V = a .. done - 1
  OBVIOUS
<1>9. IsFiniteSet(V) /\ Cardinality(V) = done - a
  <2>1. (IF a > done - 1 THEN 0 ELSE done - 1 - a + 1) = done - a
    BY <1>7
  <2> QED BY <1>8, <2>1, FS_Interval
<1>10. V \cap U = U
  <2>1. \A t \in U : t \in V
    BY <1>5, <1>8
  <2> QED BY <2>1
<1>11. Cardinality(V \ U) = (done - a) - b
  <2>1. Cardinality(V \ U) = Cardinality(V) - Cardinality(V \cap U)
    BY <1>9, FS_Difference
  <2> QED BY <1>4, <1>9, <1>10, <2>1
<1>12. S!Waiting(j) = S!Cardinality((input.arrival[j] .. completion[j] - 1) \ S!Units(j))
  <2>1. S!Waiting(j) = (done - a) - b
    BY <1>1 DEF S!Waiting, S!Turnaround
  <2>2. S!Cardinality(V \ U) = (done - a) - b
    BY <1>11, CardinalityS
  <2> QED BY <1>1, <1>2, <1>8, <2>1, <2>2
<1>13. S!Min(U) = firstStart[j]
  <2>1. firstStart[j] \in U /\ \A t \in U : firstStart[j] <= t
    BY <1>2, <1>6 DEF JobInv
  <2>2. U \in SUBSET Nat /\ U # {}
    BY <1>5, <1>6
  <2>3. S!Min(U) \in U /\ \A t \in U : S!Min(U) <= t
    BY <2>2, MinIs
  <2>4. PICK m \in Nat, f \in Nat : m = S!Min(U) /\ f = firstStart[j] /\ m <= f /\ f <= m
    BY <1>5, <2>1, <2>3
  <2> QED BY <2>4
<1> QED BY <1>2, <1>12, <1>13 DEF S!Response

LEMMA SchedulerSound ==
  ASSUME SchedulerInv
  PROVE  S!TimelineSound
<1>1. Typed /\ Timeline(segments, time) /\ \A j \in Jobs : JobInv(j)
  BY TypedIs DEF SchedulerInv
<1>2. \A n \in DOMAIN segments :
        /\ segments[n].start = IF n = 1 THEN 0 ELSE segments[n - 1].end
        /\ segments[n].start < segments[n].end
        /\ n > 1 => segments[n].job # segments[n - 1].job
  BY <1>1 DEF Timeline
<1>3. time = IF segments = <<>> THEN 0 ELSE S!Last(segments).end
  BY <1>1 DEF Timeline, S!Last
<1>4. ASSUME NEW j \in Jobs
      PROVE  /\ S!Cardinality(S!Units(j)) = input.burst[j] - remaining[j]
             /\ \A t \in S!Units(j) : t >= input.arrival[j]
             /\ \A t \in S!Units(S!Idle) : t < input.arrival[j] \/ (completion[j] # S!None /\ completion[j] <= t)
             /\ completion[j] # S!None =>
                  /\ S!Waiting(j) = S!Cardinality((input.arrival[j] .. completion[j] - 1) \ S!Units(j))
                  /\ S!Response(j) = S!Min(S!Units(j)) - input.arrival[j]
  <2>1. JobInv(j)
    BY <1>1
  <2>2. S!Cardinality(S!Units(j)) = input.burst[j] - remaining[j]
    BY <2>1, CardinalityS DEF JobInv
  <2>3. \A t \in S!Units(j) : t >= input.arrival[j]
    BY <2>1 DEF JobInv
  <2>4. \A t \in S!Units(S!Idle) : t < input.arrival[j] \/ (completion[j] # S!None /\ completion[j] <= t)
    BY <2>1 DEF JobInv
  <2> QED BY <1>1, <2>1, <2>2, <2>3, <2>4, MetricsAre
<1> QED BY <1>2, <1>3, <1>4 DEF S!TimelineSound

-----------------------------------------------------------------------------
(* What the policies of the scheduler promise.                             *)

\* Times of not yet arrived jobs lie ahead.
ComeInv == \A j \in Jobs \ arrived : time <= input.arrival[j]

\* A job that started has run to its end.
WholeInv(j) ==
  firstStart[j] # S!None => completion[j] # S!None /\ S!Units(j) = firstStart[j] .. completion[j] - 1

\* At t, job j has waited at most w units since it came or ran last.
LateBy(j, t, w) ==
  \E b \in {input.arrival[j]} \cup {u + 1 : u \in {v \in S!Units(j) : v < t}} : t - b <= w

\* Whoever is at a place of the list has waited a quantum for each place behind it
\* at most, and so has the rest of its round to wait.
RoundInv ==
  /\ \A p \in DOMAIN ready : LateBy(ready[p], time, (Cardinality(Jobs) - p) * input.quantum)
  /\ \A j \in Jobs : \A t \in S!Units(j) : LateBy(j, t, (Cardinality(Jobs) - 1) * input.quantum)

Unpreempted == input.policy \in {"fcfs", "sjf", "priority"}

PromiseInv ==
  /\ ComeInv
  /\ input.policy = "rr" => RoundInv
  /\ Unpreempted => (\A j \in Jobs : WholeInv(j)) /\ S!NeverPassed

LEMMA ThirdsAdd == \A a, b \in Nat : (a \div 3) + (b \div 3) <= (a + b) \div 3
OBVIOUS

\* A job that is ahead is of better rank.
LEMMA AheadFirst ==
  ASSUME Typed, Unpreempted, NEW j \in Jobs, NEW k \in Jobs, input.arrival[k] <= time, S!Ahead(j, k)
  PROVE  ~S!Before(S!Rank(k), S!Rank(j))
<1>1. PICK a \in Nat, b \in Nat, p \in Int, r \in Int :
        a = input.arrival[j] /\ b = input.arrival[k] /\ p = j /\ r = k
  BY NumbersAre
<1>2. a < b \/ (a = b /\ p < r)
  BY <1>1, SoonerIs DEF S!Ahead
<1>3. CASE input.policy = "fcfs"
  <2>1. S!Rank(j) = <<a, p>> /\ S!Rank(k) = <<b, r>>
    BY <1>1, <1>3 DEF S!Rank
  <2>2. ~S!Before(<<b, r>>, <<a, p>>)
    BY <1>2, BeforeTwo
  <2> QED BY <2>1, <2>2
<1>4. ASSUME NEW x \in Int, NEW y \in Int, x <= y, S!Rank(j) = <<x, a, p>>, S!Rank(k) = <<y, b, r>>
      PROVE  ~S!Before(S!Rank(k), S!Rank(j))
  <2>1. ~S!Before(<<y, b, r>>, <<x, a, p>>)
    BY <1>2, <1>4, BeforeThree
  <2> QED BY <1>4, <2>1
<1>5. CASE input.policy = "sjf"
  <2>1. S!Rank(j) = <<input.burst[j], a, p>> /\ S!Rank(k) = <<input.burst[k], b, r>>
    BY <1>1, <1>5 DEF S!Rank
  <2>2. input.burst[j] \in Int /\ input.burst[k] \in Int /\ input.burst[j] <= input.burst[k]
    BY <1>5 DEF S!Ahead, Typed
  <2> QED BY <1>4, <2>1, <2>2
<1>6. CASE input.policy = "priority"
  <2>1. PICK x \in Int, y \in Int : x = input.priority[j] /\ y = input.priority[k]
    BY DEF Typed
  <2>2. CASE ~input.aging
    <3>1. S!Rank(j) = <<x - 0, a, p>> /\ S!Rank(k) = <<y - 0, b, r>>
      BY <1>1, <1>6, <2>1, <2>2 DEF S!Rank
    <3>2. x - y <= 0
      BY <1>6, <2>1, <2>2 DEF S!Ahead
    <3>3. x - 0 \in Int /\ y - 0 \in Int /\ x - 0 <= y - 0
      BY <3>2
    <3> QED BY <1>4, <3>1, <3>3
  <2>3. CASE input.aging
    <3>0. time \in Nat /\ b <= time
      BY <1>1, NumbersAre
    <3>1. PICK late \in Nat, more \in Nat : late = time - b /\ more = b - a
      BY <1>2, <3>0
    <3>2. time - a = late + more
      BY <3>0, <3>1
    <3>3. /\ S!Rank(j) = <<x - ((late + more) \div 3), a, p>>
          /\ S!Rank(k) = <<y - (late \div 3), b, r>>
      BY <1>1, <1>6, <2>1, <2>3, <3>1, <3>2 DEF S!Rank
    <3>4. x - y <= more \div 3
      BY <1>1, <1>6, <2>1, <2>3, <3>1 DEF S!Ahead
    <3>5. PICK m \in Int, n \in Int, all \in Int :
             m = late \div 3 /\ n = more \div 3 /\ all = (late + more) \div 3 /\ m + n <= all
      BY ThirdsAdd
    <3>6. x - all \in Int /\ y - m \in Int /\ x - all <= y - m
      BY <3>4, <3>5
    <3> QED BY <1>4, <3>3, <3>5, <3>6
  <2> QED BY <2>2, <2>3
<1> QED BY <1>3, <1>5, <1>6 DEF Unpreempted

\* A job that is done has started.
LEMMA StartedHasUnits ==
  ASSUME Typed, NEW j \in Jobs, JobInv(j), completion[j] # S!None
  PROVE  firstStart[j] \in Nat /\ firstStart[j] < time /\ firstStart[j] # S!None
<1>1. remaining[j] = 0 /\ input.burst[j] \in Nat \ {0}
  BY DEF JobInv, Typed
<1>2. S!Units(j) # {}
  <2>1. Cardinality(S!Units(j)) = input.burst[j]
    BY <1>1 DEF JobInv
  <2> QED BY <1>1, <2>1, FS_EmptySet
<1>3. firstStart[j] \in S!Units(j) /\ firstStart[j] # S!None
  BY <1>2 DEF JobInv
<1> QED BY <1>3, UnitsAre

LEMMA PromiseInit ==
  ASSUME S!Init
  PROVE  PromiseInv
<1>1. input \in Inputs /\ time = 0 /\ arrived = {} /\ ready = <<>> /\ segments = <<>>
      /\ \A j \in Jobs : firstStart[j] = S!None
  BY DEF S!Init
<1>2. \A j \in Jobs : input.arrival[j] \in Nat
  BY <1>1, LabsAssumption DEF S!InputsAssumption
<1>3. \A k : S!Units(k) = {}
  BY <1>1 DEF S!Units
<1>4. ComeInv
  BY <1>1, <1>2 DEF ComeInv
<1>5. RoundInv
  BY <1>1, <1>3 DEF RoundInv
<1>6. (\A j \in Jobs : WholeInv(j)) /\ S!NeverPassed
  BY <1>1 DEF WholeInv, S!NeverPassed
<1> QED BY <1>4, <1>5, <1>6 DEF PromiseInv

\* A step that starts no job, and ends none.
LEMMA PromiseStill ==
  ASSUME SchedulerInv, PromiseInv, UNCHANGED <<input, arrived, ready, firstStart, completion>>,
         \A j \in Jobs : S!Units(j)' = S!Units(j),
         ComeInv', time' = time \/ \A j \in Jobs : ~Has(ready, j)
  PROVE  PromiseInv'
<1>1. Typed
  BY TypedIs DEF SchedulerInv
<1>2. ASSUME NEW j \in Jobs, NEW t, NEW w PROVE LateBy(j, t, w)' <=> LateBy(j, t, w)
  BY DEF LateBy
<1>3. ASSUME RoundInv PROVE RoundInv'
  <2>1. ASSUME NEW j \in Jobs, NEW t \in S!Units(j)'
        PROVE  LateBy(j, t, (Cardinality(Jobs) - 1) * input.quantum)'
    BY <1>3 DEF RoundInv, LateBy
  <2>2. ASSUME NEW p \in DOMAIN ready PROVE LateBy(ready[p], time, (Cardinality(Jobs) - p) * input.quantum)'
    <3>1. ready[p] \in Jobs /\ Has(ready, ready[p])
      BY <1>1, ElementOfSeq, LenProperties DEF Has, Typed
    <3>2. time' = time
      BY <3>1
    <3> QED BY <1>3, <3>1, <3>2 DEF RoundInv, LateBy
  <2> QED BY <2>1, <2>2 DEF RoundInv
<1>4. ASSUME NEW j \in Jobs, WholeInv(j) PROVE WholeInv(j)'
  BY <1>4 DEF WholeInv
<1>5. S!NeverPassed => S!NeverPassed'
  BY DEF S!NeverPassed, S!Ahead, S!Sooner
<1> QED BY <1>3, <1>4, <1>5 DEF PromiseInv, Unpreempted

LEMMA PromiseStays ==
  ASSUME SchedulerInv, PromiseInv, UNCHANGED S!vars
  PROVE  PromiseInv'
<1>1. UNCHANGED <<input, arrived, ready, firstStart, completion>> /\ time' = time /\ segments' = segments
  BY DEF S!vars
<1>2. \A j \in Jobs : S!Units(j)' = S!Units(j)
  BY <1>1 DEF S!Units, S!RunsAt
<1>3. ComeInv'
  BY <1>1 DEF PromiseInv, ComeInv
<1> QED BY <1>1, <1>2, <1>3, PromiseStill

\* A list of jobs without repetition is no longer than there are jobs to be in it.
LEMMA ListIsShort ==
  ASSUME NEW q \in Seq(Jobs), Once(q), NEW A \in SUBSET Jobs, \A n \in DOMAIN q : q[n] \in A
  PROVE  Len(q) <= Cardinality(A) /\ Cardinality(A) \in Nat
<1>1. Len(q) \in Nat /\ DOMAIN q = 1 .. Len(q)
  BY LenProperties
<1>2. IsFiniteSet(A) /\ Cardinality(A) \in Nat
  BY JobsAre, FS_Subset, FS_CardinalityType
<1>3. q \in [1 .. Len(q) -> A]
  BY <1>1
<1>4. q \in Injection(1 .. Len(q), A)
  BY <1>1, <1>3 DEF Once, Injection, IsInjective
<1>5. Cardinality(1 .. Len(q)) <= Cardinality(A)
  BY <1>2, <1>4, FS_Injection
<1>6. Cardinality(1 .. Len(q)) = Len(q)
  <2>1. PICK n \in Nat : n = Len(q)
    BY <1>1
  <2>2. PICK c : c = Cardinality(1 .. n)
    OBVIOUS
  <2>3. c = IF 1 > n THEN 0 ELSE n - 1 + 1
    <3>1. Cardinality(1 .. n) = IF 1 > n THEN 0 ELSE n - 1 + 1
      BY FS_Interval
    <3> QED BY <2>2, <3>1
  <2>4. c = n
    BY <2>3
  <2> QED BY <2>1, <2>2, <2>4, Zenon
<1> QED BY <1>2, <1>5, <1>6

LEMMA GreatestIs ==
  ASSUME NEW t \in Nat, NEW C \in SUBSET Nat, \A x \in C : x <= t, C # {}
  PROVE  S!Max(C) \in C /\ \A x \in C : x <= S!Max(C)
<1>1. PICK M \in SUBSET Nat : M = {n \in Nat : \E x \in C : n + x = t}
  OBVIOUS
<1>2. M # {}
  <2>1. PICK x \in C : x \in Nat /\ x <= t
    OBVIOUS
  <2>2. t - x \in Nat /\ (t - x) + x = t
    BY <2>1
  <2> QED BY <1>1, <2>1, <2>2
<1>3. PICK n \in M : \A i \in M : n <= i
  BY <1>2, LeastOf
<1>4. PICK y \in C : n + y = t
  BY <1>1
<1>5. ASSUME NEW x \in C PROVE x <= y
  <2>1. x \in Nat /\ x <= t /\ y \in Nat /\ t - x \in Nat /\ (t - x) + x = t /\ n \in Nat
    OBVIOUS
  <2>2. n <= t - x
    BY <1>1, <1>3, <2>1
  <2> QED BY <1>4, <2>1, <2>2
<1> QED BY <1>5 DEF S!Max

\* Nobody loses its place when others are admitted.
LEMMA PlacesAre ==
  ASSUME Typed, NEW q \in Seq(Jobs), NEW known, NEW t, NEW p \in DOMAIN S!Admitted(q, known, t)
  PROVE  \/ p \in DOMAIN q /\ S!Admitted(q, known, t)[p] = q[p]
         \/ S!Admitted(q, known, t)[p] \in S!Arrivals(known, t)
<1>1. PICK A \in SUBSET Jobs : A = S!Arrivals(known, t)
  BY ArrivalsAre
<1>2. PICK s \in Seq(A) : s = S!InOrder(A)
  BY InOrderIs
<1>3. PICK w : w = q \o s
  OBVIOUS
<1>4. /\ w \in Seq(Jobs) /\ Len(w) = Len(q) + Len(s)
      /\ \A i \in 1 .. Len(w) : w[i] = IF i <= Len(q) THEN q[i] ELSE s[i - Len(q)]
  BY <1>3, ConcatProperties
<1>5. Len(q) \in Nat /\ Len(s) \in Nat /\ DOMAIN q = 1 .. Len(q) /\ DOMAIN s = 1 .. Len(s) /\ DOMAIN w = 1 .. Len(w)
  BY <1>4, LenProperties
<1>6. w = S!Admitted(q, known, t)
  BY <1>1, <1>2, <1>3 DEF S!Admitted
<1>7. p \in DOMAIN w
  BY <1>6
<1>8. CASE p <= Len(q)
  <2>1. p \in DOMAIN q /\ w[p] = q[p]
    BY <1>4, <1>5, <1>7, <1>8
  <2> QED BY <1>6, <2>1
<1>9. CASE p > Len(q)
  <2>1. p - Len(q) \in DOMAIN s /\ w[p] = s[p - Len(q)]
    BY <1>4, <1>5, <1>7, <1>9
  <2>2. w[p] \in A
    BY <2>1
  <2> QED BY <1>1, <1>6, <2>2
<1> QED BY <1>4, <1>5, <1>7, <1>8, <1>9

\* When the first of a list leaves it, everybody moves up one place.
LEMMA MovedUp ==
  ASSUME NEW q \in Seq(Jobs), Once(q), q # <<>>
  PROVE  \A p \in DOMAIN S!Without(q, q[1]) : p + 1 \in DOMAIN q /\ S!Without(q, q[1])[p] = q[p + 1]
<1>1. Len(q) \in Nat /\ DOMAIN q = 1 .. Len(q) /\ Len(q) # 0
  BY EmptySeq, LenProperties
<1>2. {n \in DOMAIN q : q[n] = q[1]} = {1}
  <2>1. 1 \in DOMAIN q
    BY <1>1
  <2> QED BY <2>1 DEF Once
<1>3. S!Min({n \in DOMAIN q : q[n] = q[1]}) = 1
  <2>1. {1} \in SUBSET Nat /\ {1} # {}
    OBVIOUS
  <2> QED BY <1>2, <2>1, MinIs
<1>4. S!Without(q, q[1]) = SubSeq(q, 1, 0) \o SubSeq(q, 2, Len(q))
  <2>1. PICK here \in Nat : here = 1 /\ here - 1 = 0 /\ here + 1 = 2
    OBVIOUS
  <2>2. PICK w : w = SubSeq(q, 1, here - 1) \o SubSeq(q, here + 1, Len(q))
    OBVIOUS
  <2>3. S!Min({n \in DOMAIN q : q[n] = q[1]}) = here
    BY <1>3, <2>1
  <2>4. w = S!Without(q, q[1])
    BY <2>2, <2>3 DEF S!Without, S!RemoveAt
  <2> QED BY <2>1, <2>2, <2>4
<1>5. PICK a \in Seq(Jobs) : a = SubSeq(q, 1, 0) /\ Len(a) = 0
  <2>1. PICK m \in Int : m = 0 /\ 1 <= m + 1 /\ m <= Len(q) /\ m - 1 + 1 = 0
    BY <1>1
  <2>2. SubSeq(q, 1, m) \in Seq(Jobs) /\ Len(SubSeq(q, 1, m)) = m - 1 + 1
    BY <2>1, PieceIs
  <2> QED BY <2>1, <2>2
<1>6. PICK b \in Seq(Jobs) : /\ b = SubSeq(q, 2, Len(q)) /\ Len(b) = Len(q) - 1
                             /\ \A i \in 1 .. Len(q) - 1 : b[i] = q[i + 1]
  <2>1. 2 <= Len(q) + 1 /\ Len(q) \in Int /\ Len(q) - 2 + 1 = Len(q) - 1
    BY <1>1
  <2>2. /\ SubSeq(q, 2, Len(q)) \in Seq(Jobs) /\ Len(SubSeq(q, 2, Len(q))) = Len(q) - 2 + 1
        /\ \A i \in 1 .. Len(q) - 2 + 1 : SubSeq(q, 2, Len(q))[i] = q[2 + i - 1]
    BY <2>1, PieceIs
  <2>3. \A i \in 1 .. Len(q) - 1 : 2 + i - 1 = i + 1
    BY <1>1
  <2>4. PICK b \in Seq(Jobs), l \in Nat :
          /\ b = SubSeq(q, 2, Len(q)) /\ l = Len(q) - 1 /\ Len(b) = l
          /\ \A i \in 1 .. l : b[i] = q[2 + i - 1]
    <3>1. Len(q) - 1 \in Nat
      BY <1>1
    <3>2. PICK b : b = SubSeq(q, 2, Len(q))
      OBVIOUS
    <3>3. b \in Seq(Jobs) /\ Len(b) = Len(q) - 1 /\ \A i \in 1 .. Len(q) - 1 : b[i] = q[2 + i - 1]
      BY <2>1, <2>2, <3>2, Zenon
    <3> QED BY <3>1, <3>2, <3>3, Zenon
  <2>5. \A i \in 1 .. l : b[i] = q[i + 1]
    BY <2>3, <2>4, Zenon
  <2> QED BY <2>4, <2>5, Zenon
<1>7. PICK w : w = a \o b
  OBVIOUS
<1>8. /\ w \in Seq(Jobs) /\ Len(w) = Len(a) + Len(b)
      /\ \A i \in 1 .. Len(w) : w[i] = IF i <= Len(a) THEN a[i] ELSE b[i - Len(a)]
  <2>1. /\ a \o b \in Seq(Jobs)
        /\ Len(a \o b) = Len(a) + Len(b)
        /\ \A i \in 1 .. Len(a) + Len(b) : (a \o b)[i] = IF i <= Len(a) THEN a[i] ELSE b[i - Len(a)]
    BY ConcatProperties
  <2> QED BY <1>7, <2>1, Zenon
<1>9. DOMAIN w = 1 .. Len(q) - 1
  <2>1. PICK m \in Nat : m = Len(q)
    BY <1>1
  <2>2. Len(w) = 0 + (m - 1) /\ 0 + (m - 1) = m - 1
    BY <1>5, <1>6, <1>8, <2>1
  <2>3. DOMAIN w = 1 .. Len(w)
    BY <1>8, LenProperties
  <2> QED BY <2>1, <2>2, <2>3
<1>10. ASSUME NEW p \in DOMAIN w PROVE p + 1 \in DOMAIN q /\ w[p] = q[p + 1]
  <2>1. p + 1 \in DOMAIN q /\ ~(p <= 0) /\ p - 0 = p /\ p \in 1 .. Len(w)
    BY <1>1, <1>9, LenProperties
  <2>2. w[p] = IF p <= 0 THEN a[p] ELSE b[p - 0]
    BY <1>5, <1>8, <2>1, Zenon
  <2>3. w[p] = b[p]
    BY <2>1, <2>2, Zenon
  <2>4. b[p] = q[p + 1]
    BY <1>6, <1>9, Zenon
  <2> QED BY <2>1, <2>3, <2>4, Zenon
<1> QED BY <1>4, <1>5, <1>6, <1>7, <1>10

\* A turn of a policy that does not preempt.
LEMMA TurnUnpreempted ==
  ASSUME SchedulerInv, PromiseInv, Unpreempted, NEW q, NEW known, NEW c, NEW until, Turn(q, known, c, until)
  PROVE  (\A j \in Jobs : WholeInv(j)') /\ S!NeverPassed'
<1>1. Typed /\ \A j \in Jobs : JobInv(j)
  BY TypedIs DEF SchedulerInv
<1>2. /\ input' = input /\ time' = until /\ c \in Jobs /\ time \in Nat /\ until \in Nat /\ time < until
      /\ firstStart' = [firstStart EXCEPT ![c] = IF @ = S!None THEN time ELSE @]
      /\ remaining' = [remaining EXCEPT ![c] = @ - (until - time)]
      /\ completion[c] = S!None
  BY <1>1 DEF Turn, S!Run, Typed
<1>3. remaining'[c] = 0
  <2>1. S!RunFor(c, known) = remaining[c]
    BY DEF S!RunFor, Unpreempted
  <2>2. PICK left \in Nat : left = remaining[c]
    BY <1>1, <1>2 DEF Typed
  <2>3. until = time + left
    BY <2>1, <2>2 DEF Turn
  <2>4. left - (until - time) = 0
    BY <1>2, <2>3
  <2>5. remaining \in [Jobs -> Nat]
    BY <1>1 DEF Typed
  <2> QED BY <1>2, <2>2, <2>4, <2>5
<1>4. completion' = [completion EXCEPT ![c] = until]
  BY <1>3 DEF Turn, S!Run
<1>5. firstStart[c] = S!None /\ S!Units(c) = {}
  <2>1. firstStart[c] = S!None
    BY <1>2 DEF PromiseInv, WholeInv
  <2> QED BY <1>1, <1>2, <2>1 DEF JobInv
<1>6. /\ \A j \in Jobs : firstStart'[j] = IF j = c THEN time ELSE firstStart[j]
      /\ \A j \in Jobs : completion'[j] = IF j = c THEN until ELSE completion[j]
      /\ \A j \in Jobs : S!Units(j)' = IF j = c THEN time .. until - 1 ELSE S!Units(j)
  <2>1. \A j \in Jobs : firstStart'[j] = IF j = c THEN time ELSE firstStart[j]
    BY <1>1, <1>2, <1>5 DEF Typed
  <2>2. \A j \in Jobs : completion'[j] = IF j = c THEN until ELSE completion[j]
    BY <1>1, <1>2, <1>4 DEF Typed
  <2>3. \A j \in Jobs : S!Units(j)' = IF j = c THEN time .. until - 1 ELSE S!Units(j)
    BY <1>5 DEF Turn
  <2> QED BY <2>1, <2>2, <2>3
<1>7. ASSUME NEW j \in Jobs PROVE WholeInv(j)'
  <2>1. CASE j = c
    <3>1. until # S!None
      BY <1>2 DEF S!None
    <3> QED BY <1>6, <2>1, <3>1 DEF WholeInv
  <2>2. CASE j # c
    <3>1. WholeInv(j)
      BY DEF PromiseInv
    <3> QED BY <1>6, <2>2, <3>1 DEF WholeInv
  <2> QED BY <2>1, <2>2
<1>8. ASSUME NEW j \in Jobs, NEW k \in Jobs, S!Ahead(j, k)
      PROVE  firstStart'[k] = S!None \/ (firstStart'[j] # S!None /\ firstStart'[j] < firstStart'[k])
  <2>1. firstStart[k] = S!None \/ (firstStart[j] # S!None /\ firstStart[j] < firstStart[k])
    BY <1>8 DEF PromiseInv, S!NeverPassed
  <2>2. j # k
    <3>1. S!Sooner(j, k) /\ k \in Int /\ input.arrival[k] \in Nat
      BY <1>1, <1>8, NumbersAre DEF S!Ahead
    <3> QED BY <1>1, <3>1, SoonerIs
  <2>3. CASE k = c
    <3>1. input.arrival[j] <= input.arrival[c] /\ input.arrival[c] <= time
          /\ input.arrival[j] \in Nat /\ input.arrival[c] \in Nat
      <4>1. S!Sooner(j, c)
        BY <1>8, <2>3 DEF S!Ahead
      <4>2. input.arrival[j] \in Nat /\ input.arrival[c] \in Nat
        BY <1>1, <1>2, NumbersAre
      <4>3. input.arrival[c] <= time
        BY <1>2 DEF Turn
      <4> QED BY <1>1, <1>2, <4>1, <4>2, <4>3, SoonerIs
    <3>2. j \in known
      <4>1. input.arrival[j] <= time
        BY <1>2, <3>1
      <4> QED BY <4>1 DEF Turn
    <3>3. completion[j] # S!None
      <4> SUFFICES ASSUME completion[j] = S!None PROVE FALSE
        OBVIOUS
      <4>1. Has(q, j) /\ q \in Seq(Jobs) /\ q # <<>> /\ c = S!Choice(q)
        BY <3>2 DEF Turn
      <4>2. S!Before(S!Rank(c), S!Rank(j))
        BY <1>1, <2>2, <2>3, <4>1, ChoiceIs DEF Unpreempted
      <4> QED BY <1>1, <1>2, <1>8, <2>3, <3>1, <4>2, AheadFirst
    <3>4. firstStart[j] \in Nat /\ firstStart[j] < time /\ firstStart[j] # S!None
      BY <1>1, <3>3, StartedHasUnits
    <3> QED BY <1>6, <2>2, <2>3, <3>4
  <2>4. CASE k # c
    <3>1. CASE j = c
      BY <1>5, <1>6, <2>1, <2>4, <3>1
    <3>2. CASE j # c
      BY <1>6, <2>1, <2>4, <3>2
    <3> QED BY <3>1, <3>2
  <2> QED BY <2>3, <2>4
<1>9. \A j, k \in Jobs : S!Ahead(j, k)' <=> S!Ahead(j, k)
  BY <1>2 DEF S!Ahead, S!Sooner
<1>10. S!NeverPassed'
  BY <1>8, <1>9 DEF S!NeverPassed
<1> QED BY <1>7, <1>10
\* A turn of round robin.  Let N be the number of jobs.
LEMMA TurnRound ==
  ASSUME SchedulerInv, PromiseInv, input.policy = "rr", NEW q, NEW known, NEW c, NEW until,
         Turn(q, known, c, until)
  PROVE  RoundInv'
<1>1. Typed /\ ReadyInv /\ \A j \in Jobs : JobInv(j)
  BY TypedIs DEF SchedulerInv
<1>2. PICK N \in Nat, m \in Nat \ {0} : N = Cardinality(Jobs) /\ m = input.quantum
  BY <1>1, JobsAre, FS_CardinalityType DEF Typed
<1>3. PICK now \in Nat : now = time
  BY <1>1 DEF Typed
<1>4. /\ input' = input /\ time' = until /\ until \in Nat /\ now < until /\ c \in Jobs
      /\ \A k : S!Units(k)' = S!Units(k) \cup IF k = c THEN now .. until - 1 ELSE {}
  BY <1>3 DEF Turn, S!Run
<1>5. until <= now + m
  <2>1. S!RunFor(c, known) = S!Min({remaining[c], m})
    BY <1>2 DEF S!RunFor
  <2>2. remaining[c] \in Nat
    BY <1>1, <1>4 DEF Typed
  <2>3. PICK M \in SUBSET Nat : M = {remaining[c], m}
    BY <2>2
  <2>4. S!Min(M) \in Nat /\ S!Min(M) <= m
    BY <2>3, MinIs
  <2>5. PICK n \in Nat : n = S!Min(M)
    BY <2>4
  <2>6. until = now + n
    BY <1>3, <2>1, <2>3, <2>5 DEF Turn
  <2> QED BY <2>4, <2>5, <2>6
<1>6. /\ \A p \in DOMAIN ready : LateBy(ready[p], now, (N - p) * m)
      /\ \A j \in Jobs : \A t \in S!Units(j) : LateBy(j, t, (N - 1) * m)
  BY <1>2, <1>3 DEF PromiseInv, RoundInv
<1>7. ASSUME NEW j \in Jobs, NEW t \in Nat, NEW w, LateBy(j, t, w) PROVE LateBy(j, t, w)'
  <2>1. {u + 1 : u \in {v \in S!Units(j) : v < t}} \subseteq {u + 1 : u \in {v \in S!Units(j)' : v < t}}
    BY <1>4
  <2> QED BY <1>4, <1>7, <2>1 DEF LateBy
<1>8. /\ \A j \in Jobs : input.arrival[j] \in Nat
      /\ \A j \in Jobs : \A v \in S!Units(j) : v \in Nat /\ v < now
  BY <1>1, <1>3, NumbersAre, UnitsAre
<1>9. /\ q = S!Admitted(ready, arrived, time) /\ q \in Seq(Jobs) /\ Once(q) /\ q # <<>> /\ c = q[1]
      /\ Len(q) \in Nat /\ DOMAIN q = 1 .. Len(q) /\ Len(q) <= N /\ 1 \in DOMAIN q
  <2>1. q = S!Admitted(ready, arrived, time) /\ q \in Seq(Jobs) /\ Once(q) /\ q # <<>> /\ c = S!Choice(q)
    BY DEF Turn
  <2>2. c = q[1]
    BY <1>1, <2>1, ChoiceIs
  <2>3. Len(q) \in Nat /\ DOMAIN q = 1 .. Len(q) /\ 1 \in DOMAIN q
    BY <2>1, EmptySeq, LenProperties
  <2>4. \A n \in DOMAIN q : q[n] \in Jobs
    BY <2>1, <2>3, ElementOfSeq
  <2> QED BY <1>2, <2>1, <2>2, <2>3, <2>4, ListIsShort
\* Who has just come has not waited.
<1>10. ASSUME NEW j \in Jobs, input.arrival[j] = now, NEW n \in Nat PROVE LateBy(j, now, n * m)
  <2>1. n * m \in Nat
    BY <1>2
  <2>2. now - now <= n * m
    BY <2>1
  <2> QED BY <1>10, <2>2 DEF LateBy
<1>11. ASSUME NEW p \in DOMAIN q PROVE LateBy(q[p], now, (N - p) * m)
  <2>1. CASE p \in DOMAIN ready /\ q[p] = ready[p]
    BY <1>6, <2>1
  <2>2. CASE q[p] \in S!Arrivals(arrived, time)
    <3>1. PICK j \in Jobs : j = q[p] /\ j \notin arrived /\ input.arrival[j] <= now
      BY <1>3, <2>2 DEF S!Arrivals
    <3>2. now <= input.arrival[j] /\ input.arrival[j] \in Nat
      BY <1>3, <1>8, <3>1 DEF PromiseInv, ComeInv
    <3>3. PICK n \in Nat : n = N - p
      BY <1>9
    <3> QED BY <1>10, <3>1, <3>2, <3>3
  <2>3. ready \in Seq(Jobs) /\ p \in DOMAIN S!Admitted(ready, arrived, time)
    BY <1>1, <1>9 DEF Typed
  <2>4. \/ p \in DOMAIN ready /\ S!Admitted(ready, arrived, time)[p] = ready[p]
        \/ S!Admitted(ready, arrived, time)[p] \in S!Arrivals(arrived, time)
    BY <1>1, <2>3, PlacesAre
  <2>5. q = S!Admitted(ready, arrived, time)
    BY <1>9
  <2>6. (p \in DOMAIN ready /\ q[p] = ready[p]) \/ q[p] \in S!Arrivals(arrived, time)
    BY <2>4, <2>5
  <2> QED BY <2>1, <2>2, <2>6
<1>12. ASSUME NEW j \in Jobs, NEW t \in S!Units(j)' PROVE LateBy(j, t, (N - 1) * m)'
  <2>1. CASE t \in S!Units(j)
    BY <1>6, <1>7, <1>8, <2>1
  <2>2. CASE j = c /\ t = now
    <3>1. LateBy(c, now, (N - 1) * m)
      BY <1>9, <1>11
    <3> QED BY <1>4, <1>7, <2>2, <3>1
  <2>3. CASE j = c /\ t \in now + 1 .. until - 1
    <3>1. t - 1 \in now .. until - 1 /\ t - 1 < t /\ (t - 1) + 1 = t /\ t - t = 0
      BY <1>4, <2>3
    <3>2. t - 1 \in {v \in S!Units(j)' : v < t}
      BY <1>4, <2>3, <3>1
    <3>3. PICK n \in Nat : n = (N - 1) * m
      <4>1. N - 1 \in Nat
        BY <1>9
      <4> QED BY <1>2, <4>1
    <3> QED BY <3>1, <3>2, <3>3 DEF LateBy
  <2>4. t \in S!Units(j) \/ (j = c /\ t \in now .. until - 1)
    BY <1>4
  <2>5. t \in now .. until - 1 => t = now \/ t \in now + 1 .. until - 1
    BY <1>4
  <2> QED BY <2>1, <2>2, <2>3, <2>4, <2>5
<1>13. PICK r : r = S!Without(q, c)
  OBVIOUS
<1>14. /\ r \in Seq(Jobs) /\ Once(r) /\ \A k \in Jobs : Has(r, k) <=> Has(q, k) /\ k # c
       /\ \A p \in DOMAIN r : p + 1 \in DOMAIN q /\ r[p] = q[p + 1]
  <2>1. Has(q, c)
    BY <1>9 DEF Has
  <2> QED BY <1>4, <1>9, <1>13, <2>1, WithoutIs, MovedUp
<1>15. PICK s : s = S!Admitted(r, known, until)
  OBVIOUS
<1>16. /\ s \in Seq(Jobs) /\ Once(s) /\ \A n \in DOMAIN s : s[n] \in Jobs \ {c}
  <2>1. known \in SUBSET Jobs /\ c \in known /\ \A k \in Jobs : Has(q, k) => k \in known
    BY <1>1, ArrivalsAre DEF Turn, Typed
  <2>2. \A k \in Jobs : Has(r, k) => k \in known
    BY <1>14, <2>1
  <2>3. /\ s \in Seq(Jobs) /\ Once(s)
        /\ \A k \in Jobs : Has(s, k) <=> Has(r, k) \/ k \in S!Arrivals(known, until)
    BY <1>1, <1>14, <1>15, <2>1, <2>2, AdmittedIs
  <2>4. ~Has(s, c)
    BY <1>4, <1>14, <2>1, <2>3 DEF S!Arrivals
  <2>5. \A n \in DOMAIN s : s[n] \in Jobs
    BY <2>3, ElementOfSeq, LenProperties
  <2> QED BY <2>3, <2>4, <2>5 DEF Has
<1>17. Len(s) \in Nat /\ DOMAIN s = 1 .. Len(s) /\ Len(s) <= N - 1
  <2>1. PICK A \in SUBSET Jobs : A = Jobs \ {c}
    OBVIOUS
  <2>2. Cardinality(A) = N - 1
    BY <1>2, <1>4, <2>1, JobsAre, FS_RemoveElement
  <2>3. Len(s) <= Cardinality(A)
    BY <1>16, <2>1, ListIsShort
  <2> QED BY <1>16, <2>2, <2>3, LenProperties
\* A quantum later each has moved up by one place at least.
<1>18. ASSUME NEW p \in DOMAIN s PROVE LateBy(s[p], until, (N - p) * m)'
  <2>1. PICK n \in Nat : n = N - (p + 1) /\ N - p = n + 1
    BY <1>2, <1>17
  <2>2. PICK w \in Nat : w = n * m /\ (N - p) * m = w + m
    BY <1>2, <2>1
  <2>3. CASE p \in DOMAIN r /\ s[p] = r[p]
    <3>1. PICK j \in Jobs : j = s[p] /\ j = q[p + 1] /\ p + 1 \in DOMAIN q
      BY <1>14, <1>16, <2>3
    <3>2. LateBy(j, now, w)
      BY <1>11, <2>1, <2>2, <3>1
    <3>3. PICK b \in {input.arrival[j]} \cup {u + 1 : u \in {v \in S!Units(j) : v < now}} : now - b <= w
      BY <3>2 DEF LateBy
    <3>4. b \in {input.arrival[j]} \cup {u + 1 : u \in {v \in S!Units(j)' : v < until}}
      BY <1>4, <1>8, <3>3
    <3>5. b \in Nat
      BY <1>8, <3>3
    <3>6. until - b <= w + m
      BY <1>4, <1>5, <3>3, <3>5
    <3>7. LateBy(j, until, w + m)'
      BY <1>4, <3>4, <3>6 DEF LateBy
    <3> QED BY <2>2, <3>1, <3>7
  <2>4. CASE s[p] \in S!Arrivals(known, until)
    <3>1. PICK j \in Jobs : j = s[p] /\ j \notin known
      BY <2>4 DEF S!Arrivals
    <3>2. PICK a \in Nat : a = input.arrival[j] /\ now < a
      BY <1>3, <1>8, <3>1 DEF Turn
    <3>3. until - a <= w + m
      BY <1>4, <1>5, <3>2
    <3>4. LateBy(j, until, w + m)'
      BY <1>4, <3>2, <3>3 DEF LateBy
    <3> QED BY <2>2, <3>1, <3>4
  <2> QED BY <1>1, <1>14, <1>15, <2>3, <2>4, PlacesAre
<1>19. ASSUME NEW n \in Nat PROVE LateBy(c, until, n * m)'
  <2>1. until - 1 \in now .. until - 1 /\ until - 1 < until /\ (until - 1) + 1 = until /\ until - until = 0
    BY <1>4
  <2>2. until - 1 \in {v \in S!Units(c)' : v < until}
    BY <1>4, <2>1
  <2>3. PICK w \in Nat : w = n * m
    BY <1>2
  <2> QED BY <2>1, <2>2, <2>3 DEF LateBy
<1>20. ready' = s \/ ready' = Append(s, c)
  BY <1>13, <1>15 DEF Turn, S!Run, S!Requeued
<1>21. ASSUME NEW p \in DOMAIN ready', NEW j, j = ready'[p] PROVE LateBy(j, until, (N - p) * m)'
  <2>1. CASE p \in DOMAIN s /\ ready'[p] = s[p]
    BY <1>18, <1>21, <2>1
  <2>2. CASE p = Len(s) + 1 /\ ready'[p] = c
    <3>1. PICK n \in Nat : n = N - p
      BY <1>2, <1>17, <2>2
    <3> QED BY <1>19, <1>21, <2>2, <3>1
  <2>3. (p \in DOMAIN s /\ ready'[p] = s[p]) \/ (p = Len(s) + 1 /\ ready'[p] = c)
    <3>1. CASE ready' = s
      BY <3>1
    <3>2. CASE ready' = Append(s, c)
      <4>1. /\ DOMAIN ready' = 1 .. Len(s) + 1 /\ ready'[Len(s) + 1] = c
            /\ \A i \in 1 .. Len(s) : ready'[i] = s[i]
        BY <1>4, <1>16, <3>2, AppendProperties, LenProperties
      <4> QED BY <1>17, <4>1
    <3> QED BY <1>20, <3>1, <3>2
  <2> QED BY <2>1, <2>2, <2>3
<1>22. ASSUME NEW p \in DOMAIN ready'
       PROVE  LateBy(ready[p], time, (Cardinality(Jobs) - p) * input.quantum)'
  <2>1. PICK j : j = ready'[p]
    OBVIOUS
  <2>2. LateBy(j, until, (N - p) * m)'
    BY <1>21, <2>1
  <2> QED BY <1>2, <1>4, <2>1, <2>2 DEF LateBy
<1>23. ASSUME NEW j \in Jobs, NEW t \in S!Units(j)'
       PROVE  LateBy(j, t, (Cardinality(Jobs) - 1) * input.quantum)'
  BY <1>2, <1>4, <1>12 DEF LateBy
<1> QED BY <1>22, <1>23 DEF RoundInv

LEMMA PromiseNext ==
  ASSUME SchedulerInv, PromiseInv, S!Next
  PROVE  PromiseInv'
<1>1. CASE S!Wait
  <2>1. UNCHANGED <<input, arrived, ready, firstStart, completion>>
    BY <1>1 DEF S!Wait
  <2>2. ComeInv' /\ \A j \in Jobs : ~Has(ready, j) /\ S!Units(j)' = S!Units(j)
    BY <1>1, <2>1, WaitStep DEF ComeInv
  <2> QED BY <2>1, <2>2, PromiseStill
<1>2. CASE S!Dispatch
  <2>1. PICK q, known, c, until : Turn(q, known, c, until)
    BY <1>2, DispatchStep
  <2>2. input' = input
    BY <2>1 DEF Turn, S!Run
  <2>3. ComeInv'
    <3>1. time' = until /\ arrived' = known \cup S!Arrivals(known, until) /\ until \in Nat
      BY <2>1 DEF Turn, S!Run
    <3>2. \A j \in Jobs : input.arrival[j] \in Nat
      BY TypedIs, NumbersAre DEF SchedulerInv
    <3> QED BY <2>2, <3>1, <3>2 DEF ComeInv, S!Arrivals
  <2>4. input.policy = "rr" => RoundInv'
    BY <2>1, TurnRound
  <2>5. Unpreempted => (\A j \in Jobs : WholeInv(j)') /\ S!NeverPassed'
    BY <2>1, TurnUnpreempted
  <2> QED BY <2>2, <2>3, <2>4, <2>5 DEF PromiseInv, Unpreempted
<1>3. CASE S!Finished
  BY <1>3, PromiseStays DEF S!Finished
<1> QED BY <1>1, <1>2, <1>3 DEF S!Next

LEMMA PromisesKept ==
  ASSUME SchedulerInv, PromiseInv
  PROVE  S!PolicyPromises
<1>1. Typed /\ \A j \in Jobs : JobInv(j)
  BY TypedIs DEF SchedulerInv
<1>2. ASSUME input.policy = "rr", NEW j \in Jobs, NEW t \in S!Units(j)
      PROVE  S!WaitBefore(j, t) <= (S!Cardinality(Jobs) - 1) * input.quantum
  <2>1. LateBy(j, t, (Cardinality(Jobs) - 1) * input.quantum)
    BY <1>2 DEF PromiseInv, RoundInv
  <2>2. PICK C : C = {input.arrival[j]} \cup {u + 1 : u \in {v \in S!Units(j) : v < t}}
    OBVIOUS
  <2>3. PICK w \in Int : w = (Cardinality(Jobs) - 1) * input.quantum
    <3>1. PICK n \in Int, m \in Int : n = Cardinality(Jobs) - 1 /\ m = input.quantum
      BY <1>1, JobsAre, FS_CardinalityType DEF Typed
    <3>2. n * m \in Int
      OBVIOUS
    <3> QED BY <3>1, <3>2
  <2>4. PICK b \in C : t - b <= w
    BY <2>1, <2>2, <2>3 DEF LateBy
  <2>5. t \in Nat /\ (\A x \in C : x \in Nat /\ x <= t)
    <3>1. input.arrival[j] \in Nat /\ input.arrival[j] <= t
      BY <1>1, <1>2, NumbersAre DEF JobInv
    <3>2. t \in Nat /\ \A v \in S!Units(j) : v \in Nat
      BY <1>1, UnitsAre
    <3>3. \A v \in S!Units(j) : v < t => v + 1 \in Nat /\ v + 1 <= t
      BY <3>2
    <3> QED BY <2>2, <3>1, <3>2, <3>3
  <2>6. S!Max(C) \in C /\ b <= S!Max(C)
    BY <2>4, <2>5, GreatestIs
  <2>7. S!WaitBefore(j, t) = t - S!Max(C)
    BY <2>2 DEF S!WaitBefore
  <2>8. PICK x \in Nat, y \in Nat : x = S!Max(C) /\ y = b /\ y <= x
    BY <2>4, <2>5, <2>6
  <2>9. t - x <= w
    BY <2>4, <2>5, <2>8
  <2> QED BY <2>3, <2>7, <2>8, <2>9, CardinalityS
<1>3. ASSUME Unpreempted, NEW j \in Jobs, S!Units(j) # {}
      PROVE  S!Units(j) = S!Min(S!Units(j)) .. S!Max(S!Units(j))
  <2>1. PICK a \in Nat, b \in Nat : a = firstStart[j] /\ b = completion[j] /\ S!Units(j) = a .. b - 1
    BY <1>1, <1>3 DEF PromiseInv, WholeInv, JobInv, Typed
  <2>2. PICK C : C = S!Units(j) /\ C = a .. b - 1 /\ C \in SUBSET Nat /\ a \in C /\ b - 1 \in C /\ b - 1 \in Nat
    BY <1>3, <2>1
  <2>3. S!Min(C) \in C /\ \A x \in C : S!Min(C) <= x
    BY <2>2, MinIs
  <2>4. S!Max(C) \in C /\ \A x \in C : x <= S!Max(C)
    <3>1. PICK top \in Nat : top = b - 1
      BY <2>2
    <3>2. C = a .. top
      BY <2>2, <3>1
    <3>3. \A x \in C : x <= top
      BY <3>1, <3>2
    <3>4. C # {} /\ C \in SUBSET Nat
      BY <2>2
    <3> QED BY <3>1, <3>3, <3>4, GreatestIs
  <2>5. S!Min(C) = a
    BY <2>2, <2>3
  <2>6. S!Max(C) = b - 1
    BY <2>2, <2>4
  <2> QED BY <2>2, <2>5, <2>6
<1>4. input.policy = "rr" => S!RoundIsFair
  BY <1>2 DEF S!RoundIsFair
<1>5. Unpreempted => S!NeverPreempts /\ S!NeverPassed
  BY <1>3 DEF S!NeverPreempts, PromiseInv
<1> QED BY <1>4, <1>5 DEF S!PolicyPromises, Unpreempted

-----------------------------------------------------------------------------
(* The question deck.                                                      *)

\* A page that waits takes no click, and what it shows or is about to show is
\* not in its deck.
PageInv ==
  /\ click # <<>> => page.busy
  /\ ~page.restored =>
       /\ page.current \notin page.remaining
       /\ \A id \in Questions : click = <<"fetching", id>> => id \notin page.remaining
       /\ page.catalog = {} => page.busy /\ click = <<>>

DeckInv == Q!TypeOK /\ PageInv /\ Q!RoundTrue

\* The catalogs of the site are sets of questions, never empty.
LEMMA CatalogIs ==
  ASSUME Q!TypeOK
  PROVE  Q!Catalog \subseteq Questions /\ Q!Catalog # {} /\ 0 \notin Questions
<1>1. Questions \subseteq Nat \ {0} /\ Catalogs \in Seq((SUBSET Questions) \ {{}})
  BY LabsAssumption DEF Q!DeckAssumption
<1>2. deployed \in 1 .. Len(Catalogs)
  BY DEF Q!TypeOK
<1>3. Catalogs[deployed] \in (SUBSET Questions) \ {{}}
  BY <1>1, <1>2, ElementOfSeq
<1>4. 0 \notin Questions
  BY <1>1
<1> QED BY <1>3, <1>4 DEF Q!Catalog

\* A document made by its script is a document.
LEMMA DocumentIs ==
  ASSUME NEW doc \in Int, NEW a \in Q!Addresses,
         NEW catalog \in SUBSET Questions, NEW left \in SUBSET Questions
  PROVE  LET d == Q!Document(doc, a, catalog, left) IN
         /\ d \in Q!Documents
         /\ d.doc = doc /\ d.current = a /\ d.catalog = catalog /\ d.remaining = left
         /\ ~d.busy /\ ~d.swapped /\ ~d.restored
BY DEF Q!Document, Q!Documents

\* What a load changes: the page, and what is saved and seen.
Loads == Q!TypeOK /\ Q!RoundTrue /\ UNCHANGED <<deployed, stale>>
LoadedWell ==
  /\ saved' \in [catalog : SUBSET Questions, remaining : SUBSET Questions]
  /\ page' \in Q!Documents /\ seen' \subseteq Questions
  /\ click' = <<>> /\ going' = <<>>
  /\ PageInv' /\ Q!RoundTrue'

LEMMA RunScriptStep ==
  ASSUME NEW doc \in Int, NEW a \in Q!Addresses, Loads, Q!RunScript(doc, a),
         click' = <<>>, going' = <<>>
  PROVE  LoadedWell
<1> DEFINE left == Q!Loaded \ {a}
<1>1. Q!Catalog \subseteq Questions /\ Q!Catalog # {} /\ 0 \notin Questions
  BY CatalogIs DEF Loads
<1>2. saved \in [catalog : SUBSET Questions, remaining : SUBSET Questions] /\ seen \subseteq Questions
  BY DEF Loads, Q!TypeOK
<1>3. left \subseteq Questions
  BY <1>1, <1>2 DEF Q!Loaded, Q!Added
<1>4. page' = Q!Document(doc, a, Q!Catalog, left)
  BY DEF Q!RunScript
<1>5. /\ page' \in Q!Documents
      /\ page'.current = a /\ page'.catalog = Q!Catalog /\ page'.remaining = left
      /\ ~page'.restored
  BY <1>1, <1>3, <1>4, DocumentIs
<1>6. saved' = IF saved = Q!Blocked THEN Q!Blocked ELSE [catalog |-> Q!Catalog, remaining |-> left]
  BY DEF Q!RunScript, Q!Save
<1>7. saved' \in [catalog : SUBSET Questions, remaining : SUBSET Questions]
  BY <1>1, <1>2, <1>3, <1>6 DEF Q!Blocked
<1>8. seen' = (IF saved = Q!Blocked THEN {} ELSE seen \ Q!Added) \cup ({a} \cap Questions)
  BY DEF Q!RunScript
<1>9. PageInv'
  BY <1>1, <1>5 DEF PageInv
<1>10. Q!RoundTrue'
  <2> SUFFICES ASSUME ~stale', saved' # Q!Blocked
               PROVE  /\ saved'.remaining = saved'.catalog \ seen'
                      /\ page'.remaining = saved'.remaining /\ page'.catalog = saved'.catalog
    BY DEF Q!RoundTrue
  <2>1. saved # Q!Blocked /\ saved'.catalog = Q!Catalog /\ saved'.remaining = left
    BY <1>6
  <2>2. saved.remaining = saved.catalog \ seen
    BY <2>1 DEF Loads, Q!RoundTrue
  <2>3. left = Q!Catalog \ seen'
    BY <1>1, <1>2, <1>8, <2>1, <2>2 DEF Q!Loaded, Q!Added
  <2> QED BY <1>5, <2>1, <2>3
<1> QED BY <1>2, <1>5, <1>7, <1>8, <1>9, <1>10 DEF LoadedWell

LEMMA LoadStep ==
  ASSUME NEW doc \in Int, NEW a \in Q!Addresses, Loads, Q!Load(doc, a)
  PROVE  LoadedWell
<1>1. CASE Q!RunScript(doc, a)
  BY <1>1, RunScriptStep DEF Q!Load
<1>2. CASE /\ page' = [Q!Document(doc, a, {}, {}) EXCEPT !.busy = TRUE]
           /\ UNCHANGED <<saved, seen>>
  <2>1. /\ page' \in Q!Documents /\ page'.busy /\ ~page'.restored
        /\ page'.catalog = {} /\ page'.remaining = {}
    BY <1>2 DEF Q!Document, Q!Documents
  <2>2. click' = <<>> /\ going' = <<>>
    BY DEF Q!Load
  <2>3. PageInv'
    BY <2>1, <2>2 DEF PageInv
  <2>4. Q!RoundTrue'
    BY <1>2, <2>1 DEF Loads, Q!RoundTrue
  <2> QED BY <1>2, <2>1, <2>2, <2>3, <2>4 DEF LoadedWell, Loads, Q!TypeOK
<1> QED BY <1>1, <1>2 DEF Q!Load

LEMMA DeckInit == Q!Init => DeckInv
<1> SUFFICES ASSUME Q!Init PROVE DeckInv
  OBVIOUS
<1>1. PICK a \in Q!Catalog \cup {0} :
        /\ page = Q!Document(1, a, Q!Catalog, Q!Catalog \ {a})
        /\ history = <<[address |-> a, doc |-> 1]>> /\ at = 1
        /\ saved \in {Q!Blocked, [catalog |-> Q!Catalog, remaining |-> Q!Catalog \ {a}]}
        /\ seen = {a} \cap Questions
  BY DEF Q!Init, Q!Library
<1>2. deployed = 1 /\ kept = {} /\ click = <<>> /\ going = <<>> /\ stale = FALSE /\ draws = 0 /\ moves = 0
  BY DEF Q!Init
<1>3. Questions \subseteq Nat \ {0} /\ Catalogs \in Seq((SUBSET Questions) \ {{}}) /\ Catalogs # <<>>
      /\ MaxDraws \in Nat /\ MaxMoves \in Nat
  BY LabsAssumption DEF Q!DeckAssumption
<1>4. deployed \in 1 .. Len(Catalogs)
  BY <1>2, <1>3, EmptySeq, LenProperties
<1>5. Q!Catalog \in (SUBSET Questions) \ {{}}
  BY <1>3, <1>4, ElementOfSeq DEF Q!Catalog
<1>6. a \in Q!Addresses
  BY <1>5 DEF Q!Addresses, Q!Library
<1>7. /\ page \in Q!Documents
      /\ page.current = a /\ page.catalog = Q!Catalog /\ page.remaining = Q!Catalog \ {a}
      /\ ~page.busy /\ ~page.swapped /\ ~page.restored
  BY <1>1, <1>5, <1>6, DocumentIs
<1>8. history \in Seq([address : Q!Addresses, doc : Int]) /\ Len(history) = 1
  BY <1>1, <1>6
<1>9. saved \in [catalog : SUBSET Questions, remaining : SUBSET Questions]
  BY <1>1, <1>5 DEF Q!Blocked
<1>10. Q!TypeOK
  <2>1. at \in 1 .. Len(history) /\ kept \subseteq Q!Documents /\ seen \subseteq Questions
    BY <1>1, <1>2, <1>8
  <2>2. draws \in 0 .. MaxDraws /\ moves \in 0 .. MaxMoves
    BY <1>2, <1>3
  <2>4. stale \in BOOLEAN
    BY <1>2
  <2>3. /\ click \in {<<>>, <<"turning">>} \cup {<<"fetching", i>> : i \in Questions}
        /\ going \in {<<>>, <<"reload">>} \cup {<<"assign", i>> : i \in Q!Addresses}
    BY <1>2
  <2> QED BY <1>4, <1>7, <1>8, <1>9, <2>1, <2>2, <2>3, <2>4 DEF Q!TypeOK
<1>11. PageInv
  BY <1>2, <1>5, <1>7 DEF PageInv
<1>12. Q!RoundTrue
  <2> SUFFICES ASSUME saved # Q!Blocked
               PROVE  /\ saved.remaining = saved.catalog \ seen
                      /\ page.remaining = saved.remaining /\ page.catalog = saved.catalog
    BY DEF Q!RoundTrue
  <2>1. saved.catalog = Q!Catalog /\ saved.remaining = Q!Catalog \ {a}
    BY <1>1
  <2>2. Q!Catalog \ {a} = Q!Catalog \ seen
    BY <1>1, <1>5
  <2> QED BY <1>7, <2>1, <2>2
<1> QED BY <1>10, <1>11, <1>12 DEF DeckInv

\* A click that draws: the deck on the page, the saved one and the round agree again.
LEMMA DrawStep ==
  ASSUME DeckInv, NEW id \in Questions, Q!Draw(id)
  PROVE  DeckInv'
<1> DEFINE left == Q!Pool \ {id}
<1>1. page \in Q!Documents /\ ~page.busy /\ seen \subseteq Questions
      /\ saved \in [catalog : SUBSET Questions, remaining : SUBSET Questions]
  BY DEF DeckInv, Q!TypeOK, Q!Draw
<1>2. page.catalog \subseteq Questions /\ page.remaining \subseteq Questions /\ page.restored \in BOOLEAN
  BY <1>1 DEF Q!Documents
<1>3. left \subseteq Questions /\ page.current \notin left /\ id \notin left
  BY <1>2 DEF Q!Pool, Q!Unseen
<1>4. page' = [page EXCEPT !.remaining = left, !.busy = TRUE]
  BY DEF Q!Draw
<1>5. /\ page' \in Q!Documents
      /\ page'.current = page.current /\ page'.catalog = page.catalog
      /\ page'.remaining = left /\ page'.busy /\ page'.restored = page.restored
  BY <1>1, <1>3, <1>4 DEF Q!Documents
<1>6. saved' = IF saved = Q!Blocked THEN Q!Blocked ELSE [catalog |-> page.catalog, remaining |-> left]
  BY DEF Q!Draw, Q!Save
<1>7. seen' = (IF Q!Unseen = {} THEN {} ELSE seen) \cup ({page.current, id} \cap Questions)
  BY DEF Q!Draw
<1>8. /\ click' \in {click, <<"fetching", id>>}
      /\ going' \in {going, <<"assign", id>>}
  BY DEF Q!Draw
<1>9. UNCHANGED <<deployed, kept, history, at, moves>> /\ draws' = draws + 1 /\ draws < MaxDraws
      /\ stale' = (stale \/ page.restored)
  BY DEF Q!Draw, Q!browser
<1>10. Q!TypeOK'
  <2>1. saved' \in [catalog : SUBSET Questions, remaining : SUBSET Questions] /\ seen' \subseteq Questions
    BY <1>1, <1>2, <1>3, <1>6, <1>7
  <2>2. /\ click' \in {<<>>, <<"turning">>} \cup {<<"fetching", i>> : i \in Questions}
        /\ going' \in {<<>>, <<"reload">>} \cup {<<"assign", a>> : a \in Q!Addresses}
    BY <1>8 DEF DeckInv, Q!TypeOK, Q!Addresses
  <2>3. draws' \in 0 .. MaxDraws /\ moves' \in 0 .. MaxMoves /\ deployed' \in 1 .. Len(Catalogs)
    <3>1. MaxDraws \in Nat /\ draws \in 0 .. MaxDraws
      BY LabsAssumption DEF DeckInv, Q!TypeOK, Q!DeckAssumption
    <3>2. draws' \in 0 .. MaxDraws
      BY <1>9, <3>1
    <3> QED BY <1>9, <3>2 DEF DeckInv, Q!TypeOK
  <2>4. kept' \subseteq Q!Documents /\ history' \in Seq([address : Q!Addresses, doc : Int])
        /\ at' \in 1 .. Len(history')
    BY <1>9 DEF DeckInv, Q!TypeOK
  <2>5. stale' \in BOOLEAN
    BY <1>2, <1>9 DEF DeckInv, Q!TypeOK
  <2> QED BY <1>5, <2>1, <2>2, <2>3, <2>4, <2>5 DEF Q!TypeOK
<1>11. PageInv'
  <2> SUFFICES ASSUME ~page'.restored
               PROVE  /\ page'.current \notin page'.remaining
                      /\ \A i \in Questions : click' = <<"fetching", i>> => i \notin page'.remaining
                      /\ page'.catalog # {}
    BY <1>5 DEF PageInv
  <2>1. click = <<>> /\ page.catalog # {}
    BY <1>1, <1>5 DEF DeckInv, PageInv
  <2>2. \A i \in Questions : click' = <<"fetching", i>> => i = id
    BY <1>8, <2>1
  <2> QED BY <1>3, <1>5, <2>1, <2>2
<1>12. Q!RoundTrue'
  <2> SUFFICES ASSUME ~stale', saved' # Q!Blocked
               PROVE  /\ saved'.remaining = saved'.catalog \ seen'
                      /\ page'.remaining = saved'.remaining /\ page'.catalog = saved'.catalog
    BY DEF Q!RoundTrue
  <2>1. ~stale /\ ~page.restored /\ saved # Q!Blocked
    BY <1>6, <1>9
  <2>2. page.catalog # {}
    BY <1>1, <2>1 DEF DeckInv, PageInv
  <2>3. page.remaining = page.catalog \ seen
    BY <2>1, <2>2 DEF DeckInv, Q!RoundTrue
  <2>4. saved'.catalog = page.catalog /\ saved'.remaining = left
    BY <1>6, <2>1
  <2>5. left = page.catalog \ seen'
    BY <1>2, <1>7, <2>3 DEF Q!Pool, Q!Unseen
  <2> QED BY <1>5, <2>4, <2>5
<1> QED BY <1>10, <1>11, <1>12 DEF DeckInv

LEMMA DrawNothingStep ==
  ASSUME DeckInv, Q!DrawNothing
  PROVE  DeckInv'
<1>1. page \in Q!Documents /\ ~page.busy /\ seen \subseteq Questions
      /\ saved \in [catalog : SUBSET Questions, remaining : SUBSET Questions]
  BY DEF DeckInv, Q!TypeOK, Q!DrawNothing
<1>2. page.catalog \subseteq Questions /\ page.remaining \subseteq Questions /\ page.restored \in BOOLEAN
  BY <1>1 DEF Q!Documents
<1>3. page' = [page EXCEPT !.remaining = {}]
  BY DEF Q!DrawNothing
<1>4. /\ page' \in Q!Documents
      /\ page'.current = page.current /\ page'.catalog = page.catalog
      /\ page'.remaining = {} /\ page'.busy = page.busy /\ page'.restored = page.restored
  BY <1>1, <1>3 DEF Q!Documents
<1>5. saved' = IF saved = Q!Blocked THEN Q!Blocked ELSE [catalog |-> page.catalog, remaining |-> {}]
  BY DEF Q!DrawNothing, Q!Save
<1>6. UNCHANGED <<deployed, kept, history, at, click, going, seen, draws, moves>>
      /\ stale' = (stale \/ page.restored)
  BY DEF Q!DrawNothing, Q!browser
<1>7. Q!TypeOK'
  <2>1. saved' \in [catalog : SUBSET Questions, remaining : SUBSET Questions]
    BY <1>1, <1>2, <1>5
  <2>2. stale' \in BOOLEAN
    BY <1>2, <1>6 DEF DeckInv, Q!TypeOK
  <2> QED BY <1>4, <1>6, <2>1, <2>2 DEF DeckInv, Q!TypeOK
<1>8. PageInv'
  BY <1>4, <1>6 DEF DeckInv, PageInv
<1>9. Q!RoundTrue'
  <2> SUFFICES ASSUME ~stale', saved' # Q!Blocked
               PROVE  /\ saved'.remaining = saved'.catalog \ seen'
                      /\ page'.remaining = saved'.remaining /\ page'.catalog = saved'.catalog
    BY DEF Q!RoundTrue
  <2>1. ~stale /\ ~page.restored /\ saved # Q!Blocked
    BY <1>5, <1>6
  <2>2. page.catalog # {} /\ page.current \notin page.remaining
    BY <1>1, <2>1 DEF DeckInv, PageInv
  <2>3. page.remaining = page.catalog \ seen
    BY <2>1, <2>2 DEF DeckInv, Q!RoundTrue
  <2>4. page.remaining = {}
    BY <2>2 DEF Q!DrawNothing, Q!Pool, Q!Unseen
  <2>5. saved'.catalog = page.catalog /\ saved'.remaining = {}
    BY <1>5, <2>1
  <2> QED BY <1>4, <1>6, <2>3, <2>4, <2>5
<1> QED BY <1>7, <1>8, <1>9 DEF DeckInv

\* The entries up to the present one.
LEMMA PastIs ==
  ASSUME Q!TypeOK, NEW a \in Q!Addresses, NEW doc \in Int,
         history' = Append(Q!Past, [address |-> a, doc |-> doc]), at' = at + 1
  PROVE  history' \in Seq([address : Q!Addresses, doc : Int]) /\ at' \in 1 .. Len(history')
<1> DEFINE entries == [address : Q!Addresses, doc : Int]
<1>1. history \in Seq(entries) /\ at \in 1 .. Len(history)
  BY DEF Q!TypeOK
<1>2. [address |-> a, doc |-> doc] \in entries
  OBVIOUS
<1> HIDE DEF entries
<1>3. Q!Past \in Seq(entries) /\ Len(Q!Past) = at
  BY <1>1, SubSeqProperties DEF Q!Past
<1>4. history' \in Seq(entries) /\ Len(history') = at + 1
  BY <1>2, <1>3, AppendProperties
<1>5. at' \in 1 .. Len(history')
  BY <1>1, <1>4
<1> QED BY <1>4, <1>5 DEF entries

LEMMA SwapStep ==
  ASSUME DeckInv, Q!Swap
  PROVE  DeckInv'
<1>1. PICK id \in Q!Catalog :
        /\ click = <<"fetching", id>> /\ click' = <<"turning">>
        /\ page' = [page EXCEPT !.current = id, !.swapped = TRUE]
        /\ history' = Append(Q!Past, [address |-> id, doc |-> page.doc])
  BY DEF Q!Swap
<1>2. id \in Questions /\ id \in Q!Addresses
  BY CatalogIs DEF DeckInv, Q!Addresses
<1>3. page \in Q!Documents /\ page.doc \in Int
  BY DEF DeckInv, Q!TypeOK, Q!Documents
<1>4. /\ page' \in Q!Documents
      /\ page'.current = id /\ page'.catalog = page.catalog
      /\ page'.remaining = page.remaining /\ page'.busy = page.busy /\ page'.restored = page.restored
  BY <1>1, <1>2, <1>3 DEF Q!Documents
<1>5. /\ UNCHANGED <<deployed, saved, going, seen, stale, draws, moves>>
      /\ at' = at + 1 /\ kept' \subseteq kept
  BY DEF Q!Swap, Q!counted
<1>6. history' \in Seq([address : Q!Addresses, doc : Int]) /\ at' \in 1 .. Len(history')
  BY <1>1, <1>2, <1>3, <1>5, PastIs DEF DeckInv
<1>7. Q!TypeOK'
  BY <1>1, <1>4, <1>5, <1>6 DEF DeckInv, Q!TypeOK
<1>8. PageInv'
  <2>1. \A i \in Questions : click' # <<"fetching", i>>
    BY <1>1
  <2>2. click # <<>>
    BY <1>1
  <2> QED BY <1>1, <1>2, <1>4, <2>1, <2>2 DEF DeckInv, PageInv
<1>9. Q!RoundTrue'
  BY <1>4, <1>5 DEF DeckInv, Q!RoundTrue
<1> QED BY <1>7, <1>8, <1>9 DEF DeckInv

\* The handler is done, or gives up: the page takes clicks again.
LEMMA ClickEnds ==
  ASSUME DeckInv, Q!FetchFails \/ Q!Turned
  PROVE  DeckInv'
<1>1. click # <<>> /\ click' = <<>> /\ page' = [page EXCEPT !.busy = FALSE]
  BY DEF Q!FetchFails, Q!Turned
<1>2. UNCHANGED <<deployed, saved, kept, history, at, seen, stale, draws, moves>>
  BY DEF Q!FetchFails, Q!Turned, Q!browser, Q!counted
<1>3. going' \in {<<>>, <<"reload">>} \cup {<<"assign", a>> : a \in Q!Addresses}
  <2>1. CASE Q!Turned
    BY <2>1 DEF DeckInv, Q!TypeOK, Q!Turned
  <2>2. CASE Q!FetchFails
    BY <2>2 DEF Q!FetchFails, Q!Addresses
  <2> QED BY <2>1, <2>2
<1>4. page \in Q!Documents
  BY DEF DeckInv, Q!TypeOK
<1>5. /\ page' \in Q!Documents
      /\ page'.current = page.current /\ page'.catalog = page.catalog
      /\ page'.remaining = page.remaining /\ page'.restored = page.restored
  BY <1>1, <1>4 DEF Q!Documents
<1>6. Q!TypeOK'
  BY <1>1, <1>2, <1>3, <1>5 DEF DeckInv, Q!TypeOK
<1>7. PageInv'
  BY <1>1, <1>5 DEF DeckInv, PageInv
<1>8. Q!RoundTrue'
  BY <1>2, <1>5 DEF DeckInv, Q!RoundTrue
<1> QED BY <1>6, <1>7, <1>8 DEF DeckInv

LEMMA NavigateStep ==
  ASSUME DeckInv, Q!Navigate
  PROVE  DeckInv'
<1>1. UNCHANGED <<deployed, saved, page, kept, history, at, click, seen, stale, draws>>
      /\ moves' = moves + 1 /\ moves < MaxMoves
  BY DEF Q!Navigate, Q!browser
<1>2. going' \in {<<>>, <<"reload">>} \cup {<<"assign", a>> : a \in Q!Addresses}
  BY CatalogIs DEF DeckInv, Q!Navigate, Q!Addresses
<1>3. moves' \in 0 .. MaxMoves
  BY <1>1, LabsAssumption DEF DeckInv, Q!TypeOK, Q!DeckAssumption
<1>4. Q!TypeOK'
  BY <1>1, <1>2, <1>3 DEF DeckInv, Q!TypeOK
<1>5. PageInv' /\ Q!RoundTrue'
  BY <1>1 DEF DeckInv, PageInv, Q!RoundTrue
<1> QED BY <1>4, <1>5 DEF DeckInv

\* What a load leaves to be shown.
LEMMA AfterLoad ==
  ASSUME DeckInv, LoadedWell, kept' \subseteq kept \cup {page}, UNCHANGED <<deployed, stale, draws>>,
         moves' \in 0 .. MaxMoves,
         history' \in Seq([address : Q!Addresses, doc : Int]), at' \in 1 .. Len(history')
  PROVE  DeckInv'
BY DEF DeckInv, LoadedWell, Q!TypeOK

LEMMA KeptIs ==
  ASSUME NEW K \in Q!Left PROVE K \subseteq kept \cup {page}
BY DEF Q!Left

LEMMA EntryIs ==
  ASSUME Q!TypeOK, NEW i \in DOMAIN history
  PROVE  history[i].address \in Q!Addresses /\ history[i].doc \in Int /\ i \in 1 .. Len(history)
<1> DEFINE entries == [address : Q!Addresses, doc : Int]
<1>1. history \in Seq(entries)
  BY DEF Q!TypeOK
<1>2. \A e \in entries : e.address \in Q!Addresses /\ e.doc \in Int
  OBVIOUS
<1> HIDE DEF entries
<1>3. i \in 1 .. Len(history) /\ history[i] \in entries
  BY <1>1, LenProperties, ElementOfSeq
<1> QED BY <1>2, <1>3

LEMMA ReloadStep ==
  ASSUME DeckInv, Q!Reload
  PROVE  DeckInv'
<1>1. UNCHANGED <<deployed, kept, history, at, stale, draws, moves>>
  BY DEF Q!Reload, Q!browser, Q!counted
<1>2. Q!TypeOK /\ Q!RoundTrue
  BY DEF DeckInv
<1>3. page.doc \in Int
  BY <1>2 DEF Q!TypeOK, Q!Documents
<1>4. at \in DOMAIN history
  BY <1>2, LenProperties DEF Q!TypeOK
<1>5. history[at].address \in Q!Addresses
  BY <1>2, <1>4, EntryIs
<1>6. Q!Load(page.doc, history[at].address)
  BY DEF Q!Reload
<1>7. LoadedWell
  BY <1>1, <1>2, <1>3, <1>5, <1>6, LoadStep DEF Loads
<1> QED BY <1>1, <1>2, <1>7, AfterLoad DEF Q!TypeOK

LEMMA AssignStep ==
  ASSUME DeckInv, Q!Assign
  PROVE  DeckInv'
<1>1. PICK a \in Q!Addresses :
        /\ Q!Load(history[at].doc + 1, a)
        /\ history' = Append(Q!Past, [address |-> a, doc |-> history[at].doc + 1])
  BY DEF Q!Assign
<1>2. UNCHANGED <<deployed, stale, draws, moves>> /\ at' = at + 1
  BY DEF Q!Assign, Q!counted
<1>3. Q!TypeOK /\ Q!RoundTrue
  BY DEF DeckInv
<1>4. at \in DOMAIN history
  BY <1>3, LenProperties DEF Q!TypeOK
<1>5. history[at].doc + 1 \in Int
  BY <1>3, <1>4, EntryIs
<1>6. PICK doc \in Int : doc = history[at].doc + 1
  BY <1>5
<1>7. LoadedWell
  BY <1>1, <1>2, <1>3, <1>6, LoadStep DEF Loads
<1>8. history' \in Seq([address : Q!Addresses, doc : Int]) /\ at' \in 1 .. Len(history')
  BY <1>1, <1>2, <1>3, <1>6, PastIs
<1>9. kept' \subseteq kept \cup {page}
  BY KeptIs DEF Q!Assign
<1> QED BY <1>2, <1>3, <1>7, <1>8, <1>9, AfterLoad DEF Q!TypeOK

LEMMA TraverseStep ==
  ASSUME DeckInv, Q!Traverse
  PROVE  DeckInv'
<1>1. PICK i \in DOMAIN history :
        at' = i /\ (Q!Popstate(i) \/ Q!Restore(i) \/ Q!Revisit(i))
  BY DEF Q!Traverse
<1>2. UNCHANGED <<deployed, history, stale, draws>> /\ moves' = moves + 1 /\ moves < MaxMoves
  BY DEF Q!Traverse
<1>3. Q!TypeOK /\ Q!RoundTrue
  BY DEF DeckInv
<1>4. moves' \in 0 .. MaxMoves
  BY <1>2, <1>3, LabsAssumption DEF Q!TypeOK, Q!DeckAssumption
<1>5. history[i].address \in Q!Addresses /\ history[i].doc \in Int /\ i \in 1 .. Len(history)
  BY <1>3, EntryIs
<1>6. history' \in Seq([address : Q!Addresses, doc : Int]) /\ at' \in 1 .. Len(history')
  BY <1>1, <1>2, <1>3, <1>5 DEF Q!TypeOK
<1>7. CASE Q!Popstate(i)
  <2>1. UNCHANGED <<saved, page, kept, click, seen>> /\ going' \in {<<"reload">>, going}
    BY <1>7 DEF Q!Popstate
  <2>2. Q!TypeOK'
    BY <1>2, <1>3, <1>4, <1>6, <2>1 DEF Q!TypeOK
  <2>3. PageInv' /\ Q!RoundTrue'
    BY <1>2, <2>1 DEF DeckInv, PageInv, Q!RoundTrue
  <2> QED BY <2>2, <2>3 DEF DeckInv
<1>8. CASE Q!Restore(i)
  <2>1. PICK p \in kept : \E K \in Q!Left : page' = [p EXCEPT !.restored = TRUE] /\ kept' = K \ {p}
    BY <1>8 DEF Q!Restore
  <2>2. click' = <<>> /\ going' = <<"reload">> /\ UNCHANGED <<saved, seen>>
    BY <1>8 DEF Q!Restore
  <2>3. page' \in Q!Documents /\ page'.restored
    BY <1>3, <2>1 DEF Q!TypeOK, Q!Documents
  <2>4. kept' \subseteq Q!Documents
    BY <1>3, <2>1, KeptIs DEF Q!TypeOK
  <2>5. Q!TypeOK'
    BY <1>2, <1>3, <1>4, <1>6, <2>2, <2>3, <2>4 DEF Q!TypeOK
  <2>6. PageInv' /\ Q!RoundTrue'
    BY <1>2, <1>3, <2>2, <2>3 DEF PageInv, Q!RoundTrue
  <2> QED BY <2>5, <2>6 DEF DeckInv
<1>9. CASE Q!Revisit(i)
  <2>1. Q!Load(history[i].doc, history[i].address)
    BY <1>9 DEF Q!Revisit
  <2>2. LoadedWell
    BY <1>2, <1>3, <1>5, <2>1, LoadStep DEF Loads
  <2>3. kept' \subseteq kept \cup {page}
    BY <1>9, KeptIs DEF Q!Revisit
  <2> QED BY <1>2, <1>4, <1>6, <2>2, <2>3, AfterLoad
<1> QED BY <1>1, <1>7, <1>8, <1>9

LEMMA DeployStep ==
  ASSUME DeckInv, Q!Deploy
  PROVE  DeckInv'
<1>1. UNCHANGED <<saved, page, kept, history, at, click, going, seen, stale, draws, moves>>
      /\ deployed' = deployed + 1 /\ deployed < Len(Catalogs)
  BY DEF Q!Deploy, Q!browser, Q!counted
<1>2. deployed' \in 1 .. Len(Catalogs)
  <2>1. Len(Catalogs) \in Nat
    BY LabsAssumption, LenProperties DEF Q!DeckAssumption
  <2> QED BY <1>1, <2>1 DEF DeckInv, Q!TypeOK
<1>3. Q!TypeOK'
  BY <1>1, <1>2 DEF DeckInv, Q!TypeOK
<1>4. PageInv' /\ Q!RoundTrue'
  BY <1>1 DEF DeckInv, PageInv, Q!RoundTrue
<1> QED BY <1>3, <1>4 DEF DeckInv

LEMMA DeckNext == DeckInv /\ Q!Next => DeckInv'
BY DrawStep, DrawNothingStep, SwapStep, ClickEnds, NavigateStep, ReloadStep, AssignStep,
   TraverseStep, DeployStep DEF Q!Next

LEMMA DeckStutter == DeckInv /\ UNCHANGED <<deck, moves>> => DeckInv'
BY DEF DeckInv, Q!TypeOK, PageInv, Q!RoundTrue, deck

-----------------------------------------------------------------------------
(* The voxel world.                                                        *)

LEMMA Division ==
  ASSUME NEW n \in Int, NEW s \in Nat \ {0}
  PROVE  n \div s \in Int /\ n - s * (n \div s) \in 0 .. s - 1
OBVIOUS

LEMMA Multiple ==
  ASSUME NEW c \in Int, NEW q \in Int, NEW s \in Nat \ {0}, NEW l \in 0 .. s - 1, NEW m \in 0 .. s - 1,
         c * s + l = s * q + m
  PROVE  c = q
<1>1. s * (c - q) = m - l
  OBVIOUS
<1>2. m - l < s /\ -s < m - l
  OBVIOUS
<1>3. CASE c - q >= 1
  <2>1. s * (c - q) >= s
    BY <1>3
  <2> QED BY <1>1, <1>2, <2>1
<1>4. CASE q - c >= 1
  <2>1. s * (c - q) <= -s
    BY <1>4
  <2> QED BY <1>1, <1>2, <2>1
<1> QED BY <1>3, <1>4

LEMMA Quotient ==
  ASSUME NEW c \in Int, NEW s \in Nat \ {0}, NEW l \in 0 .. s - 1
  PROVE  (c * s + l) \div s = c
<1>1. PICK n \in Int : n = c * s + l
  OBVIOUS
<1>2. PICK q \in Int : q = n \div s
  OBVIOUS
<1>3. PICK m \in 0 .. s - 1 : m = n - s * q
  BY <1>1, <1>2, Division
<1>4. c * s + l = s * q + m
  BY <1>1, <1>3
<1> QED BY <1>1, <1>2, <1>4, Multiple

WorldInv ==
  /\ DOMAIN chunks \subseteq W!Triples(Int)
  /\ chunks \in [DOMAIN chunks -> [solid : SUBSET W!Local, generation : Int]]

\* The chunk and those next to it, on whose voxels its mesh depends.
Near(c) == {c} \cup {W!Moved(c, d) : d \in W!Directions}

\* A direction changes one coordinate, by one.
LEMMA DirectionIs ==
  ASSUME NEW d \in W!Directions
  PROVE  /\ d \in W!Triples(-1 .. 1)
         /\ \E j \in 1 .. 3 : \A i \in 1 .. 3 : d[i] # 0 <=> i = j
BY DEF W!Directions

LEMMA BackAgain ==
  ASSUME NEW c \in W!Triples(Int), NEW k \in Near(c)
  PROVE  c \in Near(k) /\ k \in W!Triples(Int)
<1>1. CASE k = c
  BY <1>1 DEF Near
<1>2. ASSUME NEW d \in W!Directions, k = W!Moved(c, d)
      PROVE  c \in Near(k) /\ k \in W!Triples(Int)
  <2> DEFINE e == [i \in 1 .. 3 |-> -d[i]]
  <2>1. d \in [1 .. 3 -> -1 .. 1] /\ c \in [1 .. 3 -> Int]
    BY DirectionIs DEF W!Triples
  <2>2. e \in [1 .. 3 -> -1 .. 1]
    BY <2>1
  <2>3. \A i \in 1 .. 3 : e[i] # 0 <=> d[i] # 0
    BY <2>1
  <2>4. e \in W!Directions
    BY <2>2, <2>3, DirectionIs DEF W!Directions, W!Triples
  <2>5. k \in [1 .. 3 -> Int] /\ \A i \in 1 .. 3 : k[i] = c[i] + d[i]
    BY <1>2, <2>1 DEF W!Moved
  <2>6. W!Moved(k, e) = c
    BY <2>1, <2>5 DEF W!Moved
  <2> QED BY <2>4, <2>5, <2>6 DEF Near, W!Triples
<1> QED BY <1>1, <1>2 DEF Near

\* A voxel next to one of chunk c lies in c or in a chunk next to it.
LEMMA NextVoxelIsNear ==
  ASSUME NEW c \in W!Triples(Int), NEW l \in W!Local, NEW d \in W!Directions, NEW p,
         p = [i \in 1 .. 3 |-> c[i] * ChunkSize + l[i]]
  PROVE  W!ChunkOf(W!Moved(p, d)) \in Near(c)
<1>1. ChunkSize \in Nat \ {0}
  BY LabsAssumption DEF W!VoxelAssumption
<1>2. PICK j \in 1 .. 3 : \A i \in 1 .. 3 : d[i] # 0 <=> i = j
  BY DirectionIs
<1>3. \A i \in 1 .. 3 : c[i] \in Int /\ l[i] \in 0 .. ChunkSize - 1 /\ d[i] \in -1 .. 1
  BY DirectionIs DEF W!Triples, W!Local
<1> DEFINE to(i) == (c[i] * ChunkSize + l[i] + d[i]) \div ChunkSize
<1>4. W!ChunkOf(W!Moved(p, d)) = [i \in 1 .. 3 |-> to(i)]
  BY DEF W!ChunkOf, W!Moved
<1>5. ASSUME NEW i \in 1 .. 3, l[i] + d[i] \in 0 .. ChunkSize - 1
      PROVE  to(i) = c[i]
  <2>1. c[i] * ChunkSize + l[i] + d[i] = c[i] * ChunkSize + (l[i] + d[i])
    BY <1>1, <1>3
  <2> QED BY <1>1, <1>3, <1>5, <2>1, Quotient
<1>6. ASSUME NEW i \in 1 .. 3, l[i] + d[i] \notin 0 .. ChunkSize - 1
      PROVE  to(i) = c[i] + d[i]
  <2>1. PICK m \in 0 .. ChunkSize - 1 :
          c[i] * ChunkSize + l[i] + d[i] = (c[i] + d[i]) * ChunkSize + m
    <3>1. CASE d[i] = 1
      <4>1. l[i] = ChunkSize - 1
        BY <1>1, <1>3, <1>6, <3>1
      <4>2. c[i] * ChunkSize + l[i] + d[i] = (c[i] + d[i]) * ChunkSize + 0
        BY <1>1, <1>3, <3>1, <4>1
      <4> QED BY <1>1, <4>2
    <3>2. CASE d[i] = -1
      <4>1. PICK low \in 0 .. ChunkSize - 1 : low = l[i]
        BY <1>3
      <4>3. low + -1 \notin 0 .. ChunkSize - 1
        BY <1>6, <3>2, <4>1
      <4>4. low = 0
        BY <1>1, <4>3
      <4>2. c[i] * ChunkSize + l[i] + d[i] = (c[i] + d[i]) * ChunkSize + (ChunkSize - 1)
        BY <1>1, <1>3, <3>2, <4>1, <4>4
      <4> QED BY <1>1, <4>2
    <3>3. CASE d[i] = 0
      BY <1>1, <1>3, <1>6, <3>3
    <3> QED BY <1>3, <3>1, <3>2, <3>3
  <2>2. PICK b \in Int : b = c[i] + d[i]
    BY <1>3
  <2> QED BY <1>1, <2>1, <2>2, Quotient
<1>7. \A i \in 1 .. 3 : i # j => d[i] = 0 /\ to(i) = c[i]
  BY <1>1, <1>2, <1>3, <1>5
<1>8. c \in [1 .. 3 -> Int]
  BY DEF W!Triples
<1> HIDE DEF to
<1>9. CASE l[j] + d[j] \in 0 .. ChunkSize - 1
  <2>1. \A i \in 1 .. 3 : to(i) = c[i]
    BY <1>5, <1>7, <1>9
  <2>2. [i \in 1 .. 3 |-> to(i)] = c
    BY <1>8, <2>1
  <2> QED BY <1>4, <2>2 DEF Near
<1>10. CASE l[j] + d[j] \notin 0 .. ChunkSize - 1
  <2>1. \A i \in 1 .. 3 : to(i) = c[i] + d[i]
    BY <1>3, <1>6, <1>7, <1>10
  <2>2. [i \in 1 .. 3 |-> to(i)] = W!Moved(c, d)
    BY <2>1 DEF W!Moved
  <2> QED BY <1>4, <2>2 DEF Near
<1> QED BY <1>9, <1>10

LEMMA ChunkIs ==
  ASSUME NEW pos \in W!Triples(Int)
  PROVE  W!ChunkOf(pos) \in W!Triples(Int) /\ W!LocalOf(pos) \in W!Local
<1>1. ChunkSize \in Nat \ {0}
  BY LabsAssumption DEF W!VoxelAssumption
<1>2. ASSUME NEW i \in 1 .. 3
      PROVE  pos[i] \div ChunkSize \in Int /\ pos[i] - ChunkSize * (pos[i] \div ChunkSize) \in 0 .. ChunkSize - 1
  <2>1. PICK n \in Int : n = pos[i]
    BY DEF W!Triples
  <2> QED BY <1>1, <2>1, Division
<1> QED BY <1>2 DEF W!ChunkOf, W!LocalOf, W!Triples, W!Local

\* What set_solid changes in the chunks.
LEMMA SetSolidIs ==
  ASSUME WorldInv, NEW pos \in Positions, NEW solid \in BOOLEAN, W!SetSolid(pos, solid), NEW k, k = W!ChunkOf(pos)
  PROVE  /\ k \in DOMAIN chunks /\ DOMAIN chunks' = DOMAIN chunks
         /\ \A c \in DOMAIN chunks : c # k => chunks'[c] = chunks[c]
         /\ chunks'[k].generation = chunks[k].generation + 1
         /\ chunks'[k] \in [solid : SUBSET W!Local, generation : Int]
         /\ dirty' = dirty \cup Near(k)
<1>1. pos \in W!Triples(Int)
  BY LabsAssumption DEF W!VoxelAssumption
<1>2. PICK local \in W!Local : local = W!LocalOf(pos)
  BY <1>1, ChunkIs
<1>3. k \in DOMAIN chunks /\ dirty' = dirty \cup Near(k)
  BY DEF W!SetSolid, W!Loaded, W!Invalidated, Near
<1>4. PICK now : now = [chunks[k] EXCEPT !.solid = IF solid THEN @ \cup {local} ELSE @ \ {local},
                                        !.generation = @ + 1]
  OBVIOUS
<1>5. chunks' = [chunks EXCEPT ![k] = now]
  BY <1>2, <1>3, <1>4 DEF W!SetSolid, WorldInv
<1>6. chunks[k] \in [solid : SUBSET W!Local, generation : Int]
  BY <1>3 DEF WorldInv
<1>8. PICK in : in = IF solid THEN chunks[k].solid \cup {local} ELSE chunks[k].solid \ {local}
  OBVIOUS
<1>9. in \in SUBSET W!Local
  BY <1>2, <1>6, <1>8
<1>10. now = [chunks[k] EXCEPT !.solid = in, !.generation = @ + 1]
  BY <1>4, <1>8, Zenon
<1>11. PICK old : old = chunks[k]
  OBVIOUS
<1>12. old \in [solid : SUBSET W!Local, generation : Int]
  BY <1>6, <1>11
<1>13. now = [old EXCEPT !.solid = in, !.generation = @ + 1]
  BY <1>10, <1>11
<1>14. now = [solid |-> in, generation |-> old.generation + 1]
  BY <1>12, <1>13
<1>7. now.generation = chunks[k].generation + 1 /\ now \in [solid : SUBSET W!Local, generation : Int]
  BY <1>9, <1>11, <1>12, <1>14
<1> QED BY <1>3, <1>5, <1>7 DEF WorldInv
\* A mesh none of whose chunks is mutated stays as it is.
LEMMA FacesLookNear ==
  ASSUME WorldInv, NEW pos \in Positions, NEW solid \in BOOLEAN, W!SetSolid(pos, solid), NEW c \in W!Loaded,
         NEW k, k = W!ChunkOf(pos), k \notin Near(c)
  PROVE  W!VisibleFaces(c)' = W!VisibleFaces(c)
<1>1. DOMAIN chunks' = DOMAIN chunks /\ \A b \in DOMAIN chunks : b # k => chunks'[b] = chunks[b]
  BY SetSolidIs
<1>2. c # k /\ c \in W!Triples(Int) /\ chunks[c].solid \in SUBSET W!Local
  BY DEF Near, WorldInv, W!Loaded
<1>3. W!WorldPositions(c)' = W!WorldPositions(c)
  BY <1>1, <1>2 DEF W!WorldPositions, W!Loaded
<1>4. ASSUME NEW p \in W!WorldPositions(c), NEW d \in W!Directions
      PROVE  W!Cell(W!Moved(p, d))' = W!Cell(W!Moved(p, d))
  <2>1. PICK l \in W!Local : p = [i \in 1 .. 3 |-> c[i] * ChunkSize + l[i]]
    BY <1>2 DEF W!WorldPositions
  <2>2. PICK b : b = W!ChunkOf(W!Moved(p, d))
    OBVIOUS
  <2>3. b # k
    BY <1>2, <2>1, <2>2, NextVoxelIsNear
  <2>4. b \in DOMAIN chunks => chunks'[b] = chunks[b]
    BY <1>1, <2>3
  <2> QED BY <1>1, <2>2, <2>4 DEF W!Cell, W!Loaded
<1>5. ASSUME NEW f \in W!WorldPositions(c) \X W!Directions
      PROVE  W!Cell(W!Moved(f[1], f[2]))' = W!Cell(W!Moved(f[1], f[2]))
  BY <1>4
<1> QED BY <1>3, <1>5 DEF W!VisibleFaces

\* The mesh of a chunk that is mutated, or next to one that is, gets dirty and
\* another version.
LEMMA MutationReaches ==
  ASSUME WorldInv, NEW pos \in Positions, NEW solid \in BOOLEAN, W!SetSolid(pos, solid)
  PROVE  W!MeshesInvalidated
<1> SUFFICES ASSUME NEW c \in W!Loaded, W!Meshable(c), W!VisibleFaces(c) # W!VisibleFaces(c)'
             PROVE  c \in dirty' /\ W!Version(c) # W!Version(c)'
  BY DEF W!MeshesInvalidated
<1>1. PICK k : k = W!ChunkOf(pos)
  OBVIOUS
<1>2. k \in Near(c)
  BY <1>1, FacesLookNear
<1>3. c \in W!Triples(Int)
  BY DEF WorldInv, W!Loaded
<1>4. c \in dirty'
  BY <1>1, <1>2, <1>3, BackAgain, SetSolidIs
<1>5. chunks'[k].generation # chunks[k].generation
  <2>1. PICK n \in Int : n = chunks[k].generation
    BY <1>1, SetSolidIs DEF WorldInv
  <2> QED BY <1>1, <2>1, SetSolidIs
<1>6. W!Version(c)[k] = chunks[k].generation /\ W!Version(c)'[k] = chunks'[k].generation
  BY <1>2 DEF W!Version, Near
<1> QED BY <1>4, <1>5, <1>6

\* The boxes collision_oracle takes, in halves of a voxel.
ValidBoxes ==
  {b \in [low : W!Triples(Int), high : W!Triples(Int)] : \A i \in 1 .. 3 : b.low[i] <= b.high[i]}

\* A voxel between two bounds, of which each may lie on a face of it, is in the range of
\* the loop.
LEMMA InRange ==
  ASSUME NEW low \in Int, NEW high \in Int, NEW n \in Int, low <= 2 * n + 2, 2 * n <= high
  PROVE  n \in (low \div 2) - 1 .. -((-high) \div 2)
OBVIOUS

\* The loops visit every voxel a box touches.
LEMMA ScanReaches ==
  ASSUME NEW box \in ValidBoxes, NEW p \in Int \X Int \X Int, W!Intersects(box, p)
  PROVE  p \in W!Scanned(box, 1) \X W!Scanned(box, 2) \X W!Scanned(box, 3)
<1>1. PICK x \in Int, y \in Int, z \in Int : p = <<x, y, z>>
  OBVIOUS
<1>2. \A i \in 1 .. 3 : /\ box.low[i] \in Int /\ box.high[i] \in Int /\ p[i] \in Int
                        /\ box.low[i] <= 2 * p[i] + 2 /\ 2 * p[i] <= box.high[i]
  BY DEF ValidBoxes, W!Triples, W!Intersects
<1>3. ASSUME NEW i \in 1 .. 3 PROVE p[i] \in W!Scanned(box, i)
  <2>1. p[i] \in (box.low[i] \div 2) - 1 .. -((-box.high[i]) \div 2)
    BY <1>2, InRange
  <2> QED BY <2>1 DEF W!Scanned, W!Floor, W!Ceil
<1>4. x \in W!Scanned(box, 1) /\ y \in W!Scanned(box, 2) /\ z \in W!Scanned(box, 3)
  BY <1>1, <1>3
<1> QED BY <1>1, <1>4, Zenon

LEMMA ScanIsInside ==
  ASSUME NEW box \in ValidBoxes
  PROVE  W!Scanned(box, 1) \X W!Scanned(box, 2) \X W!Scanned(box, 3) \subseteq Int \X Int \X Int
<1>1. \A i \in 1 .. 3 : W!Scanned(box, i) \subseteq Int
  BY DEF W!Scanned, W!Floor, W!Ceil, ValidBoxes, W!Triples
<1> QED BY <1>1

\* Whatever the answer is when something is in the way, it is not "clear".
LEMMA ClearMeans == W!ClearIsClear(ValidBoxes, Int)
<1>1. ASSUME NEW box \in ValidBoxes
      PROVE  W!CollisionOracle(box) = "clear" <=>
               \A p \in Int \X Int \X Int : W!Intersects(box, p) => W!Cell(p) = "empty"
  <2>1. PICK scan : scan = W!Scanned(box, 1) \X W!Scanned(box, 2) \X W!Scanned(box, 3)
    OBVIOUS
  <2>2. PICK hit : hit = {p \in scan : W!Intersects(box, p) /\ W!Cell(p) # "empty"}
    OBVIOUS
  <2>3. W!CollisionOracle(box) = "clear" <=> hit = {}
    <3>1. "unknown_blocked" # "clear" /\ "solid_hit" # "clear"
      OBVIOUS
    <3> QED BY <2>1, <2>2, <3>1, Zenon DEF W!CollisionOracle
  <2>4. scan \subseteq Int \X Int \X Int
    BY <2>1, ScanIsInside
  <2>5. \A p \in Int \X Int \X Int : W!Intersects(box, p) => p \in scan
    BY <2>1, ScanReaches
  <2> QED BY <2>2, <2>3, <2>4, <2>5, Zenon
<1> QED BY <1>1, Zenon DEF W!ClearIsClear

\* A box of the run touches no voxel outside the window in which GeometryTrue looks.
LEMMA ClearInReach == W!ClearIsClear(Boxes, -Reach .. Reach)
<1>1. /\ Reach \in Nat
      /\ Boxes \subseteq [low : W!Triples(Int), high : W!Triples(Int)]
      /\ \A box \in Boxes, i \in 1 .. 3 :
           -2 * Reach < box.low[i] /\ box.low[i] <= box.high[i] /\ box.high[i] <= 2 * Reach
  BY LabsAssumption DEF BoxesAssumption
<1>2. PICK window : window = -Reach .. Reach
  OBVIOUS
<1>3. window \subseteq Int
  BY <1>2
<1>4. ASSUME NEW box \in Boxes
      PROVE  W!CollisionOracle(box) = "clear" <=>
               \A p \in window \X window \X window : W!Intersects(box, p) => W!Cell(p) = "empty"
  <2>1. box \in ValidBoxes
    BY <1>1 DEF ValidBoxes
  <2>2. W!CollisionOracle(box) = "clear" <=>
          \A p \in Int \X Int \X Int : W!Intersects(box, p) => W!Cell(p) = "empty"
    BY <2>1, ClearMeans, Zenon DEF W!ClearIsClear
  <2>3. ASSUME NEW p \in Int \X Int \X Int, W!Intersects(box, p)
        PROVE  p \in window \X window \X window
    <3>1. PICK x \in Int, y \in Int, z \in Int : p = <<x, y, z>>
      OBVIOUS
    <3>2. ASSUME NEW i \in 1 .. 3 PROVE p[i] \in window
      <4>1. PICK n \in Int, low \in Int, high \in Int :
              n = p[i] /\ low = box.low[i] /\ high = box.high[i]
        BY <2>1, <3>1 DEF ValidBoxes, W!Triples
      <4>2. low <= 2 * n + 2 /\ 2 * n <= high
        BY <2>3, <4>1 DEF W!Intersects
      <4>3. -2 * Reach < low /\ high <= 2 * Reach
        BY <1>1, <4>1
      <4>4. -Reach <= n /\ n <= Reach
        BY <1>1, <4>2, <4>3
      <4> QED BY <1>1, <1>2, <4>1, <4>4
    <3>3. x \in window /\ y \in window /\ z \in window
      BY <3>1, <3>2
    <3> QED BY <3>1, <3>3, Zenon
  <2>4. window \X window \X window \subseteq Int \X Int \X Int
    BY <1>3
  <2> QED BY <2>2, <2>3, <2>4, Zenon
<1> QED BY <1>2, <1>4, Zenon DEF W!ClearIsClear

\* A finite set of numbers that is not empty has a greatest one.
LEMMA MaxIs ==
  ASSUME NEW n \in Nat, NEW N \in SUBSET (1 .. n), N # {}
  PROVE  W!Max(N) \in N
<1> DEFINE M == {k \in Nat : n - k \in N}
<1>1. M # {}
  <2>1. PICK x \in N : TRUE
    OBVIOUS
  <2>2. n - x \in Nat /\ n - (n - x) = x
    BY <2>1
  <2>3. n - x \in M
    BY <2>2
  <2> QED BY <2>3
<1>2. PICK m \in M : \A k \in M : m <= k
  BY <1>1, LeastOf
<1>3. ASSUME NEW x \in N PROVE n - m >= x
  <2>1. n - x \in M
    OBVIOUS
  <2> QED BY <1>2, <2>1
<1>4. n - m \in N
  BY <1>2
<1> HIDE DEF M
<1> QED BY <1>3, <1>4 DEF W!Max

\* The order of Python's tuples.
Before(c, b) == c[1] < b[1] \/ (c[1] = b[1] /\ c[2] <= b[2])

LEMMA BeforeOrders ==
  ASSUME NEW a \in Int \X Int, NEW b \in Int \X Int, NEW c \in Int \X Int
  PROVE  /\ Before(a, a) /\ (Before(a, b) \/ Before(b, a))
         /\ Before(a, b) /\ Before(b, c) => Before(a, c)
BY DEF Before

LEMMA FiniteW == \A x : W!IsFiniteSet(x) <=> IsFiniteSet(x)
BY DEF W!IsFiniteSet, IsFiniteSet

LEMMA CardinalityW == \A x : W!Cardinality(x) = Cardinality(x)
BY FiniteW, Zenon DEF W!Cardinality, Cardinality

LEMMA PlanesAre == \A cells : cells \in W!Planes <=> cells \subseteq Int \X Int /\ IsFiniteSet(cells)
BY FiniteW DEF W!Planes

LEMMA CellsCount ==
  ASSUME NEW cells \in W!Planes
  PROVE  /\ IsFiniteSet(cells) /\ Cardinality(cells) \in Nat /\ cells \subseteq Int \X Int
         /\ Cardinality(cells) = 0 <=> cells = {}
BY PlanesAre, FS_CardinalityType, FS_EmptySet

Corner(c, cells) == c \in cells /\ \A b \in cells : Before(c, b)

\* min(cells)
LEMMA CornerExists ==
  ASSUME NEW cells \in W!Planes, cells # {}
  PROVE  \E c : Corner(c, cells)
<1> SUFFICES ASSUME ~\E c : Corner(c, cells) PROVE FALSE
  OBVIOUS
<1> DEFINE Bad(s) == s \in W!Planes /\ s # {} /\ ~\E c : Corner(c, s)
           N == {k \in Nat : \E s : Bad(s) /\ Cardinality(s) = k}
<1>1. Cardinality(cells) \in N
  BY CellsCount
<1>2. PICK m \in N : \A k \in N : m <= k
  BY <1>1, LeastOf
<1>3. PICK s : Bad(s) /\ Cardinality(s) = m
  BY <1>2
<1>4. PICK x \in s : TRUE
  BY <1>3
<1>5. PICK rest : rest = s \ {x}
  OBVIOUS
<1>6. IsFiniteSet(rest) /\ Cardinality(rest) = m - 1 /\ rest \subseteq Int \X Int /\ s \subseteq Int \X Int
  BY <1>3, <1>4, <1>5, CellsCount, FS_RemoveElement
<1>7. rest \in W!Planes
  BY <1>6, PlanesAre
<1>8. m - 1 \in Nat
  BY <1>6, FS_CardinalityType
<1>9. ~Bad(rest)
  <2>1. m - 1 \notin N
    BY <1>2, <1>8
  <2> QED BY <1>6, <1>8, <2>1
<1> HIDE DEF N
<1>10. CASE rest = {}
  <2>1. s = {x}
    BY <1>4, <1>5, <1>10
  <2>2. Before(x, x)
    BY <1>4, <1>6, BeforeOrders
  <2>3. Corner(x, s)
    BY <2>1, <2>2 DEF Corner
  <2> QED BY <1>3, <2>3
<1>11. CASE rest # {}
  <2>1. PICK y : Corner(y, rest)
    BY <1>7, <1>9, <1>11
  <2>2. x \in Int \X Int /\ y \in Int \X Int
    BY <1>4, <1>6, <2>1 DEF Corner
  <2>3. CASE Before(x, y)
    <3>1. \A b \in rest : Before(x, b)
      BY <1>6, <2>1, <2>2, <2>3, BeforeOrders DEF Corner
    <3>2. Corner(x, s)
      BY <1>4, <1>5, <2>2, <3>1, BeforeOrders DEF Corner
    <3> QED BY <1>3, <3>2
  <2>4. CASE Before(y, x)
    <3>1. Corner(y, s)
      BY <1>4, <1>5, <2>1, <2>4 DEF Corner
    <3> QED BY <1>3, <3>1
  <2> QED BY <2>2, <2>3, <2>4, BeforeOrders
<1> QED BY <1>10, <1>11

LEMMA BlockHas ==
  ASSUME NEW c \in Int \X Int, NEW w \in Nat \ {0}, NEW h \in Nat \ {0}
  PROVE  c \in W!Block(c, w, h)
<1>1. 0 \in 0 .. w - 1 /\ 0 \in 0 .. h - 1
  OBVIOUS
<1>2. c = <<c[1] + 0, c[2] + 0>>
  OBVIOUS
<1> QED BY <1>1, <1>2 DEF W!Block

LEMMA UnitBlock ==
  ASSUME NEW c \in Int \X Int
  PROVE  W!Block(c, 1, 1) = {c}
<1>1. 0 .. 1 - 1 = {0}
  OBVIOUS
<1>2. c = <<c[1] + 0, c[2] + 0>>
  OBVIOUS
<1> QED BY <1>1, <1>2 DEF W!Block

\* The block that is cut off lies in what is left, and is not empty.
LEMMA BlockIs ==
  ASSUME NEW cells \in W!Planes, cells # {}
  PROVE  W!FirstBlock(cells) \subseteq cells /\ W!FirstBlock(cells) # {}
<1>1. PICK c : c = CHOOSE b \in cells : \A a \in cells : Before(b, a)
  OBVIOUS
<1>2. c \in cells
  BY <1>1, CornerExists DEF Corner
<1>3. c \in Int \X Int
  BY <1>2, CellsCount
<1>4. PICK n \in Nat : n = Cardinality(cells)
  BY CellsCount
<1>5. n >= 1
  BY <1>4, CellsCount
<1>6. PICK ws : ws = {w \in 1 .. n : W!Block(c, w, 1) \subseteq cells}
  OBVIOUS
<1>7. 1 \in ws
  BY <1>2, <1>3, <1>5, <1>6, UnitBlock
<1>8. PICK width : width = W!Max(ws)
  OBVIOUS
<1>9. width \in ws
  BY <1>6, <1>7, <1>8, MaxIs
<1>10. PICK hs : hs = {h \in 1 .. n : W!Block(c, width, h) \subseteq cells}
  OBVIOUS
<1>11. 1 \in hs
  BY <1>5, <1>6, <1>9, <1>10
<1>12. PICK height : height = W!Max(hs)
  OBVIOUS
<1>13. height \in hs
  BY <1>10, <1>11, <1>12, MaxIs
<1>14. W!FirstBlock(cells) = W!Block(c, width, height)
  <2>1. n = W!Cardinality(cells)
    BY <1>4, CardinalityW
  <2> QED BY <1>1, <1>6, <1>8, <1>10, <1>12, <2>1, Zenon DEF W!FirstBlock, Before
<1>15. width \in Nat \ {0} /\ height \in Nat \ {0} /\ W!Block(c, width, height) \subseteq cells
  BY <1>6, <1>9, <1>10, <1>13
<1>16. c \in W!Block(c, width, height)
  BY <1>3, <1>15, BlockHas
<1> QED BY <1>14, <1>15, <1>16

LEMMA LessIsLeft ==
  ASSUME NEW cells \in W!Planes, cells # {}, NEW rest, rest = cells \ W!FirstBlock(cells)
  PROVE  rest \in W!Planes /\ Cardinality(rest) < Cardinality(cells)
<1>1. IsFiniteSet(cells) /\ cells \subseteq Int \X Int /\ Cardinality(cells) \in Nat
  BY CellsCount
<1>2. rest \subseteq cells /\ rest # cells
  BY BlockIs
<1>3. IsFiniteSet(rest) /\ Cardinality(rest) <= Cardinality(cells) /\ Cardinality(rest) # Cardinality(cells)
  BY <1>1, <1>2, FS_Subset
<1>4. rest \in W!Planes
  BY <1>1, <1>2, <1>3, PlanesAre
<1> QED BY <1>1, <1>3, <1>4, CellsCount

\* One turn of the loop, when f holds what the others give.
Merge(f, cells) ==
  IF cells = {} THEN {} ELSE {W!FirstBlock(cells)} \cup f[cells \ W!FirstBlock(cells)]
Small(n) == {cells \in W!Planes : Cardinality(cells) <= n}
MergesAll(f, n) == f = [cells \in Small(n) |-> Merge(f, cells)]

LEMMA MergesIs ==
  ASSUME NEW f, NEW n, MergesAll(f, n), NEW cells \in Small(n)
  PROVE  f[cells] = Merge(f, cells)
BY DEF MergesAll

\* The loop gives the same, however many cells it was defined for.
LEMMA MergesAgree ==
  ASSUME NEW f, NEW h, NEW n \in Nat, NEW m \in Nat, MergesAll(f, n), MergesAll(h, m),
         NEW cells \in Small(n) \cap Small(m)
  PROVE  f[cells] = h[cells]
<1> SUFFICES ASSUME f[cells] # h[cells] PROVE FALSE
  OBVIOUS
<1> DEFINE Bad(s) == s \in Small(n) /\ s \in Small(m) /\ f[s] # h[s]
           N == {k \in Nat : \E s : Bad(s) /\ Cardinality(s) = k}
<1>1. Cardinality(cells) \in N
  BY CellsCount DEF Small
<1>2. PICK k \in N : \A j \in N : k <= j
  BY <1>1, LeastOf
<1>3. PICK s : Bad(s) /\ Cardinality(s) = k
  BY <1>2
<1>4. s \in W!Planes /\ k <= n /\ k <= m /\ k \in Nat
  BY <1>3 DEF Small
<1>5. f[s] = Merge(f, s) /\ h[s] = Merge(h, s)
  BY <1>3, MergesIs
<1>6. PICK rest : rest = s \ W!FirstBlock(s)
  OBVIOUS
<1>7. s # {}
  BY <1>3, <1>5 DEF Merge
<1>8. rest \in W!Planes /\ Cardinality(rest) < k /\ Cardinality(rest) \in Nat
  BY <1>3, <1>4, <1>6, <1>7, LessIsLeft, CellsCount
<1>9. rest \in Small(n) /\ rest \in Small(m)
  BY <1>4, <1>8 DEF Small
<1>10. Cardinality(rest) \notin N
  BY <1>2, <1>4, <1>8
<1>11. ~Bad(rest)
  BY <1>8, <1>10
<1>12. f[rest] = h[rest]
  BY <1>9, <1>11
<1> HIDE DEF N
<1>13. f[s] # h[s]
  BY <1>3
<1> QED BY <1>5, <1>6, <1>12, <1>13 DEF Merge

LEMMA MergesExists == \A n \in Nat : \E f : MergesAll(f, n)
<1> SUFFICES ASSUME NEW n \in Nat, ~\E f : MergesAll(f, n) PROVE FALSE
  OBVIOUS
<1> DEFINE N == {k \in Nat : ~\E f : MergesAll(f, k)}
<1>1. n \in N
  OBVIOUS
<1>2. PICK m \in N : \A k \in N : m <= k
  BY <1>1, LeastOf
<1>3. m \in Nat /\ ~\E f : MergesAll(f, m)
  BY <1>2
<1>4. CASE m = 0
  <2>1. PICK f : f = [cells \in Small(0) |-> {}]
    OBVIOUS
  <2>2. ASSUME NEW cells \in Small(0) PROVE Merge(f, cells) = {}
    <3>1. cells \in W!Planes /\ Cardinality(cells) <= 0
      BY DEF Small
    <3>2. cells = {}
      BY <3>1, CellsCount
    <3> QED BY <3>2 DEF Merge
  <2>3. MergesAll(f, 0)
    BY <2>1, <2>2 DEF MergesAll
  <2> QED BY <1>3, <1>4, <2>3
<1>5. CASE m # 0
  <2>1. m - 1 \in Nat /\ m - 1 \notin N
    BY <1>2, <1>3, <1>5
  <2>2. PICK h : MergesAll(h, m - 1)
    BY <2>1
  <2>3. PICK f : f = [cells \in Small(m) |-> Merge(h, cells)]
    OBVIOUS
  <2>4. ASSUME NEW cells \in Small(m) PROVE Merge(f, cells) = Merge(h, cells)
    <3>1. CASE cells = {}
      BY <3>1 DEF Merge
    <3>2. CASE cells # {}
      <4>1. PICK rest : rest = cells \ W!FirstBlock(cells)
        OBVIOUS
      <4>2. cells \in W!Planes /\ Cardinality(cells) <= m /\ Cardinality(cells) \in Nat
        BY CellsCount DEF Small
      <4>3. rest \in W!Planes /\ Cardinality(rest) < Cardinality(cells) /\ Cardinality(rest) \in Nat
        BY <3>2, <4>1, <4>2, LessIsLeft, CellsCount
      <4>4. rest \in Small(m - 1) /\ rest \in Small(m)
        BY <1>3, <4>2, <4>3 DEF Small
      <4>5. f[rest] = h[rest]
        BY <2>2, <2>3, <4>4, MergesIs
      <4> QED BY <4>1, <4>5 DEF Merge
    <3> QED BY <3>1, <3>2
  <2>5. MergesAll(f, m)
    BY <2>3, <2>4 DEF MergesAll
  <2> QED BY <1>3, <2>5
<1> QED BY <1>4, <1>5

\* The recursive definition has a solution: a function for each number of cells, of which
\* every set of cells takes its own.
LEMMA RectanglesAre ==
  \A cells \in W!Planes : W!PlaneRectangles[cells] = Merge(W!PlaneRectangles, cells)
<1> DEFINE G(n) == CHOOSE f : MergesAll(f, n)
<1>1. \A n \in Nat : MergesAll(G(n), n)
  BY MergesExists
<1>2. PICK f : f = [cells \in W!Planes |-> G(Cardinality(cells))[cells]]
  OBVIOUS
<1> HIDE DEF G
<1>3. ASSUME NEW cells \in W!Planes PROVE f[cells] = Merge(f, cells)
  <2>1. PICK n \in Nat : n = Cardinality(cells)
    BY CellsCount
  <2>2. cells \in Small(n)
    BY <2>1 DEF Small
  <2>3. f[cells] = Merge(G(n), cells)
    BY <1>1, <1>2, <2>1, <2>2, MergesIs
  <2>4. CASE cells = {}
    BY <2>3, <2>4 DEF Merge
  <2>5. CASE cells # {}
    <3>1. PICK rest : rest = cells \ W!FirstBlock(cells)
      OBVIOUS
    <3>2. PICK m \in Nat : m = Cardinality(rest) /\ rest \in W!Planes /\ m < n
      BY <2>1, <2>5, <3>1, LessIsLeft, CellsCount
    <3>3. rest \in Small(n) \cap Small(m)
      BY <3>2 DEF Small
    <3>4. G(n)[rest] = G(m)[rest]
      BY <1>1, <3>2, <3>3, MergesAgree
    <3>5. f[rest] = G(n)[rest]
      BY <1>2, <3>2, <3>4
    <3> QED BY <2>3, <3>1, <3>5 DEF Merge
  <2> QED BY <2>4, <2>5
<1>4. f = [cells \in W!Planes |-> Merge(f, cells)]
  BY <1>2, <1>3
<1>5. W!PlaneRectangles = CHOOSE h : h = [cells \in W!Planes |-> Merge(h, cells)]
  BY DEF W!PlaneRectangles, Merge
<1>6. W!PlaneRectangles = [cells \in W!Planes |-> Merge(W!PlaneRectangles, cells)]
  BY <1>4, <1>5
<1>7. PICK h : h = W!PlaneRectangles
  OBVIOUS
<1>8. h = [cells \in W!Planes |-> Merge(h, cells)]
  BY <1>6, <1>7
<1> QED BY <1>7, <1>8

Covers(blocks, cells) ==
  UNION blocks = cells /\ \A r, s \in blocks : r = s \/ r \cap s = {}

LEMMA MergeCovers ==
  ASSUME NEW f, NEW cells \in W!Planes, cells # {}, Covers(f[cells \ W!FirstBlock(cells)], cells \ W!FirstBlock(cells))
  PROVE  Covers(Merge(f, cells), cells)
<1>1. PICK b : b = W!FirstBlock(cells)
  OBVIOUS
<1>2. PICK others : others = f[cells \ b]
  OBVIOUS
<1>3. b \subseteq cells
  BY <1>1, BlockIs
<1>4. UNION others = cells \ b /\ \A r, s \in others : r = s \/ r \cap s = {}
  BY <1>1, <1>2 DEF Covers
<1>5. Merge(f, cells) = {b} \cup others
  BY <1>1, <1>2 DEF Merge
<1>6. UNION ({b} \cup others) = cells
  BY <1>3, <1>4
<1>7. \A r \in others : r \cap b = {} /\ b \cap r = {}
  BY <1>4
<1> QED BY <1>4, <1>5, <1>6, <1>7 DEF Covers

LEMMA RectanglesCover ==
  ASSUME NEW cells \in W!Planes
  PROVE  Covers(W!PlaneRectangles[cells], cells)
<1>1. PICK f : f = W!PlaneRectangles
  OBVIOUS
<1>2. \A s \in W!Planes : f[s] = Merge(f, s)
  BY <1>1, RectanglesAre
<1> SUFFICES ASSUME ~Covers(f[cells], cells) PROVE FALSE
  BY <1>1
<1> DEFINE Bad(s) == s \in W!Planes /\ ~Covers(f[s], s)
           N == {k \in Nat : \E s : Bad(s) /\ Cardinality(s) = k}
<1>3. Cardinality(cells) \in N
  BY CellsCount
<1>4. PICK m \in N : \A k \in N : m <= k
  BY <1>3, LeastOf
<1>5. PICK s : Bad(s) /\ Cardinality(s) = m
  BY <1>4
<1>6. f[s] = Merge(f, s)
  BY <1>2, <1>5
<1>7. CASE s = {}
  <2>1. f[s] = {}
    BY <1>6, <1>7 DEF Merge
  <2> QED BY <1>5, <1>7, <2>1 DEF Covers
<1>8. CASE s # {}
  <2>1. PICK rest : rest = s \ W!FirstBlock(s)
    OBVIOUS
  <2>2. rest \in W!Planes /\ Cardinality(rest) < m /\ Cardinality(rest) \in Nat
    BY <1>5, <1>8, <2>1, LessIsLeft, CellsCount
  <2>3. Cardinality(rest) \notin N
    BY <1>4, <2>2
  <2>4. Covers(f[rest], rest)
    BY <2>2, <2>3
  <2> HIDE DEF N
  <2> QED BY <1>5, <1>6, <1>8, <2>1, <2>4, MergeCovers
<1> QED BY <1>7, <1>8

\* The faces of a chunk in a plane are finitely many.
LEMMA PlaneIsFinite ==
  ASSUME WorldInv, NEW c \in DOMAIN chunks, NEW d \in W!Directions, NEW level
  PROVE  W!PlaneCells(W!VisibleFaces(c), d, level) \in W!Planes
<1>1. ChunkSize \in Nat \ {0}
  BY LabsAssumption DEF W!VoxelAssumption
<1>2. c \in [1 .. 3 -> Int] /\ chunks[c].solid \in SUBSET W!Local
  BY DEF WorldInv, W!Triples
<1>3. PICK axis : axis = W!Axis(d)
  OBVIOUS
<1>4. axis \in 1 .. 3
  <2>1. \E i \in 1 .. 3 : d[i] # 0
    BY DirectionIs
  <2> QED BY <1>3, <2>1 DEF W!Axis
<1>5. PICK u \in 1 .. 3, v \in 1 .. 3 : \A pos : W!Across(pos, axis) = <<pos[u], pos[v]>>
  <2>1. CASE axis = 1
    <3>1. \A pos : W!Across(pos, axis) = <<pos[2], pos[3]>>
      BY <2>1 DEF W!Across
    <3> QED BY <3>1
  <2>2. CASE axis = 2
    <3>1. \A pos : W!Across(pos, axis) = <<pos[1], pos[3]>>
      BY <2>2 DEF W!Across
    <3> QED BY <3>1
  <2>3. CASE axis = 3
    <3>1. \A pos : W!Across(pos, axis) = <<pos[1], pos[2]>>
      BY <2>3 DEF W!Across
    <3> QED BY <3>1
  <2> QED BY <1>4, <2>1, <2>2, <2>3
<1> DEFINE Side(i) == c[i] * ChunkSize .. c[i] * ChunkSize + ChunkSize - 1
<1>6. ASSUME NEW p \in W!WorldPositions(c), NEW i \in 1 .. 3
      PROVE  p[i] \in Side(i)
  <2>1. PICK l \in W!Local : p = [j \in 1 .. 3 |-> c[j] * ChunkSize + l[j]]
    BY <1>2 DEF W!WorldPositions
  <2>2. l[i] \in 0 .. ChunkSize - 1 /\ p[i] = c[i] * ChunkSize + l[i]
    BY <2>1 DEF W!Local, W!Triples
  <2>3. PICK base \in Int : base = c[i] * ChunkSize
    BY <1>1, <1>2
  <2> QED BY <1>1, <2>2, <2>3
<1>7. PICK cells : cells = W!PlaneCells(W!VisibleFaces(c), d, level)
  OBVIOUS
<1>8. ASSUME NEW e \in cells PROVE e \in Side(u) \X Side(v)
  <2>1. PICK f \in W!VisibleFaces(c) : e = W!Across(f[1], axis)
    BY <1>3, <1>7 DEF W!PlaneCells
  <2>2. f[1] \in W!WorldPositions(c)
    BY <2>1 DEF W!VisibleFaces
  <2> HIDE DEF Side
  <2> QED BY <1>5, <1>6, <2>1, <2>2
<1>9. \A i \in 1 .. 3 : IsFiniteSet(Side(i)) /\ Side(i) \subseteq Int
  <2> SUFFICES ASSUME NEW i \in 1 .. 3 PROVE IsFiniteSet(Side(i)) /\ Side(i) \subseteq Int
    OBVIOUS
  <2>1. PICK low \in Int, high \in Int : low = c[i] * ChunkSize /\ high = c[i] * ChunkSize + ChunkSize - 1
    BY <1>1, <1>2
  <2>2. IsFiniteSet(low .. high) /\ low .. high \subseteq Int
    BY FS_Interval
  <2> QED BY <2>1, <2>2
<1> HIDE DEF Side
<1>10. IsFiniteSet(Side(u) \X Side(v)) /\ Side(u) \X Side(v) \subseteq Int \X Int
  BY <1>5, <1>9, FS_Product
<1>11. IsFiniteSet(cells) /\ cells \in SUBSET (Int \X Int)
  BY <1>8, <1>10, FS_Subset
<1> QED BY <1>7, <1>11, PlanesAre

\* Whatever the world holds, the rectangles of its meshes cover the faces.
LEMMA MeshIsCovered ==
  ASSUME WorldInv
  PROVE  W!MeshCovered
<1> SUFFICES ASSUME NEW c \in W!Loaded, NEW plane \in W!GreedyRectangles(W!VisibleFaces(c))
             PROVE  Covers(plane[3], W!PlaneCells(W!VisibleFaces(c), plane[1], plane[2]))
  BY Zenon DEF W!MeshCovered, Covers
<1>1. PICK d, level :
        /\ d \in W!Directions
        /\ plane = <<d, level, W!PlaneRectangles[W!PlaneCells(W!VisibleFaces(c), d, level)]>>
  BY DEF W!GreedyRectangles
<1>2. PICK cells : cells = W!PlaneCells(W!VisibleFaces(c), d, level)
  OBVIOUS
<1>3. plane[1] = d /\ plane[2] = level /\ plane[3] = W!PlaneRectangles[cells]
  BY <1>1, <1>2
<1>4. cells \in W!Planes
  BY <1>1, <1>2, PlaneIsFinite DEF W!Loaded
<1>5. Covers(W!PlaneRectangles[cells], cells)
  BY <1>4, RectanglesCover
<1> QED BY <1>2, <1>3, <1>5

LEMMA WorldInitL ==
  ASSUME W!Init
  PROVE  WorldInv
BY LabsAssumption DEF W!Init, W!VoxelAssumption, WorldInv

LEMMA WorldNextL ==
  ASSUME WorldInv, W!Next
  PROVE  WorldInv'
<1> DEFINE Chunk == [solid : SUBSET W!Local, generation : Int]
<1>1. ASSUME NEW a \in Contents, W!PutChunk(a[1], a[2], a[3])
      PROVE  WorldInv'
  <2>4. a \in W!Triples(Int) \X (SUBSET W!Local) \X Int
    BY LabsAssumption DEF W!VoxelAssumption
  <2>1. PICK c \in W!Triples(Int), s \in SUBSET W!Local, n \in Int : a = <<c, s, n>>
    BY <2>4
  <2>2. PICK new \in Chunk : new = [solid |-> s, generation |-> n]
    BY <2>1
  <2>3. chunks' = [b \in DOMAIN chunks \cup {c} |-> IF b = c THEN new ELSE chunks[b]]
    BY <1>1, <2>1, <2>2 DEF W!PutChunk, W!Loaded
  <2> QED BY <2>1, <2>2, <2>3 DEF WorldInv
<1>2. ASSUME NEW pos \in Positions, NEW solid \in BOOLEAN, W!SetSolid(pos, solid)
      PROVE  WorldInv'
  <2>1. PICK k : k = W!ChunkOf(pos)
    OBVIOUS
  <2>2. /\ k \in DOMAIN chunks /\ DOMAIN chunks' = DOMAIN chunks
        /\ \A c \in DOMAIN chunks : c # k => chunks'[c] = chunks[c]
        /\ chunks'[k] \in Chunk
    BY <1>2, <2>1, SetSolidIs
  <2>3. chunks' = [c \in DOMAIN chunks |-> chunks'[c]]
    BY <1>2, <2>2 DEF W!SetSolid, WorldInv
  <2>4. \A c \in DOMAIN chunks : chunks'[c] \in Chunk
    BY <2>2 DEF WorldInv
  <2> QED BY <2>2, <2>3, <2>4 DEF WorldInv
<1>3. ASSUME NEW c \in W!Loaded, W!MeshSnapshot(c)
      PROVE  WorldInv'
  BY <1>3 DEF W!MeshSnapshot, WorldInv
<1> QED BY <1>1, <1>2, <1>3 DEF W!Next

LEMMA WorldStutter ==
  ASSUME WorldInv, UNCHANGED chunks
  PROVE  WorldInv'
BY DEF WorldInv

-----------------------------------------------------------------------------
(* The programs together.                                                  *)

LabInv ==
  /\ lab \in {"lpa", "dstar", "scheduler", "voxels", "deck"}
  /\ lab = "lpa" => L!TypeOK /\ L!Repairable /\ SettledL /\ EdgesKnown
  /\ lab = "dstar" => D!TypeOK /\ D!Repairable /\ SettledD /\ EdgesKnown
  /\ lab = "scheduler" => SchedulerInv /\ PromiseInv
  /\ lab = "deck" => DeckInv
  /\ lab = "voxels" => WorldInv

LEMMA LabInit == InitPrograms => LabInv
<1> SUFFICES ASSUME InitPrograms PROVE LabInv
  OBVIOUS
<1>1. CASE lab = "lpa" /\ L!Init
  <2>1. cost \in FirstGraphs /\ phase = "searching"
    BY <1>1 DEF L!Init, L!InitGraph
  <2>2. SettledL /\ EdgesKnown
    BY <2>1 DEF SettledL, EdgesKnown
  <2> QED BY <1>1, <2>2, PlanInitL DEF LabInv
<1>2. CASE lab = "dstar" /\ D!Init
  <2>1. cost \in FirstGraphs /\ phase = "searching"
    BY <1>2 DEF D!Init, D!InitGraph
  <2>2. SettledD /\ EdgesKnown
    BY <2>1 DEF SettledD, EdgesKnown
  <2> QED BY <1>2, <2>2, PlanInitD DEF LabInv
<1>3. CASE lab = "scheduler" /\ S!Init
  BY <1>3, SchedulerInit, PromiseInit DEF LabInv
<1>4. CASE lab = "voxels" /\ W!Init
  BY <1>4, WorldInitL DEF LabInv
<1>5. CASE lab = "deck" /\ Q!Init
  BY <1>5, DeckInit DEF LabInv
<1> QED BY <1>1, <1>2, <1>3, <1>4, <1>5 DEF InitPrograms, InitPlanners

LEMMA LabNext == LabInv /\ [NextPrograms]_programs => LabInv'
<1> SUFFICES ASSUME LabInv, [NextPrograms]_programs PROVE LabInv'
  OBVIOUS
<1>1. CASE LPA
  <2>1. lab = "lpa" /\ lab' = lab /\ L!Next
    BY <1>1 DEF LPA
  <2>2. L!TypeOK' /\ L!Repairable' /\ SettledL' /\ EdgesKnown'
    BY <2>1, PlanNextL, SettledNextL DEF LabInv
  <2> QED BY <2>1, <2>2 DEF LabInv
<1>2. CASE DStar
  <2>1. lab = "dstar" /\ lab' = lab /\ D!Next
    BY <1>2 DEF DStar
  <2>2. D!TypeOK' /\ D!Repairable' /\ SettledD' /\ EdgesKnown'
    BY <2>1, PlanNextD, SettledNextD DEF LabInv
  <2> QED BY <2>1, <2>2 DEF LabInv
<1>3. CASE lab = "scheduler" /\ lab' = lab /\ S!Next
  BY <1>3, SchedulerNext, PromiseNext DEF LabInv
<1>4. CASE lab = "voxels" /\ lab' = lab /\ W!Next
  BY <1>4, WorldNextL DEF LabInv
<1>5. CASE lab = "deck" /\ lab' = lab /\ Q!Next
  BY <1>5, DeckNext DEF LabInv
<1>6. CASE UNCHANGED programs
  <2>1. lab' = lab /\ UNCHANGED <<start, km, moves, cost, unnotified, changes, g, rhs, queue, phase>>
        /\ UNCHANGED chunks /\ UNCHANGED deck /\ UNCHANGED S!vars
    BY <1>6 DEF programs, planning, world, graph, search, scheduler, S!vars
  <2>2. lab = "lpa" => (L!TypeOK /\ L!Repairable /\ SettledL /\ EdgesKnown)'
    BY <2>1, PlanStutterL DEF LabInv
  <2>3. lab = "dstar" => (D!TypeOK /\ D!Repairable /\ SettledD /\ EdgesKnown)'
    BY <2>1, PlanStutterD DEF LabInv
  <2>4. lab = "deck" => DeckInv'
    BY <2>1, DeckStutter DEF LabInv
  <2>5. lab = "voxels" => WorldInv'
    BY <2>1, WorldStutter DEF LabInv
  <2>6. lab = "scheduler" => SchedulerInv' /\ PromiseInv'
    BY <2>1, SchedulerStays, PromiseStays DEF LabInv
  <2> QED BY <2>1, <2>2, <2>3, <2>4, <2>5, <2>6 DEF LabInv
<1> QED BY <1>1, <1>2, <1>3, <1>4, <1>5, <1>6 DEF NextPrograms

\* The inductive invariant holds in every state: every variable of the program
\* at work has its type, and what its promises rest on is true.
THEOREM LabInvariance == Programs => []LabInv
<1> QED BY LabInit, LabNext, PTL DEF Programs

\* Whatever edges change, whenever a planner is told of them and however far
\* its agent has moved, a search resumes from where the last one stopped: rhs
\* is right, and no inconsistent node is missing from the heap or queued late.
THEOREM RepairableAlways == Programs => []Repairable
<1>1. LabInv => Repairable
  BY DEF LabInv, Repairable
<1> QED BY <1>1, LabInvariance, PTL

\* After each call, with every change notified, each planner knows the distance,
\* whatever changed in whatever order and however far the agent has moved: it is
\* the one any solution of Bellman's equations has.
THEOREM DistanceIsKnown == Programs => [](\A d \in [Nodes -> Cost] : DistanceKnown(d))
<1>1. ASSUME LabInv, NEW d \in [Nodes -> Cost] PROVE DistanceKnown(d)
  <2>1. d \in [Nodes -> L!Cost] /\ d \in [Nodes -> D!Cost]
    BY DEF Cost, L!Cost, D!Cost, Inf, L!Inf, D!Inf
  <2>2. lab = "lpa" => L!DistanceKnown(d)
    BY <1>1, <2>1, DistanceL DEF LabInv
  <2>3. lab = "dstar" => D!DistanceKnown(d)
    BY <1>1, <2>1, DistanceD DEF LabInv
  <2> QED BY <2>2, <2>3 DEF DistanceKnown
<1>2. LabInv => \A d \in [Nodes -> Cost] : DistanceKnown(d)
  BY <1>1
<1> QED BY <1>2, LabInvariance, PTL

\* After each call, with every change notified, each planner knows the distance of
\* a fresh search of the changed graph, and where there is a route it has one, whose
\* cost is that distance.
THEOREM RoutesAreShortest == Programs => []PathsShortest
<1>1. LabInv => PathsShortest
  BY RoutesL, RoutesD DEF LabInv, PathsShortest
<1> QED BY <1>1, LabInvariance, PTL

\* Under every policy, and for all jobs, the timeline is a partition of the
\* time so far that is idle only when no job could run, gives each job its
\* burst, none of it before the job arrives, and bears out the metrics.
THEOREM TimelineIsSound == Programs => []TimelineSound
<1>1. LabInv => TimelineSound
  BY SchedulerSound DEF LabInv, TimelineSound
<1> QED BY <1>1, LabInvariance, PTL

\* Each policy keeps its promise for all jobs: round robin lets nobody wait longer
\* than a quantum of each other job, first come first served, shortest job first and
\* priority take the processor from nobody, and let a job be passed only by one of
\* better rank, whatever the aging.
THEOREM PromisesAreKept == Programs => []PolicyPromises
<1>1. LabInv => PolicyPromises
  BY PromisesKept DEF LabInv, PolicyPromises
<1> QED BY <1>1, LabInvariance, PTL

\* The deck of the site holds exactly the questions its round has not shown, in
\* whatever order clicks, answers, loads, the back button and deployments come.
THEOREM RoundIsTrue == Programs => []RoundTrue
<1>1. LabInv => RoundTrue
  BY DEF LabInv, RoundTrue, DeckInv
<1> QED BY <1>1, LabInvariance, PTL

\* What remains of the README's promise once restored pages are excepted: while
\* none was used, a click never draws a question its round has shown, and a new
\* round does not begin with the present question.
THEOREM RoundRepeatsNothing ==
  Programs => [][lab = "deck" => \A id \in Questions :
    Q!Draw(id) /\ saved # Q!Blocked /\ ~stale' =>
      IF Q!Unseen = {} THEN id # page.current ELSE id \notin seen]_programs
<1>1. ASSUME LabInv, lab = "deck", NEW id \in Questions, Q!Draw(id), saved # Q!Blocked, ~stale'
      PROVE  IF Q!Unseen = {} THEN id # page.current ELSE id \notin seen
  <2>1. ~page.busy /\ ~page.restored /\ ~stale /\ id \in Q!Pool
    BY <1>1 DEF Q!Draw
  <2>2. page.catalog # {} /\ Q!RoundTrue
    BY <1>1, <2>1 DEF LabInv, DeckInv, PageInv
  <2>3. page.remaining = saved.catalog \ seen
    BY <1>1, <2>1, <2>2 DEF Q!RoundTrue
  <2> QED BY <2>1, <2>3 DEF Q!Pool, Q!Unseen
<1> DEFINE Fresh == lab = "deck" => \A id \in Questions :
      Q!Draw(id) /\ saved # Q!Blocked /\ ~stale' =>
        IF Q!Unseen = {} THEN id # page.current ELSE id \notin seen
<1>2. LabInv => Fresh
  BY <1>1
<1> QED BY <1>2, LabInvariance, PTL DEF Programs

\* set_solid marks every mesh it changes dirty and gives it another version.
THEOREM MutationsInvalidate == Programs => MutationInvalidates
<1>1. LabInv => (lab = "voxels" => \A pos \in Positions, solid \in BOOLEAN :
                   W!SetSolid(pos, solid) => W!MeshesInvalidated)
  BY MutationReaches DEF LabInv
<1> QED BY <1>1, LabInvariance, PTL DEF Programs, MutationInvalidates

\* collision_oracle calls a box clear exactly when no voxel of the whole space that it
\* touches, be it only at a corner, is solid or unknown: its loops miss none.
THEOREM QueriesAreExact == Programs => [](lab = "voxels" => W!ClearIsClear(ValidBoxes, Int))
<1>1. LabInv => (lab = "voxels" => W!ClearIsClear(ValidBoxes, Int))
  BY ClearMeans
<1> QED BY <1>1, LabInvariance, PTL

\* After any history of changes, the rectangles that greedy_rectangles merges out of the
\* faces of a mesh cover each face once and nothing else, and collision_oracle calls clear
\* exactly the boxes that touch no solid and no unknown voxel.
THEOREM GeometryIsTrue == Programs => []GeometryTrue
<1>1. LabInv => GeometryTrue
  BY MeshIsCovered, ClearInReach DEF LabInv, GeometryTrue
<1> QED BY <1>1, LabInvariance, PTL DEF Programs
=============================================================================
