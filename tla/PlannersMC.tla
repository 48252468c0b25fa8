----------------------------- MODULE PlannersMC -----------------------------
(***************************************************************************)
(* The two incremental planners of pathfinding_lab.py side by side: lab    *)
(* says which of them is at work.                                          *)
(***************************************************************************)
EXTENDS Planner

CONSTANTS
  MaxAgentChanges, \* bound: changes while the planner is D* Lite
  MaxMoves

\* Nodes lie on a line and edges are never shorter than it.
Line == [e \in Nodes \X Nodes |-> IF e[1] < e[2] THEN e[2] - e[1] ELSE e[1] - e[2]]
Edges == {<<1, 2>>, <<2, 3>>, <<1, 3>>, <<2, 4>>, <<3, 4>>, <<3, 2>>}
LineCosts ==
  [e \in Nodes \X Nodes |-> IF e \in Edges THEN {Line[e], Line[e] + 2, Inf} ELSE {}]
TwoGraphs ==
  { [e \in Nodes \X Nodes |-> IF e \in Edges THEN Line[e] ELSE Inf],
    [e \in Nodes \X Nodes |->
       IF e \in {<<2, 3>>, <<3, 2>>, <<3, 4>>} THEN Line[e] + 2
       ELSE IF e \in Edges THEN Line[e] ELSE Inf] }

VARIABLES lab, start, km, moves
planning == <<start, km, moves, graph, search, phase>>

L == INSTANCE LPAStar
D == INSTANCE DStarLite WITH MaxChanges <- MaxAgentChanges

ASSUME PlannersAssumption ==
  /\ {MaxAgentChanges, MaxMoves} \subseteq Nat
  /\ L!ConsistentHeuristic /\ D!MetricHeuristic

InitPlanners ==
  \/ lab = "lpa" /\ start = Start /\ km = 0 /\ moves = 0 /\ L!Init
  \/ lab = "dstar" /\ D!Init
LPA == lab = "lpa" /\ L!Next /\ UNCHANGED <<lab, start, km, moves>>
DStar == lab = "dstar" /\ D!Next /\ UNCHANGED lab
ComputeLPA == lab = "lpa" /\ L!Compute /\ UNCHANGED <<lab, start, km, moves>>
ComputeDStar == lab = "dstar" /\ D!Compute /\ UNCHANGED lab

\* Every search can be repaired from where the last one stopped: rhs is right
\* and no inconsistent node is missing from the heap or queued too late.
Repairable == (lab = "lpa" => L!Repairable) /\ (lab = "dstar" => D!Repairable)

\* After each call the planner knows the distance, if d solves its equations.
DistanceKnown(d) ==
  (lab = "lpa" => L!DistanceKnown(d)) /\ (lab = "dstar" => D!DistanceKnown(d))

\* Whatever changed before, a planner that returns knows the distance and a route of
\* a fresh search of the changed graph.
PathsShortest ==
  (lab = "lpa" => L!ShortestPathKnown) /\ (lab = "dstar" => D!ShortestPathKnown)

\* Every call of either planner returns.
Returns == L!Returns
=============================================================================
