---------------------------- MODULE LabPrograms ----------------------------
(***************************************************************************)
(* The programs of one thread that are state machines of their own: the    *)
(* planners, the scheduler, the voxel world and the question deck.  lab    *)
(* says which of them a behaviour belongs to; the variables of the others  *)
(* are 0 in it.                                                            *)
(***************************************************************************)
EXTENDS PlannersMC

CONSTANTS
  Jobs, Inputs,             \* of the scheduler
  ChunkSize, FirstChunks, Contents, Positions,
  MaxMutations,             \* bound: calls that change the voxel world
  Boxes, Reach,             \* boxes of collision_oracle, and a bound of where they lie
  Questions, Catalogs, MaxDraws

VARIABLES
  input, time, remaining, arrived, ready, segments, firstStart, completion,
  chunks, dirty, targetGeneration, mutations, snapshots,
  deployed, saved, page, kept, history, at, click, going, seen, stale, draws

scheduler == <<input, time, remaining, arrived, ready, segments, firstStart, completion>>
world == <<chunks, dirty, targetGeneration, mutations, snapshots>>
deck == <<deployed, saved, page, kept, history, at, click, going, seen, stale, draws>>
programs == <<lab, planning, scheduler, world, deck>>

S == INSTANCE Scheduler
W == INSTANCE VoxelWorld
Q == INSTANCE QuestionDeck

\* collision_oracle refuses other boxes; Reach counts voxels, a box halves of them.
BoxesAssumption ==
  /\ Reach \in Nat
  /\ Boxes \subseteq [low : W!Triples(Int), high : W!Triples(Int)]
  /\ \A box \in Boxes, i \in 1 .. 3 :
       -2 * Reach < box.low[i] /\ box.low[i] <= box.high[i] /\ box.high[i] <= 2 * Reach

ASSUME LabsAssumption ==
  S!InputsAssumption /\ W!VoxelAssumption /\ BoxesAssumption /\ Q!DeckAssumption

NoPlanner ==
  /\ start = 0 /\ km = 0 /\ cost = 0 /\ unnotified = 0 /\ changes = 0
  /\ g = 0 /\ rhs = 0 /\ queue = 0 /\ phase = "none"
NoScheduler ==
  /\ input = 0 /\ time = 0 /\ remaining = 0 /\ arrived = 0 /\ ready = 0 /\ segments = 0
  /\ firstStart = 0 /\ completion = 0
NoWorld == chunks = 0 /\ dirty = 0 /\ targetGeneration = 0 /\ mutations = 0 /\ snapshots = 0
NoDeck ==
  /\ deployed = 0 /\ saved = 0 /\ page = 0 /\ kept = 0 /\ history = 0 /\ at = 0 /\ click = 0
  /\ going = 0 /\ seen = 0 /\ stale = 0 /\ draws = 0

InitPrograms ==
  \/ InitPlanners /\ NoScheduler /\ NoWorld /\ NoDeck
  \/ lab = "scheduler" /\ S!Init /\ moves = 0 /\ NoPlanner /\ NoWorld /\ NoDeck
  \/ lab = "voxels" /\ W!Init /\ moves = 0 /\ NoPlanner /\ NoScheduler /\ NoDeck
  \/ lab = "deck" /\ Q!Init /\ NoPlanner /\ NoScheduler /\ NoWorld

NextPrograms ==
  \/ (LPA \/ DStar) /\ UNCHANGED <<scheduler, world, deck>>
  \/ lab = "scheduler" /\ S!Next /\ UNCHANGED <<lab, planning, world, deck>>
  \/ lab = "voxels" /\ W!Next /\ UNCHANGED <<lab, planning, scheduler, deck>>
  \/ /\ lab = "deck" /\ Q!Next
     /\ UNCHANGED <<lab, start, km, graph, search, phase, scheduler, world>>

Programs == InitPrograms /\ [][NextPrograms]_programs
-----------------------------------------------------------------------------
\* The timeline of simulate is a sound account of the processor, from which
\* the metrics it reports can be counted.
TimelineSound == lab = "scheduler" => S!TimelineSound

\* Round robin keeps the wait bounded; fcfs, sjf and priority never preempt, and let
\* a job be passed only by one of better rank.
PolicyPromises == lab = "scheduler" => S!PolicyPromises

\* set_solid never leaves a mesh it changed clean, or under its old version.
MutationInvalidates == [][lab = "voxels" =>
  \A pos \in Positions, solid \in BOOLEAN : W!SetSolid(pos, solid) => W!MeshesInvalidated]_programs

\* The rectangles of greedy_rectangles cover each face once, and collision_oracle
\* calls clear exactly the boxes that touch nothing.
GeometryTrue ==
  lab = "voxels" => W!MeshCovered /\ W!ClearIsClear(Boxes, -Reach .. Reach)

\* The deck of the site holds exactly the questions its round has not shown.
RoundTrue == lab = "deck" => Q!RoundTrue
=============================================================================
