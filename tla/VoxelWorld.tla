----------------------------- MODULE VoxelWorld -----------------------------
(***************************************************************************)
(* class World of examples/knowledge/recast-voxel-lab/voxel_reference.py,  *)
(* the meshes built from it, and the queries that read it.  The builder of *)
(* meshes is the caller: it keeps the last result of mesh_snapshot for     *)
(* each chunk, to compare its version with a later one.                    *)
(***************************************************************************)
EXTENDS Integers, Sequences, FiniteSets, FiniteSetsExt

CONSTANTS
  ChunkSize,       \* CHUNK_SIZE
  FirstChunks,     \* chunks loaded before the steps that are modelled
  Contents,        \* arguments of put_chunk: <<chunk, local solid, generation>>
  Positions,       \* positions set_solid is called with
  MaxMutations     \* bound: calls of set_solid and put_chunk

\* Chunks, voxels and directions are triples.
Triples(range) == [1 .. 3 -> range]
Local == Triples(0 .. ChunkSize - 1)

\* Other cells make put_chunk raise ValueError.
VoxelAssumption ==
  /\ ChunkSize \in Nat \ {0} /\ MaxMutations \in Nat
  /\ Positions \subseteq Triples(Int)
  /\ Contents \subseteq Triples(Int) \X (SUBSET Local) \X Int
  /\ DOMAIN FirstChunks \subseteq Triples(Int)
  /\ FirstChunks \in [DOMAIN FirstChunks -> [solid : SUBSET Local, generation : Int]]

VARIABLES
  chunks,            \* from loaded chunks to [solid, generation]
  dirty,
  targetGeneration,
  mutations,
  snapshots          \* from chunks to the [version, faces] the builder holds

vars == <<chunks, dirty, targetGeneration, mutations, snapshots>>

\* split_voxel: floor_divmod of each coordinate; \div rounds down.
ChunkOf(pos) == [i \in 1 .. 3 |-> pos[i] \div ChunkSize]
LocalOf(pos) == [i \in 1 .. 3 |-> pos[i] - ChunkSize * (pos[i] \div ChunkSize)]

Directions ==
  {d \in Triples(-1 .. 1) : \E axis \in 1 .. 3 : \A i \in 1 .. 3 : d[i] # 0 <=> i = axis}
Moved(pos, d) == [i \in 1 .. 3 |-> pos[i] + d[i]]
Loaded == DOMAIN chunks

Unknown == "unknown"
Cell(pos) ==
  IF ChunkOf(pos) \notin Loaded THEN Unknown
  ELSE IF LocalOf(pos) \in chunks[ChunkOf(pos)].solid THEN "solid" ELSE "empty"

WorldPositions(chunk) ==
  {[i \in 1 .. 3 |-> chunk[i] * ChunkSize + local[i]] : local \in chunks[chunk].solid}

\* visible_faces and mesh_snapshot raise UnknownChunk unless the chunk and its
\* six neighbours are loaded; for a snapshot they have to be, even if no face
\* looks at them.
Meshable(chunk) == chunk \in Loaded /\ \A d \in Directions : Moved(chunk, d) \in Loaded
VisibleFaces(chunk) ==
  {f \in WorldPositions(chunk) \X Directions : Cell(Moved(f[1], f[2])) = "empty"}
Version(chunk) ==
  [c \in {chunk} \cup {Moved(chunk, d) : d \in Directions} |-> chunks[c].generation]

\* Mutant: only the mutated chunk is built again.
InvalidatedAlone(chunk) == dirty \cup {chunk}

\* invalidate
Invalidated(chunk) == dirty \cup {chunk} \cup {Moved(chunk, d) : d \in Directions}

Init ==
  /\ chunks = FirstChunks
  /\ dirty = {} /\ targetGeneration = 0
  /\ mutations = 0 /\ snapshots = <<>>

\* put_chunk, for a chunk that may be loaded already.
PutChunk(chunk, solid, generation) ==
  /\ mutations < MaxMutations
  /\ chunks' = [c \in Loaded \cup {chunk} |->
                  IF c = chunk THEN [solid |-> solid, generation |-> generation] ELSE chunks[c]]
  /\ mutations' = mutations + 1
  /\ UNCHANGED <<dirty, targetGeneration, snapshots>>

SetSolid(pos, solid) ==
  LET chunk == ChunkOf(pos)
      local == LocalOf(pos)
  IN /\ mutations < MaxMutations
     /\ chunk \in Loaded
     /\ chunks' = [chunks EXCEPT
          ![chunk].solid = IF solid THEN @ \cup {local} ELSE @ \ {local},
          ![chunk].generation = @ + 1]
     /\ targetGeneration' = targetGeneration + 1
     /\ dirty' = Invalidated(chunk)
     /\ mutations' = mutations + 1
     /\ UNCHANGED snapshots

\* The builder takes a mesh_snapshot and keeps it.
MeshSnapshot(chunk) ==
  /\ Meshable(chunk)
  /\ snapshots' = [c \in DOMAIN snapshots \cup {chunk} |->
       IF c = chunk THEN [version |-> Version(c), faces |-> VisibleFaces(c)] ELSE snapshots[c]]
  /\ UNCHANGED <<chunks, dirty, targetGeneration, mutations>>

Next ==
  \/ \E c \in Contents : PutChunk(c[1], c[2], c[3])
  \/ \E pos \in Positions, solid \in BOOLEAN : SetSolid(pos, solid)
  \/ \E chunk \in Loaded : MeshSnapshot(chunk)

Spec == Init /\ [][Next]_vars
-----------------------------------------------------------------------------
(* Reading a mesh and the world.                                           *)

\* The cells <<u, v>> of one plane: greedy_rectangles ends, because they are finitely many.
Planes == {cells \in SUBSET (Int \X Int) : IsFiniteSet(cells)}
Block(corner, width, height) ==
  {<<corner[1] + i, corner[2] + j>> : i \in 0 .. width - 1, j \in 0 .. height - 1}

\* The least cell left grows in width, then in height.
FirstBlock(cells) ==
  LET least == CHOOSE c \in cells : \A b \in cells : c[1] < b[1] \/ (c[1] = b[1] /\ c[2] <= b[2])
      n == Cardinality(cells)
      width == Max({w \in 1 .. n : Block(least, w, 1) \subseteq cells})
  IN Block(least, width, Max({h \in 1 .. n : Block(least, width, h) \subseteq cells}))

PlaneRectangles[cells \in Planes] ==
  IF cells = {} THEN {}
  ELSE {FirstBlock(cells)} \cup PlaneRectangles[cells \ FirstBlock(cells)]

\* The axes of a face's plane, and the faces of one direction in one plane.
Axis(d) == CHOOSE i \in 1 .. 3 : d[i] # 0
Across(pos, axis) == LET rest == <<2, 1, 1>> last == <<3, 3, 2>> IN <<pos[rest[axis]], pos[last[axis]]>>
PlaneCells(faces, d, at) ==
  {Across(f[1], Axis(d)) : f \in {e \in faces : e[2] = d /\ e[1][Axis(d)] = at}}
GreedyRectangles(faces) ==
  {<<d, at, PlaneRectangles[PlaneCells(faces, d, at)]>> :
     d \in Directions, at \in {f[1][i] : f \in faces, i \in 1 .. 3}}

\* Coordinates of a box are counted in halves of a voxel, to have positions
\* between the integers: [low, high], each a triple.
Floor(x) == x \div 2
Ceil(x) == -((-x) \div 2)
Intersects(box, pos) ==
  \A i \in 1 .. 3 : box.low[i] <= 2 * pos[i] + 2 /\ 2 * pos[i] <= box.high[i]

\* Mutant: voxels that end where the box begins are not looked at.
ScannedInside(box, i) == Floor(box.low[i]) .. Ceil(box.high[i])

\* The range of one loop of collision_oracle.
Scanned(box, i) == Floor(box.low[i]) - 1 .. Ceil(box.high[i])

\* collision_oracle with conservative_unknown; the scan goes x first, z last.
CollisionOracle(box) ==
  LET hit == {p \in Scanned(box, 1) \X Scanned(box, 2) \X Scanned(box, 3) :
                Intersects(box, p) /\ Cell(p) # "empty"}
      sooner(p, q) == \E n \in 1 .. 3 : p[n] < q[n] /\ \A m \in n + 1 .. 3 : p[m] = q[m]
  IN IF hit = {} THEN "clear"
     ELSE IF Cell(CHOOSE p \in hit : \A q \in hit \ {p} : sooner(p, q)) = Unknown
     THEN "unknown_blocked" ELSE "solid_hit"
-----------------------------------------------------------------------------
\* A step that changes the mesh of a chunk leaves it dirty and under another
\* version, so that a mesh built before cannot pass for the present one.
MeshesInvalidated ==
  \A c \in Loaded : Meshable(c) /\ VisibleFaces(c) # VisibleFaces(c)' =>
    c \in dirty' /\ Version(c) # Version(c)'

\* Calls of set_solid invalidate every mesh they change, of the chunk itself or
\* of one next to it.
MutationInvalidates ==
  [][\A pos \in Positions, solid \in BOOLEAN : SetSolid(pos, solid) => MeshesInvalidated]_vars

\* The merged rectangles of a mesh cover each of its faces exactly once and
\* nothing else.
MeshCovered ==
  \A c \in {b \in Loaded : Meshable(b)} :
    LET faces == VisibleFaces(c) IN
    \A plane \in GreedyRectangles(faces) :
      /\ UNION plane[3] = PlaneCells(faces, plane[1], plane[2])
      /\ \A r, s \in plane[3] : r = s \/ r \cap s = {}

\* A box is called clear only if no voxel it touches, from inside or at a
\* face, an edge or a corner, is solid or unknown; and it is called clear then.
ClearIsClear(boxes, window) ==
  \A box \in boxes :
    CollisionOracle(box) = "clear" <=>
      \A p \in window \X window \X window : Intersects(box, p) => Cell(p) = "empty"

\* "stale result rejected by generation": a mesh whose version is the present
\* version of its chunk has the present faces.
StaleIsRejected ==
  \A c \in DOMAIN snapshots :
    Meshable(c) /\ snapshots[c].version = Version(c) => snapshots[c].faces = VisibleFaces(c)
=============================================================================
