---------------------------- MODULE VoxelWorldMC ----------------------------
(***************************************************************************)
(* One chunk with the six around it loaded, each with the generation that  *)
(* put_chunk gives by default, and a chunk that is put again as run_tests  *)
(* does it.                                                                *)
(***************************************************************************)
EXTENDS VoxelWorld

Centre == <<0, 0, 0>>
Around == [c \in {Centre} \cup {Moved(Centre, d) : d \in Directions} |->
             [solid |-> {}, generation |-> 0]]
PutAgain == {<<Centre, {<<1, 0, 0>>}, 0>>}
OneVoxel == {<<0, 1, 0>>}
=============================================================================
