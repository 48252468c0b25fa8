CONSTANTS
  ChunkSize = 2
  FirstChunks <- Around
  Contents <- PutAgain
  Positions <- OneVoxel
  MaxMutations = 2
SPECIFICATION Spec
INVARIANT
  StaleIsRejected
