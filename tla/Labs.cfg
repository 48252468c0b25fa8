CONSTANTS
  Nodes = {1, 2, 3, 4}
  Start = 1
  Goal = 4
  Heuristic <- Line
  FirstGraphs <- TwoGraphs
  EdgeCosts <- LineCosts
  MaxChanges = 3
  MaxAgentChanges = 2
  MaxMoves = 2
  Jobs = {1, 2, 3}
  Inputs <- SmallInputs
  ChunkSize = 2
  FirstChunks <- FewChunks
  Contents <- FewContents
  Positions <- FewPositions
  MaxMutations = 2
  Boxes <- LineBoxes
  Reach = 5
  MaxCalls = 4
  Elements = 4
  Values = 3
  MaxLength = 4
  Questions = {1, 2, 3}
  Catalogs <- TwoCatalogs
  MaxDraws = 2
SPECIFICATION FairSpec
INVARIANTS
  Repairable PathsShortest TimelineSound PolicyPromises GeometryTrue RoundTrue StructuresTrue AlgorithmsTrue
PROPERTIES
  Returns MutationInvalidates
CHECK_DEADLOCK FALSE
