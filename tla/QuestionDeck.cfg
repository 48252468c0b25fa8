\* The deck as the README describes it, with no exception for restored pages.
CONSTANTS
  Questions = {1, 2, 3}
  Catalogs <- SampleCatalogs
  MaxDraws = 2
  MaxMoves = 2
SPECIFICATION Spec
PROPERTY NoRepeatInRound
CHECK_DEADLOCK FALSE
