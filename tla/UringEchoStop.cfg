CONSTANTS
  Conns = {1}
  Slots = {1}
  BufferCap = 1
  MaxBytes = 1
  MaxGeneration = 2
SPECIFICATION FairSpec
PROPERTIES
  StopEnds
CHECK_DEADLOCK FALSE
