CONSTANTS
  Conns = {1, 2}
  Slots = {1}
  BufferCap = 2
  MaxBytes = 2
  MaxGeneration = 2
SPECIFICATION FairSpec
INVARIANTS
  OwnedUntilHandled PendingIsOutstanding EchoInOrder HalfCloseFlushes
PROPERTIES
  ShutdownEnds
CHECK_DEADLOCK FALSE
