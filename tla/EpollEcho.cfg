CONSTANTS
  Conns = {1, 2}
  MaxConns = 2
  OutputCap = 2
  IoBudget = 2
  AcceptBudget = 2
  MaxBytes = 3
SPECIFICATION FairSpec
INVARIANTS
  EchoInOrder ClosedWhenFlushed
PROPERTIES
  Served
CHECK_DEADLOCK FALSE
