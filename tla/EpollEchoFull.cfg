CONSTANTS
  Conns = {1, 2, 3}
  MaxConns = 2
  OutputCap = 2
  IoBudget = 1
  AcceptBudget = 2
  MaxBytes = 3
SPECIFICATION Spec
INVARIANTS
  YieldedIsKept
CHECK_DEADLOCK FALSE
