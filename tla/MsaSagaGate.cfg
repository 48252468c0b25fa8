\* The coordinator as run_demo restarts it: every run may retry its compensation.
CONSTANTS
  InitialStock = 1
  Reconciling = {TRUE}
  Resuming = {TRUE}
  MaxFaults = 2
SPECIFICATION Spec
INVARIANT ReleaseWaitsForRefund
