CONSTANTS
  InitialStock = 1
  Reconciling = {TRUE, FALSE}
  Resuming = {TRUE, FALSE}
  MaxFaults = 2
SPECIFICATION FairSpec
INVARIANTS
  TypeOK StockAccounted StoredResultsTrue FinalTruthful ReleaseAfterRefund
PROPERTIES
  ImplementsOutcome Settles
