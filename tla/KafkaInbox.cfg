CONSTANTS
  Count = 2
  ForeignRecords <- ConflictingRecords
  MaxPoll = 3
  RecordLimits = {0, 2}
  MaxProducerRuns = 2
  MaxFaults = 2
SPECIFICATION FairSpec
INVARIANTS
  TypeOK CommittedIsApplied CleanExitCommitted
PROPERTIES
  ImplementsInboxEffects Drains
