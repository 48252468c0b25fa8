CONSTANTS
  Workers = {w1, w2}
  Sent <- SampleEvents
  Types = {"Shared", "Key_Shared"}
  MaxRedeliver = 1
  MaxFaults = 2
SPECIFICATION FairSpec
INVARIANTS
  OneEffect NothingLost DeadLettersEarned
PROPERTIES
  EffectsStay Settles
CHECK_DEADLOCK FALSE
