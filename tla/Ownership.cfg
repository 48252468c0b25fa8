CONSTANTS
  Producers = {p1, p2}
  Consumers = {c1, c2}
  Capacity = 2
  MaxPushes = 2
  LatchCount = 2
  HeaderSize = 2
  PayloadSize = 2
  AckSize = 3
  MaxFrame = 3
  Payload = 3
SPECIFICATION FairLab
INVARIANTS
  NoLostWakeup MemoryOwned BytesWhole
PROPERTIES
  ImplementsClosableQueue ProgramsEnd
CHECK_DEADLOCK FALSE
