SPECIFICATION FairSpec
CONSTANTS
  RB_SIZE = 7
  RB_BATCH = 3
  GarbageFlag = TRUE
  MaxTuples = 16
  MaxRestarts = 2
INVARIANTS
  RingInvariant
PROPERTIES
  ImplementsChannel
  RingProgress
CHECK_DEADLOCK FALSE
