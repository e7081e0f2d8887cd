SPECIFICATION ReaderSpec
CONSTANTS
  N = 2
  RB_SIZE = 4
  RB_BATCH = 2
  MaxTuples = 4
  MaxSegments = 3
  MaxRestarts = 1
INVARIANTS
  FromTheFirstOnce
PROPERTIES
  ConnectedIsServed
CHECK_DEADLOCK FALSE
