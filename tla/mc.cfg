SPECIFICATION FairSpec
CONSTANTS
  THREAD_NUM = 2
  BUFFER_MAX_PACKET_NUM = 5
  MAIN_THREAD_BUFFER_SIZE = 2
  PacketCnt = 13
  ThreadOf <- MCAlternate
  ReadySpin = {"fresh", "once", "removed"}
  TestCycles = 2
INVARIANTS
  MainInvariant
  CountIsInsertions
PROPERTIES
  ImplementsChannels
  Termination
CHECK_DEADLOCK FALSE
