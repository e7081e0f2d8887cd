SPECIFICATION Spec
CONSTANTS
  THREAD_NUM = 1
  BUFFER_MAX_PACKET_NUM = 3
  MAIN_THREAD_BUFFER_SIZE = 2
  PacketCnt = 4
  ThreadOf <- MCOneThread
  ReadySpin = {"fresh"}
  TestCycles = 1
INVARIANTS
  FinishedMeansPushedInserted
CHECK_DEADLOCK FALSE
