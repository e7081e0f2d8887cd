SPECIFICATION Spec
CONSTANTS
  Keys = {1, 2, 3, 4, 5}
  Programs = {"css"}
  TraceLength <- MCTraceLength
  capacity = 4
  SK_D = 3
  SK_W = 3
  Hash <- MCHash
  Sign <- MCSign
  level = 3
  Polar <- MCPolar
  PipeStages = 3
  PipeSlots = 2
  PipeHash <- MCPipeHash
  BfPos <- MCBfPos
  w_iblt = 4
  IbltPos <- MCIbltPos
  Slots = {0, 1}
  SlotOf <- MCSlotOf
  rand_pos <- MCrand_pos
  Bytes = {0, 1, 2}
  keylen = 3
  KeyBytes <- MCKeyBytes
  Mangle <- MCMangle
  Digits = 2
  SmallHash <- MCSmallHash
  H = 4
  r = 1
  w_kary = 4
  KaryHash <- MCKaryHash
  K = 3
  Home <- MCHome
  IndexByte = 2
  Unreadable = {5}
  CEIL_PER_BUCKET = 3
  bucket_num = 4
  PosOf <- MCPosOf
  FACTOR = 1
  w_mrac = 3
  MracHash <- MCMracHash
  flow_num_limit <- MCflow_num_limit
  w_ht = 3
  d_ht = 1
  remained = 5
  capacity_ht = 3
  HashPairs <- MCHashPairs
INVARIANTS
  WalksFindTheirCounter
CHECK_DEADLOCK FALSE
