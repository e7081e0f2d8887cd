SPECIFICATION FairSpec
CONSTANTS
  Threads = {1, 2, 3, 4}
  Stalled = {1}
  Launches <- MCLaunches
  Keys = {1, 2, 3}
  Tables = 2
  PosOf <- MCPosOf
  LightPosOf <- MCLightPosOf
  MAX_TRIES = 2
  FACTOR = 2
  LightSize = 2
INVARIANTS
  TablesSound
  QueriesSound
PROPERTIES
  EndsAlone
CHECK_DEADLOCK FALSE
