SPECIFICATION Spec
CONSTANTS
  Keys = {1, 2, 3}
  Lambda = 1
  HalfRange = 16
  BucketNum = 2
  Slots = 2
  BucketOf <- MCBucketOf
  CounterNum = 4
  LightMax = 4
  PosOf <- MCPosOf
  Weights = {1, 2}
  MaxFlow = 5
  Programs = {TRUE, FALSE}
INVARIANTS
  BuildsAgree
  GuardBounded
  TasksExact
  BucketConservation
PROPERTIES
  ImplementsSketch
