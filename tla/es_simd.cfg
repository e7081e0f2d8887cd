SPECIFICATION Spec
CONSTANTS
  Keys = {0, 1, 2, 3}
  Lambda = 1
  HalfRange = 8
  BucketNum = 1
  Slots = 2
  BucketOf <- MCOneBucket
  SIMD = TRUE
  CounterNum = 5
  LightMax = 3
  PosOf <- MCShared
  Weights = {1, 2}
  MaxFlow = 3
INVARIANTS
  SketchInvariant
  QueryBounds
  TasksBounded
  HittersReported
  CompressNeverLower
PROPERTIES
  EstimateMonotone
