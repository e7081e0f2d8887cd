SPECIFICATION Spec
CONSTANTS
  Keys = {f1, f2, f3, f4, f5}
  Zero = zero
  Capacity = 4
  MaxPackets = 7
INVARIANTS
  StructureSound
  HeavyHittersComplete
PROPERTIES
  ImplementsAlgorithm
CHECK_DEADLOCK FALSE
