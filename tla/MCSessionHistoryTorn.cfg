SPECIFICATION Spec
CONSTANTS
  k1 = k1
  k2 = k2
  k3 = k3
  Calls <- ThreeCalls
  HistoryLimit = 2
  CompactAt = 3
  MaxFaults = 2
SYMMETRY Interchangeable
INVARIANTS
  WrittenIsLoaded
CHECK_DEADLOCK FALSE
