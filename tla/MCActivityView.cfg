SPECIFICATION Spec
CONSTANTS
  k1 = k1
  k2 = k2
  k3 = k3
  Calls = {k1, k2, k3}
  HistoryLimit = 2
  Matching = {k1, k3}
  None = None
  MaxReconnects = 1
PROPERTIES
  NewCallsAreSelected
CHECK_DEADLOCK FALSE
