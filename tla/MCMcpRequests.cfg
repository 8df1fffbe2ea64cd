SPECIFICATION Spec
CONSTANTS
  a1 = a1
  a2 = a2
  a3 = a3
  b1 = b1
  c1 = c1
  alice = alice
  bob = bob
  carol = carol
  Nobody = Nobody
  None = None
  Calls <- MCCalls
  RequesterOf <- MCRequesterOf
  MaxConcurrent = 2
  MaxQueued = 2
SYMMETRY Alike
INVARIANTS
  RequestsAreSound
  NobodyIsPassedForLong
CHECK_DEADLOCK FALSE
