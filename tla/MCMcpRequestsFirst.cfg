SPECIFICATION FairSpec
CONSTANTS
  a1 = a1
  a2 = a2
  a3 = a3
  b1 = b1
  c1 = c1
  alice = alice
  bob = bob
  carol = carol
  Nobody = Nobody
  None = None
  Calls <- FirstCalls
  RequesterOf <- MCRequesterOf
  MaxConcurrent = 2
  MaxQueued = 2
PROPERTIES
  EveryCallEnds
CHECK_DEADLOCK FALSE
