SPECIFICATION FairSpec
CONSTANTS
  c1 = c1
  c2 = c2
  c3 = c3
  t1 = t1
  t2 = t2
  k1 = k1
  k2 = k2
  k3 = k3
  NoConn = NoConn
  Tuis <- OneTui
  Conns <- TwoConns
  Calls <- OneCall
  OverLimit <- OneCall
  HistoryLimit = 2
  LeaseTimeout = 1
  MaxFaults = 0
PROPERTIES
  EveryViewerGetsIn
CHECK_DEADLOCK FALSE
