SPECIFICATION FairSpec
CONSTANTS
  a = a
  b = b
  c = c
  heavy = heavy
  Ops <- CancelOps
  Classes <- MCClasses
  ClassOf <- MCClassOf
  Concurrency <- MCConcurrency
  MaxQueue = 2
  MaxQueueOf <- MCMaxQueueOf
  DeadlineMs = 2
  NoDeadline = NoDeadline
  Untracked = Untracked
  LastArrival = 0
  MaxTime = 2
PROPERTIES
  CancellationFreesTheSlot
CHECK_DEADLOCK FALSE
