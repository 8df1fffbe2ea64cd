SPECIFICATION FairSpec
CONSTANTS
  a = a
  b = b
  c = c
  heavy = heavy
  Ops <- MCOps
  Classes <- MCClasses
  ClassOf <- MCClassOf
  Concurrency <- MCConcurrency
  MaxQueue = 2
  MaxQueueOf <- MCMaxQueueOf
  DeadlineMs = 2
  NoDeadline = NoDeadline
  Untracked = Untracked
  LastArrival = 1
  MaxTime = 3
INVARIANTS
  EverybodyAgrees
PROPERTIES
  VerdictsStand
  EveryRequestEnds
CHECK_DEADLOCK FALSE
