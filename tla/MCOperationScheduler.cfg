SPECIFICATION FairSpec
CONSTANTS
  h1 = h1
  h2 = h2
  h3 = h3
  h4 = h4
  heavy = heavy
  light = light
  NoDeadline = NoDeadline
  None = None
  Classes <- MCClasses
  ClassOf <- MCClassOf
  Concurrency <- MCConcurrency
  MaxQueue = 2
  Deadlines <- MCDeadlines
  MaxTime = 1
  Ops <- MCOps
  MaxQueueOf <- MCMaxQueueOf
INVARIANTS
  Bookkeeping
PROPERTIES
  VerdictsAndPlacesStand
  ImplementsAdmission
  DeadlineBoundsWaiting
  NobodyStarves
CHECK_DEADLOCK FALSE
