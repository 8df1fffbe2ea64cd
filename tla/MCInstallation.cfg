SPECIFICATION Spec
CONSTANTS
  MaxBuilds = 3
  MaxRollbacks = 2
  MaxFaults = 2
  MaxCrashes = 1
  Layouts = {"single", "split"}
INVARIANTS
  RollbackRestoresOneBuild
CHECK_DEADLOCK FALSE
