SPECIFICATION ServiceSpec
CONSTANTS
  NormalDelays <- TwoNormalDelays
  DegradedAfter = 3
  DegradedDelay = 4
  HealthyReset = 3
  LongestDelay = 4
  MaxGeneration = 6
  k1 = k1
  k2 = k2
  k3 = k3
  r1 = r1
  r2 = r2
  w1 = w1
  w2 = w2
  cmd1 = cmd1
  cmd2 = cmd2
  NoCall = NoCall
  MaxBuilds = 3
  MaxRollbacks = 2
  MaxFailedRenames = 1
  MaxKills = 1
  Layouts <- BothLayouts
  Commands <- TwoCommands
  MaxPromotions = 2
  Platforms <- BothPlatforms
  Repairs <- TwoRepairs
  MaxRestarts = 2
  Window = 4
  Cooldown = 1
  HealthyAfter = 2
  MaxTime = 6
  MaxChanges = 2
  MaxMishaps = 1
  Settings <- TwoSettings
  Records <- OneRecord
  Reads <- OneRead
  Keys <- TwoKeys
  KeyOf <- KeyOfSetting
  MaxCalls = 2
  MaxDeaths = 1
  Default = "default"
  Calls <- ThreeCalls
  HistoryLimit = 2
  CompactAt = 3
  MaxFailures = 2
  Writers <- TwoWriters
  FileCount = 3
  MaxBytes = 2
  LineSizes <- TwoSizes
  MaxLines = 5
  Matching <- TwoOfThree
  MaxReconnects = 1
INVARIANTS
  StateAndRetriesAgree
  InstallationIsSound
  RestartsAreBudgeted
  MemoryIsOnItsWay
  FileIsSound
  LogKeepsTheNewest
PROPERTIES
  BackoffHonoured
  NeverGivesUp
  FailureChangesNothing
  StopHolds
  UpdatesAreGated
  SettingsArePreserved
  LoadsForward
  SelectionIsTheUsers
CHECK_DEADLOCK FALSE
