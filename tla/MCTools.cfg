SPECIFICATION ToolsSpec
CONSTANTS
  MaxSessions = 2
  Pids = {p1, p2}
  MaxConcurrent = 1
  MaxRetained = 1
  Ttl = 1
  MaxTime = 2
  Calls = {c1}
  Nobody = Nobody
  w1 = w1
  w2 = w2
  e1 = e1
  a1 = a1
  m1 = m1
  Base = Base
  NoFile = NoFile
  Rest = Rest
  MaxOutput = 4
  Texts <- OutputTexts
  MaxWritten = 10
  Tree <- FoundIn
  Named <- BothNamed
  Contexts <- NoneOrOne
  Limits <- NoneSomeAll
  PageSizes <- OneOrTwo
  Writes <- TwoWrites
  BlockEdits <- OneEdit
  Expecting <- OneEdit
  Appends <- OneAppend
  Moves <- OneMove
  MaxMs = 1
  ItemSizes <- FourItems
  Takes <- OneOrTwo
  MaxUrlBytes = 6
  MaxRemovals = 1
  MaxInsertions = 1
  FrameSizes <- SomeFrames
  MaxFrameBytes = 3
  MaxFrames = 3
INVARIANTS
  TableIsSound
  AnswersItsProcess
  BufferIsSound
  ResultsAreSound
  TargetIsMeant
  PagesAreTrue
  ChunksDoNotMatter
PROPERTIES
  RetainedAsPromised
  TerminationEnds
  OnlyAFullPipeHolds
  StoppedIsFinal
  SearchesEnd
CHECK_DEADLOCK FALSE
