SPECIFICATION PanelSpec
CONSTANTS
  Manifests = {m1}
  Broken = Broken
  None = None
  Chunks = 2
  PipeCap = 1
  ChannelCap = 1
  QueueCap = 1
  MaxLoads = 2
  MaxRuns = 2
  MaxEdits = 1
  Words <- MCWords
  Dashed <- MCDashed
  MinInt <- MCMinInt
  MaxInt = 2
  Choices <- MCChoices
INVARIANTS
  PanelInv
  ConcludedIsComplete
PROPERTIES
  RunConcludes
CHECK_DEADLOCK FALSE
