SPECIFICATION FairSpec
CONSTANTS
  RunCap = 1
  QueueCap = 1
  BatchCap = 1
  MaxGroups = 2
  MaxLines = 1
  MaxKeys = 2
INVARIANTS
  TerminalComesLast
  SomeoneConcludes
  ExitAwaitsRun
PROPERTIES
  RunsDoNotOverlap
  ImplementsLifecycle
  StopTakesEffect
  QuitCompletes
