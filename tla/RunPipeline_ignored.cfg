SPECIFICATION Spec
CONSTANTS
  RunCap = 1
  QueueCap = 1
  BatchCap = 1
  MaxGroups = 1
  MaxLines = 0
  MaxKeys = 2
PROPERTIES
  IgnoredRequestKeepsRun
