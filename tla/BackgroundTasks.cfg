SPECIFICATION BackgroundSpec
CONSTANTS
  QueueCap = 2
  MaxScans = 3
  MaxCleans = 1
  None = None
  a = a
  b = b
  Processes <- MCProcesses
  Roots <- MCRoots
  ParentOf <- MCParentOf
  GroupOf <- MCGroupOf
  Tests = {a, b}
  TestOf <- MCTestOf
  MaxSampled = 2
  Nobody = Nobody
  MaxSamples = 2
INVARIANTS
  DiskInv
  ReportIsTrue
PROPERTIES
  ScanConcludes
  SampleConcludes
CHECK_DEADLOCK FALSE
