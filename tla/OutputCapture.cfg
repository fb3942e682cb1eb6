SPECIFICATION Spec
CONSTANTS
  A = A
  B = B
  Runner = Runner
  None = None
  Tests = {A, B}
  Failings <- OneMayFail
  MaxChunks = 2
  MaxPrinted = 2
  Frames = {2}
  MaxPolls = 1
INVARIANTS
  OutputInv
  EventsOnce
CHECK_DEADLOCK FALSE
