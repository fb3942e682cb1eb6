SPECIFICATION ResultsSpec
CONSTANTS
  Tests <- FourTests
  Targets <- ThreeTargets
  TargetOf <- TargetOfFour
  Flagged <- AllButTheMacro
  Packages <- TwoPackages
  PackageOf <- PackageOfThree
  Ignored <- FourthIgnored
  Paths <- OneModule
  Below <- BelowIt
  NameIn <- Names
  MaxRuns = 2
  Characters <- MCCharacters
  Wide = {"w"}
  Newline = "/"
  Limit = 7
  Marker <- MCMarker
  Summary <- MCSummary
  Texts <- MCTexts
  Printers = {1}
  MaxArrivals <- MCArrivals
  MaxLines = 3
  Drained = 2
  Threads = {t1, t2}
  Sizes = {1, 2}
  MaxRunLogs = 2
  MaxLogged = 2
  MaxBytes = 3
  None = None
  MaxEventRuns = 3
  MaxEmitted = 3
INVARIANTS
  RunInv
  OnlyScopeRuns
  VerdictIsTrue
  OutputIsTail
  LogsInv
SYMMETRY MCSymmetry
CHECK_DEADLOCK FALSE
