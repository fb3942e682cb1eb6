SPECIFICATION Spec
CONSTANTS
  Tests <- MCTests
  Projects <- MCProjects
  Expressions = {"test(fast)"}
  Top <- MCTop
  MacOS = TRUE
  MaxVaried = 2
INVARIANTS
  RequestInv
