SPECIFICATION TreeSpec
CONSTANTS
  Discoveries <- SomePackages
  FilterKeys <- ResultFilters
  PageSize = 2
INVARIANTS
  TreeInv
  ScopeIsSubtree
PROPERTY
  OnlyResultsHideSelection
CHECK_DEADLOCK FALSE
