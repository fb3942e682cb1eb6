SPECIFICATION FairSpec
CONSTANTS
  Tests = {t1, t2}
INVARIANTS
  ScreenInv
  DiscoveryAndRunExclude
PROPERTY
  LeavingSucceeds
