SPECIFICATION AutomationSpec
CONSTANTS
  s1 = s1
  s2 = s2
  s3 = s3
  v1 = v1
  v2 = v2
  mac = mac
  linux = linux
  Sources = {s1, s2, s3}
  Versions = {v1, v2}
  VersionOf <- MCVersionOf
  Targets = {mac, linux}
  FormulaTargets = {mac, linux}
  Nothing = Nothing
  Torn = Torn
  MaxCommands = 3
  MaxChanges = 2
INVARIANTS
  ArtifactsInv
  SuccessIsTrue
SYMMETRY Alike
CHECK_DEADLOCK FALSE
