SPECIFICATION PersistenceSpec
CONSTANTS
  p1 = p1
  w1 = w1
  w2 = w2
  all = all
  profile = profile
  Processes = {p1}
  Workspaces = {w1, w2}
  Args = {all, profile}
  Values <- MCValues
  Unset = Unset
  WorkspaceOf <- MCOneWorkspace
  Manifests <- MCManifests
  Remembered <- MCSome
  Overlap = FALSE
  FlakyDisk = FALSE
  MaxRevision = 2
  MaxFaults = 1
  MinWidth = 1
  MaxWidth = 3
  DefaultWidth = 2
  Step = 1
  MaxInt = 4
  Themes = {auto, dark}
  DefaultTheme = auto
  Torn = Torn
  NoFile = NoFile
  MaxBatch = 3
  MaxChanges = 2
INVARIANTS
  SavedIsOnDisk
  SettingsAreKept
  WidthIsAsIntended
PROPERTIES
  SaveLeavesTheRest
  NeverTorn
  ReturnsAsChosen
  ChangesAreSaved
