SPECIFICATION PaneSpec
CONSTANTS
  Absent = Absent
  NoQuery = NoQuery
  Invalid = Invalid
  Q = Q
  R = R
  Queries = {Q, R}
  Live <- MCLive
  Other <- MCOther
  Failure <- MCFailure
  Report <- MCReport
  Empty <- MCEmpty
  Marker <- MCMarker
  NoMatch <- MCNoMatch
  Limit = 3
  Pages = {1, 3}
  Widths = {3, 5}
PROPERTIES
  PaneShows
  ReaderStays
  NextMissesNone
CHECK_DEADLOCK FALSE
