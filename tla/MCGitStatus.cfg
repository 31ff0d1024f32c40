CONSTANTS
  Roots = {w1, w2}
  Statuses = {clean, dirty, staged}
  Empty = clean
  NoRepo = NoRepo
  None = None
  MayFail = TRUE
SPECIFICATION GitFairSpec
INVARIANTS
  SnapshotIsOfTheShown
PROPERTIES
  StatusCatchesUp
CHECK_DEADLOCK FALSE
