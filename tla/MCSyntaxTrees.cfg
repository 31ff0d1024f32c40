CONSTANTS
  long = long
  short = short
  Files = {long, short}
  Scratch = Scratch
  Lang <- MCLang
  Big = {long}
  Shipped = {"lua"}
  Texts = {empty, t1}
  Empty = empty
  None = None
  Garbage = Garbage
  Budget = 1
  MaxBuffers = 2
  MaxPanes = 2
  MaxJobs = 2
  Hasty = FALSE
  MayFail = TRUE
SPECIFICATION Spec
INVARIANTS
  InSyncMeansMatching
  RepairStartsFromTheTree
PROPERTIES
  OnlyMovesStrand
