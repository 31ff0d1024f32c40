CONSTANTS
  Regions = {all}
  Contents = {"a", "a_"}
  Clean <- CleanContent
  Format <- FormattedContent
  Windowed = FALSE
  ByteBudget = TRUE
  Cap = 3
  Least = 2
  MaxSeq = 4
  MaxWrites = 2
  MaxJobs = 1
SPECIFICATION Spec
VIEW WithoutFlags
INVARIANTS
  TypeOK
  TreeShape
  RestoresWhatItReached
  StatesHoldWhatTheyReached
  LastWriteStampIsOnDisk
PROPERTIES
  UndoReachesARealEdit
CHECK_DEADLOCK FALSE
