CONSTANTS
  Workspaces = {w1, w2}
  Launched = w1
  Dot = dot
  Texts = {t1, t2}
  Clean = Clean
  Unread = Unread
  Nothing = Nothing
  Other = Other
  MaxEdits = 1
  MaxFormatters = 1
SPECIFICATION FairSpec
VIEW WhileAlive
INVARIANTS
  OneScanAtATime
  FindingsOfThisWorkspace
PROPERTIES
  FindingsCatchUp
  IndexCatchesUp
CHECK_DEADLOCK FALSE
