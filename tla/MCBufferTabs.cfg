CONSTANTS
  f1 = f1
  f2 = f2
  f3 = f3
  Files = {f1, f2, f3}
  Session <- Opened
  NoFile = NoFile
  MaxBuffers = 4
  MaxAdded = 1
  MaxPanes = 2
  MaxClosed = 1
SPECIFICATION Spec
INVARIANTS
  PanesAgree
PROPERTIES
  CloseKeepsWhatPanesShow
  DragMovesOneTab
VIEW WithoutViews
CHECK_DEADLOCK FALSE
