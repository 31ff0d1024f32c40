SPECIFICATION Spec
CONSTANTS
  Chars = {x}
  NL = NL
  MaxLen = 2
  MaxMarks = 2
  MaxId = 1
  Positions <- FewPlaces
  Gravities = {TRUE, FALSE}
  Hasty = FALSE
  Logs = FALSE
  None = None
  Astray = Astray
INVARIANTS
  InTheirText
  AnchorsComeBack
  OrderIsKept
