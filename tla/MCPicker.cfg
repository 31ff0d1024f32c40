CONSTANTS
  top = top
  sub = sub
  Folders = {top, sub}
  Parent <- MCParent
  Queries = {blank, q1}
  Blank = blank
  NoListing = NoListing
SPECIFICATION PickerFairSpec
INVARIANTS
  EnterOpensWhatIsAsked
  ScanningIsForThisRoot
PROPERTIES
  PickerSettles
