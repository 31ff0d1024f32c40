CONSTANTS
  source = source
  notes = notes
  Files = {source, notes}
  Formatted = {source}
  NoText = NoText
  MaxEdits = 2
  MaxCommands = 6
  MaxBuffers = 3
  MaxJobs = 2
  MaxClosed = 1
SPECIFICATION Spec
INVARIANTS
  NothingTypedIsLost
  CleanMeansSavedIfPlain
PROPERTIES
  LandingKeepsOtherFiles
VIEW Unordered
CHECK_DEADLOCK FALSE
