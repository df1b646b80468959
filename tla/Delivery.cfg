SPECIFICATION Spec
CONSTANTS
  MaxReads = 2
  MaxBoards = 2
  MaxCommits = 2
  MaxFaults = 1
CHECK_DEADLOCK FALSE
INVARIANTS
  NothingOverlooked
PROPERTIES
  ScreenCatchesUp
  RefinesMirror
