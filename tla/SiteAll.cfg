SPECIFICATION FairSpec
CONSTANTS
  InOrder = FALSE
  MaxRows = 3
  MaxWire = 2
  open = open
  locked = locked
  hidden = hidden
  Files <- MCFiles
  Locked = {locked, hidden}
  Looks = {locked}
  Profiles = {"p1", "p2"}
  None = None
  MaxPicks = 2
  MaxSelects = 3
INVARIANTS
  ResultsBelong
PROPERTIES
  RunCoversList
  RunEnds
  FileAnalyzed
CHECK_DEADLOCK FALSE
