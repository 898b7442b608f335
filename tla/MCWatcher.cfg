SPECIFICATION Spec
CONSTANTS
  Repos = {"repo", "repo2"}
  Matching <- MCMatching
  Statuses <- MCStatuses
  Branches <- MCBranches
  NoBranch = ""
  None = None
  IncludeClean = TRUE
  EventCap = 1
  ErrorCap = 1
  MaxChanges = 2
PROPERTIES
  ReaderCatchesUp
  StopReturns
CHECK_DEADLOCK FALSE
