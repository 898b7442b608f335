CONSTANTS
  r1 = r1
  r2 = r2
  Targets <- MCTargets
  Parallel = 2
  Calls <- TUIResumes
  MaxRuns = 2
  DiskFails = FALSE
SPECIFICATION FairSessions
PROPERTIES
  InvocationEnds
