CONSTANTS
  r1 = r1
  r2 = r2
  Targets <- MCTargets
  Parallel = 2
  Calls <- RealCalls
  MaxRuns = 2
  DiskFails = TRUE
SPECIFICATION FairSessions
INVARIANTS
  ResumeKeepsTheUnsynced
  AllDoneMeansAllShown
  CleanExitMeansSynced
PROPERTIES
  UnfilteredInvocationEnds
