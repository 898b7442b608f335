CONSTANTS
  Requests <- MCRequests
  Attempts = 2
  DevSteps = 5
SPECIFICATION FairSpec
INVARIANTS
  LocalCommitsSurvive
  SuccessIsCurrent
PROPERTIES
  ActionSettles
