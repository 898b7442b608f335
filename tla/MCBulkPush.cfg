CONSTANTS
  origin = origin
  backup = backup
  root = root
  mine1 = mine1
  mine2 = mine2
  foreign1 = foreign1
  hand1 = hand1
  Remotes <- MCRemotes
  Origin = origin
  Root = root
  Mine <- MCMine
  Foreign <- MCForeign
  Unsigned <- MCUnsigned
  Requests <- MCRequests
  MaxRuns = 2
  OtherSteps = 3
SPECIFICATION Spec
INVARIANTS
  UnfetchedWorkSurvives
  ForeignWorkSurvives
  SuccessMeansEverywhere
