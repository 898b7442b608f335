CONSTANTS
  More <- MCMore
  OtherSteps = 3
SPECIFICATION Spec
INVARIANTS
  TaskWorkSurvives
  LandedWasReady
  ExitZeroMeansReclaimed
PROPERTIES
  ReclaimsOnlyTheLanded
