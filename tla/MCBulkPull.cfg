CONSTANTS
  main = main
  linked = linked
  older = older
  Trees <- MCTrees
  Linked <- MCLinked
  Older = older
  Requests <- MCRequests
  DevSteps = 2
SPECIFICATION Spec
INVARIANTS
  WorkSurvives
  EditsComeHome
  DevRebaseSurvives
