CONSTANTS
  w1 = w1
  w2 = w2
  Plans <- MCPlans
  Workers <- MCWorkers
  Attempts = 2
SPECIFICATION FairSpec
INVARIANTS
  EachActionOnce
  SinkHearsEachActionOnce
PROPERTIES
  ImplementsSyncRun
  ExecuteReturns
