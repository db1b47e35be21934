SPECIFICATION SigningFairSpec
CONSTANTS
  t1 = t1
  t2 = t2
  k1 = k1
  k2 = k2
  Tasks <- MCTwoTasks
  Keys <- MCKeys
  NoTask = NoTask
  Skew = 1
  Backpressure = 1
  TopTime = 3
  MaxTime = 2
  MaxCalls = 2
INVARIANTS
  Increasing
  LeadIsBounded
PROPERTIES
  CallsReturn
CHECK_DEADLOCK FALSE
