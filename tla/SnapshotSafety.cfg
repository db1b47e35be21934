SPECIFICATION FairSpec
CONSTANTS
  Run = Run
  w1 = w1
  w2 = w2
  c1 = c1
  c2 = c2
  Workers <- MCWorkers
  Starter = c1
  NoTask = NoTask
  MaxBuffered = 1
  MaxAttempts = 2
  Callers <- MCTwoCallers
  MaxSeq = 2
  MaxCalls = 1
  MaxFaults = 1
INVARIANTS
  OneWorker
  ServingIsComplete
PROPERTIES
  FollowsTheLog
  Stops
CHECK_DEADLOCK FALSE
