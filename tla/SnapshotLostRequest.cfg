SPECIFICATION Spec
CONSTANTS
  Run = Run
  w1 = w1
  w2 = w2
  c1 = c1
  c2 = c2
  Workers <- MCWorkers
  Starter = c1
  NoTask = NoTask
  MaxBuffered = 1
  MaxAttempts = 2
  Callers <- MCTwoCallers
  MaxSeq = 1
  MaxCalls = 2
  MaxFaults = 0
SYMMETRY WorkerSymmetry
INVARIANTS
  RequestsAreServed
CHECK_DEADLOCK FALSE
