SPECIFICATION Spec
CONSTANTS
  a1 = a1
  a2 = a2
  c1 = c1
  c2 = c2
  Accounts <- MCTwoAccounts
  Consumers <- MCTwoConsumers
  QueueSize = 2
  MaxHistory = 1
  MaxInFlight = 1
  MaxFaults = 0
  MaxNotices = 1
SYMMETRY ConsumerSymmetry
INVARIANTS
  SameKnowledge
  EndIsExplained
  NothingLeftBehind
  OneServerSubscription
CHECK_DEADLOCK FALSE
