SPECIFICATION Spec
CONSTANTS
  a1 = a1
  a2 = a2
  c1 = c1
  c2 = c2
  Accounts <- MCOneAccount
  Consumers <- MCOneConsumer
  QueueSize = 3
  MaxHistory = 2
  MaxInFlight = 2
  MaxFaults = 1
  MaxNotices = 2
INVARIANTS
  ViewsAreWhole
  NeverForgotten
  ReadyIsCurrent
CHECK_DEADLOCK FALSE
