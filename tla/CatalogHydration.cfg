SPECIFICATION CatalogFairSpec
CONSTANTS
  Background = b
  Tasks = {b, t1, t2}
  NoTask = NoTask
  MaxVersion = 2
  MaxCalls = 3
INVARIANTS
  OkMeansReady
  FailureIsExplained
PROPERTIES
  NeverOlder
  CallsReturn
CHECK_DEADLOCK FALSE
