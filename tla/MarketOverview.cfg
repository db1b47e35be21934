SPECIFICATION FairSpec
CONSTANTS
  Markets = {"m1", "m2"}
  Listed = {"m1"}
  QueueSize = 1
  MaxBuffered = 1
  MaxChanges = 3
  MaxWire = 1
  MaxLosses = 1
  MaxCalls = 1
INVARIANTS
  RowsConverge
PROPERTIES
  ClosedEnds
CHECK_DEADLOCK FALSE
