SPECIFICATION DeliveryFairSpec
CONSTANTS
  QueueSize = 1
  MaxVersion = 0
  MaxSnapshots = 2
INVARIANTS
  RecheckScheduled
PROPERTIES
  NoObsoleteRecheck
  RecheckHappens
  ChannelEnds
CHECK_DEADLOCK FALSE
