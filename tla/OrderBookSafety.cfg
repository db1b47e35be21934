SPECIFICATION DisplaySpec
CONSTANTS
  Prices = {1, 3, 4}
  MaxQty = 1
  Spare <- OneBid
  TopSeq = 2
  Ticks = {0, 3}
  Depth = 2
  MaxI64 = 5
INVARIANTS
  BookIsTheServers
  NothingSkipped
  ViewIsExecutable
PROPERTIES
  NeverRewinds
