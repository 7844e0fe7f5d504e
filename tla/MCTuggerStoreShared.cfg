CONSTANTS
  Ids = {"a", "b", "c"}
  NoId = ""
  TableSize = 4
  Hash <- SharedBuckets
  MaxOrders = 2
  LastZone = 2
  Timeout = 1
  ClockMod = 4
  PassTimes = {1}
  TornSaves = FALSE
SPECIFICATION Spec
INVARIANT NoDuplicateOrders
