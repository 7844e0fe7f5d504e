CONSTANTS
  Ids = {"a", "b"}
  NoId = ""
  TableSize = 2
  Hash <- OwnBuckets
  MaxOrders = 2
  LastZone = 1
  Timeout = 2
  ClockMod = 5
  PassTimes = {0, 1, 2}
  TornSaves = FALSE
SPECIFICATION OneBootSpec
INVARIANT LateExactly
CHECK_DEADLOCK FALSE
