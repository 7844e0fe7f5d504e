CONSTANTS
  Ids = {"a", "b", "c"}
  NoId = ""
  TableSize = 4
  Hash <- OwnBuckets
  MaxOrders = 2
  LastZone = 2
  Timeout = 1
  ClockMod = 4
  PassTimes = {1}
  TornSaves = FALSE
SPECIFICATION FairSpec
INVARIANTS TypeOK RingWindow NvsInSync NoDuplicateOrders AckedIsQueued
PROPERTIES QueuePromise QueueDrains LateIsSeen
