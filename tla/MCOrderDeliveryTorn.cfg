CONSTANTS
  Stations = {"L1"}
  PartCount = 1
  Rows = 1
  LastStamp = 2
  Ids <- AllIds
  NoId <- NoneId
  TableSize = 2
  Hash <- OwnBuckets
  MaxOrders = 2
  LastZone = 1
  Timeout = 0
  ClockMod = 1
  PassTimes = {0}
  TornSaves = TRUE
  MayFail = {"tugger", "lines"}
SPECIFICATION DeliverySpec
INVARIANT ReceivedIsKept
