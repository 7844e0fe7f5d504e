CONSTANTS
  Stations = {"L1"}
  PartCount = 2
  Rows = 1
  LastStamp = 2
  Ids <- AllIds
  NoId <- NoneId
  TableSize = 2
  Hash <- OwnBuckets
  MaxOrders = 2
  LastZone = 1
  Timeout = 0
  ClockMod = 1
  PassTimes = {0}
  TornSaves = FALSE
  MayFail = {"tugger", "lines"}
SPECIFICATION DeliverySpec
INVARIANTS CursorVisible ReceivedIsKept
PROPERTY LedgerPromise
