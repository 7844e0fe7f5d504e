CONSTANTS
  Stations = {"L1"}
  PartCount = 1
  Rows = 1
  LastStamp = 2
  Ids <- AllIds
  NoId <- NoneId
  TableSize = 2
  Hash <- OwnBuckets
  MaxOrders = 1
  LastZone = 1
  Timeout = 0
  ClockMod = 1
  PassTimes = {0}
  TornSaves = FALSE
  MayFail = {"tugger"}
SPECIFICATION FairDelivery
PROPERTY PendingIsReceived
