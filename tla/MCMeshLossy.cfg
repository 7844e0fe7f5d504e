CONSTANTS
  Nodes = {1, 2, 3}
  Ids = {1}
  PagerZones = {1}
  Modes = {"tugger", "collector", "line"}
  MaxOrders = 2
  BoxSize = 2
  SeenSize = 1
  MaxRequests = 2
  MaxHops = 2
  Timeout = 0
  LastTick = 0
  Links <- AllLinks
  Roles <- RowRoles
  Zone <- OneZone
  Makes <- FirstMakes
  Beacons = {1}
  Lossy = TRUE
  RadioKeeps = 1
SPECIFICATION FairMesh
INVARIANTS RelayedOnce AckIsTrue
PROPERTY AirFallsQuiet
CHECK_DEADLOCK FALSE
