CONSTANTS
  Nodes = {1, 2, 3, 4, 5}
  Ids = {1, 2}
  PagerZones = {1}
  Modes = {"tugger", "collector", "line"}
  MaxOrders = 2
  BoxSize = 2
  SeenSize = 2
  MaxRequests = 2
  MaxHops = 3
  Timeout = 0
  LastTick = 0
  Links <- RowLinks
  Roles <- RowRoles
  Zone <- OneZone
  Makes <- FirstMakes
  Beacons = {}
  Lossy = FALSE
  RadioKeeps = 10
SPECIFICATION MeshSpec
INVARIANT OrderSettles
CHECK_DEADLOCK FALSE
