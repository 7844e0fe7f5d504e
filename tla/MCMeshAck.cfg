CONSTANTS
  Nodes = {1, 2, 3}
  Ids = {1}
  PagerZones = {1}
  Modes = {"tugger", "collector", "line"}
  MaxOrders = 2
  BoxSize = 2
  SeenSize = 1
  MaxRequests = 2
  MaxHops = 3
  Timeout = 0
  LastTick = 0
  Links <- RowLinks
  Roles <- RowRoles
  Zone <- OneZone
  Makes <- FirstMakes
  Beacons = {}
  Lossy = FALSE
  RadioKeeps = 10
SPECIFICATION MeshSpec
INVARIANT LineLearns
CHECK_DEADLOCK FALSE
