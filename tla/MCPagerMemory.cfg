CONSTANTS
  a = a
  b = b
  c = c
  Nodes = {"p"}
  PagerZones = {1}
  Modes = {"tugger", "line"}
  Ids = {a, b, c}
  MaxOrders = 2
  BoxSize = 1
  SeenSize = 2
  MaxRequests = 1
  MaxHops = 0
  Timeout = 0
  LastTick = 1
  HeardZones = {0, 1}
SYMMETRY IdSymmetry
SPECIFICATION MemorySpec
INVARIANTS PagerTypeOK ListsDistinct BoxHasList BoxForgetsCleared
PROPERTY ListedOncePerBoot
