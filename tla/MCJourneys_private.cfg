SPECIFICATION Spec
CONSTANTS
  dock = dock
  town = town
  wilds = wilds
  island = island
  shrine = shrine
  start = start
  pass = pass
  ford = ford
  none = none
  Dock = dock
  Town = town
  Wilds = wilds
  Island = island
  Shrine = shrine
  Start = start
  Waypoints = {pass, ford}
  Paths <- MCPaths
  NoRoute = none
  Dangerous = {wilds}
  Exposed = {wilds}
  Delays = 2
  LateChanges = FALSE
INVARIANTS
  RideIsPrivate
