SPECIFICATION Spec
CONSTANTS
  home = home
  glade = glade
  isle = isle
  ford = ford
  one = one
  two = two
  three = three
  NoRoom = NoRoom
  Done = Done
  Rooms = {home, glade, isle, ford}
  Waypoints = {ford}
  Steps = {one, two, three}
  Seeds <- MCSeeds
  Careless = FALSE
INVARIANTS
  NeverTrapped
  QuestsEnd
CHECK_DEADLOCK FALSE
