CONSTANTS
  p1 = p1
  p2 = p2
  shrine = shrine
  path = path
  den = den
  wolf = wolf
  guard = guard
  snake = snake
  f1 = f1
  f2 = f2
  f3 = f3
  Players = {p1, p2}
  Npcs = {wolf, guard, snake}
  Rooms = {shrine, path, den}
  Fights = {f1, f2, f3}
  NoFight = NoFight
  Home <- MCHome
  Exits <- MCExits
  Slow <- MCSlow
  Safe = {shrine}
  Trapped = {den}
  Exposed = {path}
  Start = shrine
  Shrine = shrine
  Hostile = {wolf, snake}
  Fickle = {guard}
  Wary = {snake}
  Weather = {wolf}
  Moves <- MCMoves
  LiveMoves = FALSE
SPECIFICATION Spec
INVARIANTS  FightSides FightsInPlace BodiesLie NpcSomewhere OneRule
PROPERTIES SleepersAreLeftAlone
SYMMETRY Symmetry
