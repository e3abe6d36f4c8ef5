SPECIFICATION Spec
CONSTANTS
  p1 = p1
  p2 = p2
  t1 = t1
  t2 = t2
  inn = inn
  lane = lane
  ford = ford
  docks = docks
  news = news
  Players = {p1, p2}
  Tabs = {t1, t2}
  Who <- OneTabEach
  Rooms = {inn, ford}
  Waypoints = {ford}
  Areas = {docks}
  AreasOf <- InDocks
  Chats = {news}
  DefaultChats = {news}
  StartRoom = inn
  Last <- OneAboard
  Ambient = {}
  CapShared = 1
  CapPlayer = 100
  MaxLog = 10
  MaxSessions = 3
INVARIANTS
  SubsMatchPlace
  ViewExact
PROPERTIES
  ResumesWithoutHole
CHECK_DEADLOCK FALSE
