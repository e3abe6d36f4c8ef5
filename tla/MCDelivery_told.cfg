SPECIFICATION Spec
CONSTANTS
  p1 = p1
  p2 = p2
  t1 = t1
  t2 = t2
  inn = inn
  lane = lane
  ford = ford
  docks = docks
  news = news
  Players = {p1}
  Tabs = {t1}
  Who <- OnePlayer
  Rooms = {inn, lane}
  Waypoints = {}
  Areas = {docks}
  AreasOf <- InDocks
  Chats = {}
  DefaultChats = {}
  StartRoom = inn
  Last <- AllNew
  Ambient = {inn}
  CapShared = 1
  CapPlayer = 100
  MaxLog = 12
  MaxSessions = 3
PROPERTIES
  ToldOfLoss
CHECK_DEADLOCK FALSE
