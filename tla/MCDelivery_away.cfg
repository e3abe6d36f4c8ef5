SPECIFICATION Spec
CONSTANTS
  p1 = p1
  p2 = p2
  t1 = t1
  t2 = t2
  inn = inn
  lane = lane
  ford = ford
  docks = docks
  news = news
  Players = {p1}
  Tabs = {t1}
  Who <- OnePlayer
  Rooms = {inn}
  Waypoints = {}
  Areas = {}
  AreasOf <- NoAreas
  Chats = {news}
  DefaultChats = {news}
  StartRoom = inn
  Last <- AllNew
  Ambient = {news}
  CapShared = 100
  CapPlayer = 100
  MaxLog = 11
  MaxSessions = 3
INVARIANTS
  NothingFromTimeAway
CHECK_DEADLOCK FALSE
