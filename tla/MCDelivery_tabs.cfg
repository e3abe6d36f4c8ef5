SPECIFICATION FairSpec
CONSTANTS
  p1 = p1
  p2 = p2
  t1 = t1
  t2 = t2
  inn = inn
  lane = lane
  ford = ford
  docks = docks
  news = news
  Players = {p1}
  Tabs = {t1, t2}
  Who <- OnePlayer
  Rooms = {inn, lane}
  Waypoints = {}
  Areas = {}
  AreasOf <- NoAreas
  Chats = {}
  DefaultChats = {}
  StartRoom = inn
  Last <- AllNew
  Ambient = {inn}
  CapShared = 100
  CapPlayer = 100
  MaxLog = 8
  MaxSessions = 3
INVARIANTS
  EndIsComing
  StaysUntilAsked
PROPERTIES
  ImplementsHearing
  EverythingArrives
CHECK_DEADLOCK FALSE
