SPECIFICATION FairSpec
CONSTANTS
  a1 = a1  a2 = a2
  x = x  y = y
  p1 = p1  p2 = p2
  Unclaimed = Unclaimed
  Stranger = Stranger
  Processes = {a1, a2}
  Ids = {x}
  IdOf <- OneId
  Players = {p1}
  Lossy = TRUE
  MaxFights = 2
  MaxStops = 2
  MaxClaimStalls = 0
  MaxLeaseStalls = 1
INVARIANTS OneRunsEach
PROPERTIES EndedStops
