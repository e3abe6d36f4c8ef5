SPECIFICATION Spec
CONSTANTS
  a1 = a1  a2 = a2
  x = x  y = y
  p1 = p1  p2 = p2
  Unclaimed = Unclaimed
  Stranger = Stranger
  Processes = {a1, a2}
  Ids = {x}
  IdOf <- OneId
  Players = {p1}
  Lossy = FALSE
  MaxFights = 1
  MaxStops = 0
  MaxClaimStalls = 1
  MaxLeaseStalls = 0
INVARIANTS OneRunsEach
