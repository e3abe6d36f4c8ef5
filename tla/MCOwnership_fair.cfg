SPECIFICATION FairSpec
CONSTANTS
  a1 = a1  a2 = a2
  x = x  y = y
  p1 = p1  p2 = p2
  Unclaimed = Unclaimed
  Stranger = Stranger
  Processes = {a1, a2}
  Ids = {x, y}
  IdOf <- TwoIds
  Players = {p1, p2}
  Lossy = FALSE
  MaxFights = 1
  MaxStops = 1
  MaxClaimStalls = 1
  MaxLeaseStalls = 1
INVARIANTS FightsAgree FoundLostStaysLost InStep
PROPERTIES EveryoneIsSimulated
