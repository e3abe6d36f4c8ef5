SPECIFICATION FairSpec
CONSTANTS
  s1 = s1
  s2 = s2
  near = near
  far = far
  Sessions = {s1, s2}
  Fights = {near, far}
  Here = {near}
  MaxStep = 2
  MaxEvents = 2
  MaxNet = 1
INVARIANTS
  TypeOK
  NoneStranded
