SPECIFICATION Spec
CONSTANTS
  p1 = p1
  p2 = p2
  wolf = wolf
  bear = bear
  Players = {p1, p2}
  Npcs = {wolf, bear}
  Slots = {1}
  Filled = {1}
  Cooldown <- Quick
  Hits <- Single
  Kicking = {}
  Shield = TRUE
  Perks = {}
  Gap = 1
  GlobalCooldown = 0
  Buffer = 2
  StaggerSteps = 2
  ImmuneSteps = 1
  DodgeSteps = 1
  DodgeCooldown = 1
  WobbleSteps = 1
  BreathSteps = 1
  PerfectSteps = 0
  Attacks <- Biting
  Bosses = {wolf}
  FullMeter = 2
  KickPoise <- Kicks
  PerfectPoise = 1
  Decay = 1
  ReelSteps = 3
  Stunning = {1}
  StunSteps = 1
  Drift <- NearRim
  Lead = 0
  REWIND_STEPS = 3
  MAX_CATCH_UP = 1
  Inputs <- Everything
  Typed <- Said
  BeganPlayers = {p1, p2}
  BeganNpcs = {wolf}
  Opening <- Unopened
  MaxStep = 4
  MaxInputs = 2
  MaxMoves = 1
INVARIANTS
  ActsOnce
  WindowFixed
  MembersKnown
PROPERTIES
  BlowsPaced
CHECK_DEADLOCK FALSE
