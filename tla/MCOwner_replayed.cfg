SPECIFICATION Spec
CONSTANTS
  p1 = p1
  p2 = p2
  wolf = wolf
  bear = bear
  Players = {p1}
  Npcs = {wolf}
  Slots = {1}
  Filled = {1}
  Cooldown <- Quick
  Hits <- Single
  Kicking = {}
  Shield = FALSE
  Perks = {}
  Gap = 1
  GlobalCooldown = 0
  Buffer = 2
  StaggerSteps = 2
  ImmuneSteps = 1
  DodgeSteps = 1
  DodgeCooldown = 1
  WobbleSteps = 1
  BreathSteps = 1
  PerfectSteps = 0
  Attacks <- NoAttacks
  Bosses = {}
  FullMeter = 2
  KickPoise <- Kicks
  PerfectPoise = 1
  Decay = 1
  ReelSteps = 3
  Stunning = {}
  StunSteps = 1
  Drift <- OffRim
  Lead = 0
  REWIND_STEPS = 3
  MAX_CATCH_UP = 2
  Inputs <- Steering
  Typed <- Struck
  BeganPlayers = {p1}
  BeganNpcs = {wolf}
  Opening <- Unopened
  MaxStep = 6
  MaxInputs = 3
  MaxMoves = 0
INVARIANTS PressStrikesOnce
CHECK_DEADLOCK FALSE
