SPECIFICATION BalanceSpec
CONSTANTS
  wolf = wolf
  crow = crow
  Targets = {wolf}
  Slots = {1, 2}
  Filled = {1, 2}
  Cooldown <- Cooldowns
  Hits <- HitsOf
  Kicking = {1}
  Shield = TRUE
  Perks = {"long_breath", "second_wind", "steady_hands"}
  Gap = 2
  GlobalCooldown = 1
  Buffer = 1
  StaggerSteps = 1
  ImmuneSteps = 2
  DodgeSteps = 1
  DodgeCooldown = 2
  WobbleSteps = 2
  BreathSteps = 2
  PerfectSteps = 0
  Given <- ActOrBlow
  Goes = {"perfect", "wide", "out", "rim"}
  Horizon = 6
  MaxSteps = 5
INVARIANTS
  CooldownKept
  ImmuneAfterStagger
  VolleysLand
  CopyFollows
CHECK_DEADLOCK FALSE
