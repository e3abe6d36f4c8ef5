SPECIFICATION FairSpec
CONSTANTS
  c1 = c1
  c2 = c2
  home = home
  kes = kes
  red = red
  blue = blue
  mage = mage
  rogue = rogue
  t1 = t1
  Connections = {c1, c2}
  Names = {kes}
  Passwords = {red, blue}
  Choices = {mage, rogue}
  Addresses = {home}
  AddressOf <- AtHome
  Tokens = {t1}
  SIGNUPS = 1
  LOGIN_FAILURES_PER_ADDRESS = 2
  LOGIN_FAILURES_PER_ACCOUNT = 1
INVARIANTS
  TypeOK
  OneCharacter
