CONSTANTS
  pro = pro
  flash = flash
  Members = {pro, flash}
  Rosters <- MCRosters
  Walks = {w1, w2}
  Kinds = {"rate", "transient"}
  Loaded = {2}
  MaxManagers = 2
  MaxTime = 2
  RateCooldown = 1
  AuthCooldown = 1
  CreditCooldown = 4
  MissingCooldown = 3
  PermanentCooldown = 9
  DailyWaits = {3}
  RetryAfters = {2}
  DailyFloor = 3
SPECIFICATION FairSpec
PROPERTIES RestsInService WalksEnd
CHECK_DEADLOCK FALSE
