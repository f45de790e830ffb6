CONSTANTS
  Models = {m1, m2}
  NoModel = NoModel
  MaxInflight = 2
  HealthTTL = 1
  MaxTime = 2
  Failures = {"rate"}
  MaxPolls = 0
  Operators = {"reload"}
  RateCooldown = 1
  AuthCooldown = 1
  CreditCooldown = 4
  MissingCooldown = 3
  PermanentCooldown = 9
  DailyWaits = {3}
  RetryAfters = {2}
  DailyFloor = 3
SPECIFICATION FairSpec
INVARIANT CooldownHonoured
PROPERTY DueIsServed
