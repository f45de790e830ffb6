CONSTANTS
  Models = {m1}
  NoModel = NoModel
  MaxInflight = 2
  HealthTTL = 1
  MaxTime = 4
  Failures = {"rate", "daily", "credit", "auth", "permanent", "missing", "transient"}
  MaxPolls = 2
  Operators = {"test"}
  RateCooldown = 2
  AuthCooldown = 1
  CreditCooldown = 4
  MissingCooldown = 3
  PermanentCooldown = 9
  DailyWaits = {3}
  RetryAfters = {1}
  DailyFloor = 3
SPECIFICATION Spec
PROPERTY ImplementsPromise
