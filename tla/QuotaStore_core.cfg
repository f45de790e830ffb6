SPECIFICATION FairQuotaSpec
CONSTANTS
  m1 = m1
  Models = {m1}
  Backends = {"json", "mongo"}
  PruneDays = 0
  MaxDay = 1
  MaxSuccesses = 2
  MaxWrites = 2
  MaxStops = 1
INVARIANTS QuotaTypeOK CountsAreReal RestFitsQuota StoredWhenQuiet
PROPERTY ALullSuffices
CHECK_DEADLOCK FALSE
