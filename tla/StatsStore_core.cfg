SPECIFICATION StatsSpec
CONSTANTS
  c1 = c1
  c2 = c2
  m1 = m1
  m2 = m2
  vendor = vendor
  app = app
  watch = watch
  Calls = {c1, c2}
  Models = {m1, m2}
  Providers = {vendor}
  Capabilities = {"chat"}
  Notes = {app}
  ProviderOf <- MCProviderOf
  CapabilityOf <- MCCapabilityOf
  Call <- MCCall
  Outcomes <- MCOutcomes
  RetireWatch = watch
  Day = 2
  HourRange = 1
  DayRange = 2
  FailureRange = 2
  TotalsLength = 4
  HoursLength = 4
  DaysLength = 4
  FailuresLength = 1
  Instants = {1, 4}
  Followed <- MCFollowed
  MaxFaults = 1
INVARIANTS StatsTypeOK ViewsAgree NeverAhead PagesAddUp PeakIsKept
CHECK_DEADLOCK FALSE
