CONSTANTS
  Requests = {r1, r2, r3}
  Rps = 2
  RpsWindow = 1
  Minute = 2
  LiveTTL = 2
  Quota = 2
  Unknown = Unknown
  LearnedCaps = {0, 2}
  MaxAttempts = 4
  MaxTime = 3
SPECIFICATION Spec
SYMMETRY Symmetry
INVARIANTS WindowHonoured CapNotAboveEvidence
PROPERTY InFlightWithinCap
