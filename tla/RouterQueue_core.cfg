CONSTANTS
  j1 = j1
  j2 = j2
  j3 = j3
  w1 = w1
  w2 = w2
  Jobs = {j1, j2, j3}
  Workers = {w1, w2}
  MaxQueue = 3
  Sentinel = Sentinel
  Waiting = Waiting
  Gone = Gone
  Abrupt = TRUE
  MaxStops = 2
SPECIFICATION FairSpec
INVARIANTS StoppedMeansServed WorkersSurvive
PROPERTIES DispatchedOnceAndWanted AcceptedAreHeard ShutdownReturns
CHECK_DEADLOCK FALSE
