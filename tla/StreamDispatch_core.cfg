CONSTANTS
  pinned = pinned
  free = free
  a = a
  b = b
  Requests = {pinned, free}
  Models = {a, b}
  Nobody = Nobody
  NoModel = NoModel
  Named <- MCNamed
  FreeCascade = {pinned}
  Chatting = {a, b}
  Budget = 1
  Failures = {"transient", "cooling"}
  MaxEvents = 1
SPECIFICATION FairSpec
INVARIANTS TypeOK NoneLeftOut
PROPERTIES OneVoice StreamsEnd
CHECK_DEADLOCK FALSE
