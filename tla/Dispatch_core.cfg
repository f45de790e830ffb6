CONSTANTS
  chat = chat
  pinned = pinned
  embed = embed
  m1 = m1
  m2 = m2
  Requests = {pinned, embed}
  Models = {m1, m2}
  Nobody = Nobody
  NoModel = NoModel
  Embeds = {embed}
  FreeCascade = {pinned, embed}
  Named <- MCNamed
  Capable <- MCCapable
  Paid = {m2}
  AllowPaid = FALSE
  Budget = 1
  Failures = {"transient", "cooling"}
  MaxEvents = 1
SPECIFICATION FairSpec
INVARIANTS CalledAtMostTwice CallsOnlyAskedFor
PROPERTY RequestsFinish
CHECK_DEADLOCK FALSE
