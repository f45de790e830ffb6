CONSTANTS
  chat = chat
  pinned = pinned
  embed = embed
  m1 = m1
  m2 = m2
  Requests = {chat}
  Models = {m1, m2}
  Nobody = Nobody
  NoModel = NoModel
  Embeds = {}
  FreeCascade = {}
  Named <- MCNamed
  Capable <- MCCapable
  Paid = {m2}
  AllowPaid = FALSE
  Budget = 1
  Failures = {"cooling"}
  MaxEvents = 1
SPECIFICATION Spec
INVARIANT NeverSpins
CHECK_DEADLOCK FALSE
