------------------------------ MODULE Cooldowns ------------------------------
(***************************************************************************)
(* The failure kinds of llmcascade/cascade.py and the instant until which  *)
(* a failure of each kind keeps a model out: cooldown_until.  Instants are  *)
(* natural numbers; every duration of the code is a constant.              *)
(***************************************************************************)
EXTENDS Naturals

CONSTANTS
  RateCooldown,       \* RATE_COOLDOWN, RATE_RETRY: 60 s
  AuthCooldown,       \* AUTH_COOLDOWN, AUTH_RETRY: 30 s
  CreditCooldown,     \* CREDIT_COOLDOWN: 24 h
  MissingCooldown,    \* MISSING_COOLDOWN: 1 h
  PermanentCooldown,  \* PERMANENT_COOLDOWN, GONE_RETRY: 365 days
  DailyWaits,         \* the distances there can be to the provider's next midnight
  RetryAfters,        \* the delays a reset header can announce
  DailyFloor          \* a daily reset header below this (30 min) is ignored

ASSUME CooldownsAssumption ==
  /\ {RateCooldown, AuthCooldown, CreditCooldown, MissingCooldown,
      PermanentCooldown, DailyFloor} \subseteq Nat \ {0}
  /\ DailyWaits \subseteq Nat \ {0}
  /\ RetryAfters \subseteq Nat \ {0}

FailureKinds == {"rate", "daily", "credit", "auth", "permanent", "missing", "transient"}

\* Zero stands for a response with no usable reset header (parse_reset_at
\* returned None or an instant that is not in the future).
ResetDelays == {0} \cup RetryAfters

\* The instants cooldown_until(kind) may return at time now when the headers
\* announce a reset after `delay`: none for a transient failure, and one per
\* possible distance to midnight for a daily one.
CooldownUntil(kind, now, delay) ==
  CASE kind = "transient" -> {}
    [] kind = "rate"      -> {now + (IF delay > 0 THEN delay ELSE RateCooldown)}
    [] kind = "credit"    -> {now + CreditCooldown}
    [] kind = "auth"      -> {now + (IF delay > 0 THEN delay ELSE AuthCooldown)}
    [] kind = "permanent" -> {now + PermanentCooldown}
    [] kind = "missing"   -> {now + MissingCooldown}
    [] kind = "daily"     -> IF delay >= DailyFloor
                             THEN {now + delay}
                             ELSE {now + wait : wait \in DailyWaits}
==============================================================================
