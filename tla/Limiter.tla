------------------------------- MODULE Limiter -------------------------------
(***************************************************************************)
(* llmcascade/rate_limiter.py for one model, with the learned requests per   *)
(* minute of quota_learn.py: what lets a request through (try_reserve), and   *)
(* what its answer changes (succeed and fail of dispatch_with_fallback).      *)
(*                                                                         *)
(* Everything between a reservation and the provider's answer is concurrent;  *)
(* the reservation itself, and the handling of one answer, are atomic: the    *)
(* locks are never contended and nothing suspends.  Of the three live figures *)
(* (rpd, rpm, tpm), which differ in their time to live alone, there is one.   *)
(***************************************************************************)
EXTENDS Integers, Sequences, FiniteSets

CONSTANTS
  Requests,
  Rps,          \* limits.rps
  RpsWindow,    \* WINDOWS["rps"]
  Minute,       \* WINDOWS["rpm"] and WINDOWS["attempts"]
  LiveTTL,      \* LIVE_TTL_S
  Quota,        \* what the provider allows between two of its resets
  Unknown,      \* no figure: none was ever reported, or the answer bears none
  LearnedCaps,  \* the learned caps the process may start with; 0 is none
  MaxAttempts,  \* bound: reservations
  MaxTime       \* bound on the clock

ASSUME LimiterAssumption ==
  /\ Rps \in Nat \ {0} /\ RpsWindow \in Nat /\ Minute \in Nat /\ LiveTTL \in Nat
  /\ Quota \in Nat /\ MaxAttempts \in Nat /\ MaxTime \in Nat
  /\ Unknown \notin Int
  /\ LearnedCaps \subseteq Nat
  /\ IsFiniteSet(Requests)

VARIABLES
  now,        \* the monotonic clock
  attempts,   \* when each reservation was made: the "rps" and "attempts" events
  successes,  \* when each success was handled: the "rpm" events
  call,       \* each request: where it is, which reservation it holds, its header
  live,       \* _live and _live_at
  cap,        \* learned_rpm; 0 is None
  cooling,    \* whether the pool has a row for the model (ModelPool)
  quota,      \* what the provider will still accept
  best        \* history: the most successes ever counted in one minute

vars == <<now, attempts, successes, call, live, cap, cooling, quota, best>>

Figures == Nat \cup {Unknown}
Idle == [pc |-> "idle", index |-> 0, header |-> Unknown]

-----------------------------------------------------------------------------
\* Mutant: an event as old as the window has already left it.
FullSooner(events, n, window) ==
  /\ Len(events) >= n
  /\ events[Len(events) - n + 1] > now - window

\* _count(events) >= n, for events in the order of time: the n-th last is still
\* in the window.
Full(events, n, window) ==
  /\ Len(events) >= n
  /\ events[Len(events) - n + 1] >= now - window

\* window_count(model, "rpm").
OkCount(events) == Cardinality({i \in 1..Len(events) : events[i] >= now - Minute})

Fresh == live.left # Unknown /\ now - live.at < LiveTTL
LiveExhausted == Fresh /\ live.left <= 0

\* Mutant: the cap is compared with the successes.
CapReachedBySuccesses == cap > 0 /\ Full(successes, cap, Minute)

CapReached == cap > 0 /\ Full(attempts, cap, Minute)

\* can_proceed and try_reserve.
CanReserve ==
  /\ ~cooling
  /\ ~LiveExhausted
  /\ ~Full(attempts, Rps, RpsWindow)
  /\ ~CapReached

Reserve(r) ==
  /\ call[r].pc = "idle"
  /\ CanReserve
  /\ Len(attempts) < MaxAttempts
  /\ attempts' = Append(attempts, now)
  /\ call' = [call EXCEPT ![r] = [Idle EXCEPT !.pc = "sent", !.index = Len(attempts')]]
  /\ UNCHANGED <<now, successes, live, cap, cooling, quota, best>>

-----------------------------------------------------------------------------
\* The provider accepts what its quota allows, and may report what is left.
Accept(r) ==
  /\ call[r].pc = "sent" /\ quota > 0
  /\ quota' = quota - 1
  /\ \E header \in {quota', Unknown} :
       call' = [call EXCEPT ![r].pc = "accepted", ![r].header = header]
  /\ UNCHANGED <<now, attempts, successes, live, cap, cooling, best>>

Refuse(r) ==
  /\ call[r].pc = "sent" /\ quota = 0
  /\ call' = [call EXCEPT ![r].pc = "refused"]
  /\ UNCHANGED <<now, attempts, successes, live, cap, cooling, quota, best>>

Refill ==
  /\ quota < Quota
  /\ quota' = Quota
  /\ UNCHANGED <<now, attempts, successes, call, live, cap, cooling, best>>

-----------------------------------------------------------------------------
\* record_success_usage takes one off the figure, however old it is.
Spent(left) == IF left = Unknown THEN Unknown ELSE IF left > 0 THEN left - 1 ELSE 0

\* Mutant: every success raises the cap.
RaisedAlways(ok) == IF cap > 0 THEN cap + 1 ELSE cap

\* observe_rpm_success.
Raised(ok) == IF cap > 0 /\ ok >= cap THEN cap + 1 ELSE cap

\* record_rate_limit.
Lowered(ok) == IF ok < 1 THEN cap ELSE IF cap > 0 /\ cap < ok THEN cap ELSE ok

\* succeed: the usage, then the header (which wins), then the learner.
Succeed(r) ==
  /\ call[r].pc = "accepted"
  /\ successes' = Append(successes, now)
  /\ live' = IF call[r].header # Unknown
             THEN [left |-> call[r].header, at |-> now]
             ELSE [left |-> Spent(live.left), at |-> IF live.left = Unknown THEN live.at ELSE now]
  /\ LET ok == OkCount(successes') IN
       /\ cap' = Raised(ok)
       /\ best' = IF ok > best THEN ok ELSE best
  /\ call' = [call EXCEPT ![r] = Idle]
  /\ UNCHANGED <<now, attempts, cooling, quota>>

\* fail on the provider's 429 for requests per minute.
LearnLimit(r) ==
  /\ call[r].pc = "refused"
  /\ cap' = Lowered(OkCount(successes))
  /\ cooling' = TRUE
  /\ call' = [call EXCEPT ![r] = Idle]
  /\ UNCHANGED <<now, attempts, successes, live, quota, best>>

\* fail on anything else, a timeout of a request the provider accepted and a
\* limit on tokens included; a transient failure imposes no cooldown.
Break(r) ==
  /\ call[r].pc # "idle"
  /\ cooling' \in {cooling, TRUE}
  /\ call' = [call EXCEPT ![r] = Idle]
  /\ UNCHANGED <<now, attempts, successes, live, cap, quota, best>>

\* The pool gives the model back (ModelPool, ApplyHealth).
Promote ==
  /\ cooling
  /\ cooling' = FALSE
  /\ UNCHANGED <<now, attempts, successes, call, live, cap, quota, best>>

\* ingest_quota from elsewhere: another model of the provider, or the key
\* endpoint polled by the dashboard.  The figure may be any age.
Report(left) ==
  /\ live' = [left |-> left, at |-> now]
  /\ UNCHANGED <<now, attempts, successes, call, cap, cooling, quota, best>>

Tick ==
  /\ now < MaxTime
  /\ now' = now + 1
  /\ UNCHANGED <<attempts, successes, call, live, cap, cooling, quota, best>>

-----------------------------------------------------------------------------
\* A cap that was learned before the process started is evidence of its own.
Init ==
  /\ now = 0
  /\ attempts = <<>> /\ successes = <<>>
  /\ call = [r \in Requests |-> Idle]
  /\ live = [left |-> Unknown, at |-> 0]
  /\ cap \in LearnedCaps /\ best = cap
  /\ cooling = FALSE
  /\ quota = Quota

Answered(r) == Succeed(r) \/ LearnLimit(r) \/ Break(r)

Next ==
  \/ \E r \in Requests : Reserve(r) \/ Accept(r) \/ Refuse(r) \/ Answered(r)
  \/ Refill \/ Promote \/ Tick
  \/ \E left \in 0..Quota : Report(left)

Spec == Init /\ [][Next]_vars
==============================================================================
