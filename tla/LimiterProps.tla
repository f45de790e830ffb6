----------------------------- MODULE LimiterProps -----------------------------
(***************************************************************************)
(* What the limiter promises to providers and callers.                       *)
(***************************************************************************)
EXTENDS Limiter

\* Every variable keeps its type; no live figure falls below zero, whatever
\* answers arrive together (rate_limiter.py:320-331).
TypeOK ==
  /\ now \in Nat
  /\ attempts \in Seq(Nat) /\ successes \in Seq(Nat)
  /\ call \in [Requests -> [pc : {"idle", "sent", "accepted", "refused"},
                            index : Nat, header : Figures]]
  /\ live \in [left : Figures, at : Nat]
  /\ cap \in Nat /\ best \in Nat
  /\ cooling \in BOOLEAN
  /\ quota \in 0..Quota

\* No stretch of RpsWindow, its two ends included, ever holds more than Rps
\* reservations: the provider's per-second limit is kept whatever order the
\* requests come in (rate_limiter.py:286-300).
WindowHonoured ==
  \A i \in 1..Len(attempts) :
    i + Rps <= Len(attempts) => attempts[i + Rps] > attempts[i] + RpsWindow

\* The learned cap never exceeds by more than one what the provider was once
\* seen to accept in a minute: late successes, refusals out of order and idle
\* minutes do not make it drift upwards (quota_learn.py:112-153).
CapNotAboveEvidence == cap > 0 => cap <= best + 1

\* Requests in flight count against the cap: when one more is sent, the requests
\* under way that were sent within the last minute are no more than the cap
\* ("attempts counts every reservation so in-flight requests also count",
\* rate_limiter.py:43-44).
Recent(r) == call[r].pc # "idle" /\ attempts[call[r].index] >= now - Minute

InFlightWithinCap ==
  [][\A r \in Requests :
       call[r].pc = "idle" /\ call'[r].pc = "sent" /\ cap > 0 =>
         Cardinality({q \in Requests : Recent(q)'}) <= cap]_vars
==============================================================================
