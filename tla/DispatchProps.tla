---------------------------- MODULE DispatchProps ----------------------------
(***************************************************************************)
(* What dispatch_with_fallback must guarantee to every request, whatever     *)
(* the others, the pool, the health cache and reloads do meanwhile.          *)
(***************************************************************************)
EXTENDS Dispatch

\* Every variable keeps its type.
TypeOK ==
  /\ turn \in Requests \cup {Nobody}
  /\ pc \in [Requests -> Steps]
  /\ left \in [Requests -> Seq(Models)]
  /\ model \in [Requests -> Models \cup {NoModel}]
  /\ tried \in [Requests -> SUBSET Models]
  /\ late \subseteq Requests
  /\ patience \in [Requests -> {"unset", "lasts", "over"}]
  /\ calls \in [Requests \X Models -> Nat]
  /\ spun \in BOOLEAN
  /\ registry \subseteq Models
  /\ pool \in [Models -> PoolStates]
  /\ exhausted \subseteq Models /\ sick \subseteq Models
  /\ reserved \in [Models -> 0..Budget]
  /\ events \in 0..MaxEvents

\* A request calls a model once, and once more after a call that broke; failing
\* over, waiting for cooldowns and being promoted again never bring it back to a
\* model it has tried, nor a name that the free cascade also holds.
CalledAtMostTwice == \A r \in Requests, m \in Models : calls[<<r, m>>] <= 2

\* An embedding never leaves its pin, so that a corpus keeps one vector space
\* (queue_worker.py:330-331), and a pinned chat stays with the names it gave
\* unless it asked for the free cascade.
AskedFor(r, m) ==
  IF r \in Embeds
  THEN Named[r] # <<>> /\ m = Named[r][1]
  ELSE \/ Named[r] = <<>> \/ r \in FreeCascade
       \/ \E i \in 1..Len(Named[r]) : Named[r][i] = m

CallsOnlyAskedFor == \A r \in Requests, m \in Models : calls[<<r, m>>] > 0 => AskedFor(r, m)

\* No request goes round the free cascade without suspending (the comment at
\* selector.py:165-166 warns of just that): every other request, the health loop and
\* the API stand still while one does.  The code does: _wait_for_free_model does not
\* leave out a paid model that _eligible refuses, finds that it could proceed and
\* returns at once, and again.
NeverSpins == ~spun

\* Every request a worker takes is answered or fails, whatever waits, retries and
\* failovers it goes through: the deadline ends them all.
RequestsFinish == \A r \in Requests : pc[r] = "names" ~> pc[r] \in Ended
==============================================================================
