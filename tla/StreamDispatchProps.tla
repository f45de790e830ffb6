------------------------- MODULE StreamDispatchProps -------------------------
(***************************************************************************)
(* What dispatch_stream_with_fallback must guarantee to every request.     *)
(***************************************************************************)
EXTENDS StreamDispatch

\* Every variable keeps its type; no model is reserved beyond its window, however
\* long ago it was listed.
TypeOK ==
  /\ turn \in Requests \cup {Nobody}
  /\ pc \in [Requests -> Steps]
  /\ left \in [Requests -> Seq(Models)]
  /\ model \in [Requests -> Models \cup {NoModel}]
  /\ tried \in [Requests -> SUBSET Models]
  /\ late \subseteq Requests /\ gone \subseteq Requests
  /\ heard \in [Requests -> Models \cup {NoModel}]
  /\ registry \subseteq Models
  /\ pool \in [Models -> PoolStates]
  /\ sick \subseteq Models
  /\ reserved \in [Models -> 0..Budget]
  /\ events \in 0..MaxEvents
  /\ steady \in [Requests -> SUBSET Models]

\* README.md:143: "Failover only before the first chunk."  What a caller reads is
\* the text of one model, and once it has any of it no other model is called for
\* it, whether the stream ends, breaks or loses its caller.
OneVoice ==
  [][\A r \in Requests : heard[r] # NoModel => heard'[r] = heard[r] /\ tried'[r] = tried[r]]_vars

\* A request that fails in time has called every model it was entitled to when it
\* began and that could have been called at every moment since: the list drawn up
\* at the beginning leaves out nothing that stays good, whatever other requests,
\* probes, reloads and verdicts do to the models meanwhile.
NoneLeftOut ==
  \A r \in Requests : pc[r] = "failed" /\ r \notin late => steady[r] \subseteq tried[r]

\* Every request that begins gets a stream or an error: no list, failure, missing
\* caller or foreign exception keeps a worker for ever.
StreamsEnd ==
  \A r \in Requests : pc[r] \in {"trying", "calling"} ~> pc[r] \in {"streaming"} \cup Ended
==============================================================================
