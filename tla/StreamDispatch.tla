---------------------------- MODULE StreamDispatch ----------------------------
(***************************************************************************)
(* ModelSelector.dispatch_stream_with_fallback and what becomes of the     *)
(* stream it returns (selector.py, queue_worker.py, the SSE answer of      *)
(* api.py).  Unlike Dispatch it draws up its list of candidates once, when *)
(* it begins, and goes through it until one of them sends a first chunk;   *)
(* the pool, the health verdicts and the registry change while it waits    *)
(* for that.  As in Dispatch a request has the event loop to itself        *)
(* between two suspensions.                                                *)
(***************************************************************************)
EXTENDS Naturals, Sequences, FiniteSets, SequencesExt

CONSTANTS
  Requests,
  Models,
  Nobody,       \* the event loop is idle
  NoModel,
  Named,        \* the pinned model of a request and its failover list, without repeats
  FreeCascade,  \* the requests that ask for the free cascade after their names
  Chatting,     \* the models that chat
  Budget,       \* reservations a model accepts per window
  Failures,     \* what a failure before the first chunk can mean
  MaxEvents     \* bound: probe answers, verdicts and reloads

\* What the pool can hold of a model.
PoolStates == {"available"} \cup (Failures \ {"transient"})

ASSUME StreamAssumption ==
  /\ Nobody \notin Requests /\ NoModel \notin Models
  /\ FreeCascade \subseteq Requests
  /\ Named \in [Requests -> Seq(Models)]
  /\ IsFiniteSet(Models)
  /\ Chatting \subseteq Models
  /\ Budget \in Nat /\ MaxEvents \in Nat
  /\ Failures \subseteq {"transient", "cooling", "auth", "gone"}

VARIABLES
  turn,      \* the request that has the event loop
  pc,        \* where each request is
  left,      \* the candidates it has still to visit
  model,     \* the model it is calling
  tried,     \* the models it has called
  late,      \* the requests whose deadline has passed
  gone,      \* the requests that go on although their caller has given up
  heard,     \* the model whose text the caller has
  registry, pool, sick, reserved, events,
  steady     \* history: the candidates a request could have called ever since it began

requestVars == <<turn, pc, left, model, tried, heard>>
worldVars == <<registry, sick, events>>
vars == <<requestVars, late, gone, worldVars, pool, reserved, steady>>

Ended == {"failed", "escaped", "dropped", "done", "broken"}
Steps == {"new", "trying", "calling", "streaming"} \cup Ended

\* RateLimiter.try_reserve refuses models that are not loaded, cool or are full.
CanReserve(m) == m \in registry /\ pool[m] = "available" /\ reserved[m] < Budget

IncludeFree(r) == Named[r] = <<>> \/ r \in FreeCascade

\* The named models that are loaded, in the order they are named.
Precedes(r, m, n) ==
  \E i, j \in DOMAIN Named[r] : i < j /\ Named[r][i] = m /\ Named[r][j] = n

Names(r) ==
  {names \in SetToSeqs(Range(Named[r]) \cap registry) :
     \A i, j \in DOMAIN names : i < j => Precedes(r, names[i], names[j])}

\* What repeated calls of pick yield; the paid models are those left out of Models.
Eligible == {m \in registry \cap Chatting : m \notin sick /\ CanReserve(m)}

\* Mutant: pick is asked once.
CandidatesPickOnce(r) ==
  {names \o order : names \in Names(r), order \in
     IF IncludeFree(r) THEN {<<m>> : m \in Eligible \ Range(Named[r])} \cup {<<>>} ELSE {<<>>}}

\* The named models, then those pick offers, in any order.
Picks(r) == IF IncludeFree(r) THEN SetToSeqs(Eligible \ Range(Named[r])) ELSE {<<>>}

Candidates(r) == UNION {{names \o picks : picks \in Picks(r)} : names \in Names(r)}

\* What the pool holds of a model after a failure: see Dispatch.
Filed(old, kind) ==
  IF kind = "transient" \/ old = "gone" THEN {old}
  ELSE IF old = "available" THEN {kind}
  ELSE {old, kind}
-----------------------------------------------------------------------------
(* A request that has the loop. *)

Has(r) == turn = r /\ pc[r] = "trying"

\* The coroutine ends and its locals go with it.
Returns(r) ==
  /\ left' = [left EXCEPT ![r] = <<>>]
  /\ model' = [model EXCEPT ![r] = NoModel]
  /\ gone' = gone \ {r}

Begin(r) ==
  /\ turn = Nobody /\ pc[r] = "new"
  /\ turn' = r
  /\ pc' = [pc EXCEPT ![r] = "trying"]
  /\ \E list \in Candidates(r) : left' = [left EXCEPT ![r] = list]
  /\ UNCHANGED <<model, tried, heard, late, gone, worldVars, pool, reserved>>

\* A candidate that has cooled, filled up or been unloaded since it was listed.
Skip(r) ==
  /\ Has(r) /\ r \notin late
  /\ left[r] # <<>> /\ ~CanReserve(Head(left[r]))
  /\ left' = [left EXCEPT ![r] = Tail(@)]
  /\ UNCHANGED <<turn, pc, model, tried, heard, late, gone, worldVars, pool, reserved>>

\* Mutant: a candidate is called on the strength of the list.
TryUnreserved(r) ==
  /\ Has(r) /\ r \notin late
  /\ left[r] # <<>>
  /\ LET m == Head(left[r])
     IN /\ reserved' = [reserved EXCEPT ![m] = @ + 1]
        /\ tried' = [tried EXCEPT ![r] = @ \cup {m}]
        /\ model' = [model EXCEPT ![r] = m]
  /\ left' = [left EXCEPT ![r] = Tail(@)]
  /\ pc' = [pc EXCEPT ![r] = "calling"]
  /\ turn' = Nobody
  /\ UNCHANGED <<heard, late, gone, worldVars, pool>>

Try(r) ==
  /\ Has(r) /\ r \notin late
  /\ left[r] # <<>> /\ CanReserve(Head(left[r]))
  /\ LET m == Head(left[r])
     IN /\ reserved' = [reserved EXCEPT ![m] = @ + 1]
        /\ tried' = [tried EXCEPT ![r] = @ \cup {m}]
        /\ model' = [model EXCEPT ![r] = m]
  /\ left' = [left EXCEPT ![r] = Tail(@)]
  /\ pc' = [pc EXCEPT ![r] = "calling"]
  /\ turn' = Nobody
  /\ UNCHANGED <<heard, late, gone, worldVars, pool>>

\* Mutant: the deadline is not an end of the list.
GiveUpWhenEmpty(r) ==
  /\ Has(r)
  /\ left[r] = <<>>
  /\ pc' = [pc EXCEPT ![r] = "failed"]
  /\ turn' = Nobody
  /\ Returns(r)
  /\ UNCHANGED <<tried, heard, late, worldVars, pool, reserved>>

\* AllModelsExhaustedError: nothing is waited for.
GiveUp(r) ==
  /\ Has(r)
  /\ left[r] = <<>> \/ r \in late
  /\ pc' = [pc EXCEPT ![r] = "failed"]
  /\ turn' = Nobody
  /\ Returns(r)
  /\ UNCHANGED <<tried, heard, late, worldVars, pool, reserved>>
-----------------------------------------------------------------------------
(* What wakes a request that waits for a first chunk, and the stream itself. *)

Answers(r) == turn = Nobody /\ pc[r] = "calling"

\* The caller gets the stream, unless it has cancelled its future.
FirstChunk(r) ==
  /\ Answers(r)
  /\ pc' = [pc EXCEPT ![r] = IF r \in gone THEN "dropped" ELSE "streaming"]
  /\ heard' = [heard EXCEPT ![r] = IF r \in gone THEN NoModel ELSE model[r]]
  /\ Returns(r)
  /\ late' = late \ {r}
  /\ UNCHANGED <<turn, tried, worldVars, pool, reserved>>

\* An error, an empty stream or a timeout; the deadline's timeout has no kind.
Fail(r, kind) ==
  /\ Answers(r)
  /\ \E row \in Filed(pool[model[r]], kind) : pool' = [pool EXCEPT ![model[r]] = row]
  /\ turn' = r
  /\ pc' = [pc EXCEPT ![r] = "trying"]
  /\ UNCHANGED <<left, model, tried, heard, late, gone, worldVars, reserved>>

\* An exception that is no ProviderError ends the request: nothing else is tried.
Escape(r) ==
  /\ Answers(r)
  /\ pc' = [pc EXCEPT ![r] = "escaped"]
  /\ Returns(r)
  /\ late' = late \ {r}
  /\ UNCHANGED <<turn, tried, heard, worldVars, pool, reserved>>

StreamEnds(r) ==
  /\ turn = Nobody /\ pc[r] = "streaming"
  /\ pc' = [pc EXCEPT ![r] = "done"]
  /\ UNCHANGED <<turn, left, model, tried, heard, late, gone, worldVars, pool, reserved>>

\* Mutant: a stream that breaks is taken up by the next candidate.
StreamBreaksOver(r) ==
  /\ turn = Nobody /\ pc[r] = "streaming"
  /\ pc' = [pc EXCEPT ![r] = "trying"]
  /\ turn' = r
  /\ \E list \in Candidates(r) : left' = [left EXCEPT ![r] = list]
  /\ UNCHANGED <<model, tried, heard, late, gone, worldVars, pool, reserved>>

\* The caller is sent an error event; neither the pool nor the statistics hear of it.
StreamBreaks(r) ==
  /\ turn = Nobody /\ pc[r] = "streaming"
  /\ pc' = [pc EXCEPT ![r] = "broken"]
  /\ UNCHANGED <<turn, left, model, tried, heard, late, gone, worldVars, pool, reserved>>

CallerLeaves(r) ==
  /\ turn = Nobody /\ r \notin gone
  /\ \/ pc[r] = "calling" /\ gone' = gone \cup {r} /\ UNCHANGED pc
     \/ pc[r] = "streaming" /\ pc' = [pc EXCEPT ![r] = "dropped"] /\ UNCHANGED gone
  /\ UNCHANGED <<turn, left, model, tried, heard, late, worldVars, pool, reserved>>
-----------------------------------------------------------------------------
(* The rest of the world, as in Dispatch. *)

DeadlinePasses(r) ==
  /\ pc[r] \in {"trying", "calling"} /\ r \notin late
  /\ late' = late \cup {r}
  /\ UNCHANGED <<requestVars, gone, worldVars, pool, reserved>>

WindowSlides(m) ==
  /\ reserved[m] > 0
  /\ reserved' = [reserved EXCEPT ![m] = @ - 1]
  /\ UNCHANGED <<requestVars, late, gone, worldVars, pool>>

Event == turn = Nobody /\ events < MaxEvents /\ events' = events + 1

Probed(m) ==
  /\ Event
  /\ pool[m] \in {"cooling", "auth"}
  /\ \E row \in PoolStates : pool' = [pool EXCEPT ![m] = row]
  /\ UNCHANGED <<requestVars, late, gone, registry, sick, reserved>>

Verdict(m) ==
  /\ Event
  /\ \E verdicts \in {sick \cup {m}, sick \ {m}} : sick' = verdicts
  /\ UNCHANGED <<requestVars, late, gone, pool, registry, reserved>>

Reload(names) ==
  /\ Event
  /\ registry' = names
  /\ pool' = [m \in Models |-> IF m \in names THEN pool[m] ELSE "available"]
  /\ UNCHANGED <<requestVars, late, gone, sick, reserved>>
-----------------------------------------------------------------------------
Init ==
  /\ turn = Nobody
  /\ pc = [r \in Requests |-> "new"]
  /\ left = [r \in Requests |-> <<>>]
  /\ model = [r \in Requests |-> NoModel]
  /\ tried = [r \in Requests |-> {}]
  /\ late = {} /\ gone = {}
  /\ heard = [r \in Requests |-> NoModel]
  /\ registry = Models
  /\ pool \in [Models -> PoolStates]
  /\ sick = {}
  /\ reserved = [m \in Models |-> 0]
  /\ events = 0
  /\ steady = [r \in Requests |-> {}]

\* The models a request is entitled to when it begins, as far as they can be called.
Entitled(r) ==
  {m \in Models : CanReserve(m) /\ (m \in Range(Named[r]) \/ (IncludeFree(r) /\ m \in Eligible))}

Remember ==
  steady' = [r \in Requests |->
    IF pc[r] = "new" THEN IF pc'[r] = "new" THEN {} ELSE Entitled(r)
    ELSE IF pc[r] \in {"trying", "calling"} THEN {m \in steady[r] : CanReserve(m)'}
    ELSE {}]

Running(r) == Skip(r) \/ Try(r) \/ GiveUp(r)
CallEnds(r) == FirstChunk(r) \/ (\E kind \in Failures : Fail(r, kind)) \/ Escape(r)
Streaming(r) == StreamEnds(r) \/ StreamBreaks(r) \/ CallerLeaves(r)

World ==
  \/ \E m \in Models : WindowSlides(m) \/ Probed(m) \/ Verdict(m)
  \/ \E names \in SUBSET Models : Reload(names)

Step ==
  \/ \E r \in Requests :
       Begin(r) \/ Running(r) \/ CallEnds(r) \/ Streaming(r) \/ DeadlinePasses(r)
  \/ World

Next == Step /\ Remember

Spec == Init /\ [][Next]_vars

\* The loop runs whichever request has it, and every attempt is bounded by the
\* attempt timeout; how long a stream goes on after its first chunk is not.
FairSpec ==
  /\ Spec
  /\ \A r \in Requests :
       /\ WF_vars(Running(r) /\ Remember)
       /\ WF_vars(CallEnds(r) /\ Remember)
=============================================================================
