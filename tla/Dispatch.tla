------------------------------- MODULE Dispatch -------------------------------
(***************************************************************************)
(* ModelSelector.dispatch_with_fallback (llmcascade/selector.py): requests   *)
(* that try the models they name, then the free cascade, one call after the  *)
(* other, until one answers, nothing is left or the deadline passes.         *)
(*                                                                         *)
(* The requests run on one event loop.  Between two suspensions (a call to a *)
(* provider, the pause before a retry, a wait for a cooldown) a request has   *)
(* the loop to itself: `turn` says which one.  Only time moves meanwhile.     *)
(* The pool's cooldowns, the cached health verdicts and the registry change   *)
(* under the requests' feet; ModelPool has the details of how.               *)
(***************************************************************************)
EXTENDS Naturals, Sequences, FiniteSets

CONSTANTS
  Requests,
  Models,
  Nobody,       \* the event loop is idle
  NoModel,
  Embeds,       \* the requests for an embedding; the others are chats
  Named,        \* the pinned model of a request and its failover list, if any
  FreeCascade,  \* the requests that ask for the free cascade after their names
  Capable,      \* the models with the capability a request needs
  Paid,         \* the models whose key_tier is "paid"
  AllowPaid,    \* ALLOW_PAID
  Budget,       \* reservations a model accepts per window (rps, learned rpm)
  Failures,     \* what a failed call can mean: a subset of FailureKinds
  MaxEvents     \* bound: probe answers, verdicts and reloads

FailureKinds == {"transient", "cooling", "auth", "gone"}

ASSUME DispatchAssumption ==
  /\ Nobody \notin Requests /\ NoModel \notin Models
  /\ Embeds \subseteq Requests /\ FreeCascade \subseteq Requests
  /\ Named \in [Requests -> Seq(Models)]
  /\ Capable \in [Requests -> SUBSET Models]
  /\ Paid \subseteq Models /\ AllowPaid \in BOOLEAN
  /\ Budget \in Nat /\ MaxEvents \in Nat
  /\ Failures \subseteq FailureKinds

VARIABLES
  turn,      \* the request that has the event loop
  pc,        \* where each request is
  left,      \* the names it has still to visit
  model,     \* the model it is calling
  tried,     \* the models it has reserved
  late,      \* the requests whose deadline has passed
  patience,  \* its wait_deadline: "unset" until the free cascade begins
  calls,     \* history: calls each request made to each model
  spun,      \* history: some request looped without suspending
  registry,  \* the models loaded
  pool,      \* what the pool of unavailable models holds of each
  exhausted, \* the models whose live figure is used up; the Gemini family also
             \* while each of its members is cooling
  sick,      \* the models whose cached verdict says unavailable
  reserved,  \* reservations in each model's current window
  events     \* events of the environment so far

clocks == <<late, patience>>
requestVars == <<turn, pc, left, model, tried, calls, spun>>
worldVars == <<registry, sick, events>>
gateVars == <<pool, exhausted, reserved>>
vars == <<turn, pc, left, model, tried, late, patience, calls, spun, registry, pool, exhausted,
          sick, reserved, events>>

PoolStates == {"available", "cooling", "auth", "gone"}
Steps == {"new", "names", "cascade", "calling", "pausing", "recalling", "waiting",
          "answered", "failed"}
Ended == {"answered", "failed"}

-----------------------------------------------------------------------------
\* The names a request visits first; an embedding only ever visits its pin.
Preferred(r) == IF r \in Embeds /\ Named[r] # <<>> THEN <<Head(Named[r])>> ELSE Named[r]

\* Mutant: an embedding that asks for it gets the free cascade, too.
IncludeFreeAsAsked(r) == Named[r] = <<>> \/ r \in FreeCascade

IncludeFree(r) == r \notin Embeds /\ (Named[r] = <<>> \/ r \in FreeCascade)

\* RateLimiter.can_proceed and try_reserve: both gate on the same facts.
CanReserve(m) ==
  m \in registry \ exhausted /\ pool[m] = "available" /\ reserved[m] < Budget

\* A named model the loop over the names does not skip.
Usable(r, m) == m \in (registry \cap Capable[r]) \ tried[r] /\ m \notin sick /\ CanReserve(m)

\* Mutant: the models already tried are not excluded.
EligibleAgain(r) ==
  {m \in registry \cap Capable[r] : (m \in Paid => AllowPaid) /\ m \notin sick /\ CanReserve(m)}

\* What pick chooses from.
Eligible(r) ==
  {m \in (registry \cap Capable[r]) \ tried[r] :
     (m \in Paid => AllowPaid) /\ m \notin sick /\ CanReserve(m)}

\* Mutant: a cooling model is not waited for.
WorthWaitingForReady(r) ==
  {m \in (registry \cap Capable[r]) \ tried[r] : m \notin sick /\ pool[m] = "available"}

\* Mutant: the cached health verdict is not consulted.
WorthWaitingForSick(r) ==
  {m \in (registry \cap Capable[r]) \ tried[r] : pool[m] \notin {"auth", "gone"}}

\* The models _wait_for_free_model considers: paid ones are not left out.
WorthWaitingFor(r) ==
  {m \in (registry \cap Capable[r]) \ tried[r] : m \notin sick /\ pool[m] \notin {"auth", "gone"}}

\* What the pool holds of a model after a failure of the given kind: rows are
\* never shortened, so an older one may prevail; only "gone" prevails for ever.
Filed(old, kind) ==
  IF kind = "transient" \/ old = "gone" THEN {old}
  ELSE IF old = "available" THEN {kind}
  ELSE {old, kind}

-----------------------------------------------------------------------------
\* Steps of a request that has the loop.
Has(r, step) == turn = r /\ pc[r] = step

\* try_reserve succeeds and the executor starts: the request suspends.
Call(r, m) ==
  /\ reserved' = [reserved EXCEPT ![m] = @ + 1]
  /\ calls' = [calls EXCEPT ![<<r, m>>] = @ + 1]
  /\ tried' = [tried EXCEPT ![r] = @ \cup {m}]
  /\ model' = [model EXCEPT ![r] = m]
  /\ pc' = [pc EXCEPT ![r] = "calling"]
  /\ turn' = Nobody
  /\ UNCHANGED <<clocks, spun, pool, exhausted, worldVars>>

\* A worker takes the request from the queue.
Begin(r) ==
  /\ turn = Nobody /\ pc[r] = "new"
  /\ turn' = r
  /\ pc' = [pc EXCEPT ![r] = "names"]
  /\ left' = [left EXCEPT ![r] = Preferred(r)]
  /\ UNCHANGED <<model, tried, clocks, calls, spun, gateVars, worldVars>>

\* A name that is unknown, incapable, sick, cooling or out of budget.
PassOver(r) ==
  /\ Has(r, "names") /\ r \notin late
  /\ left[r] # <<>> /\ ~Usable(r, Head(left[r]))
  /\ left' = [left EXCEPT ![r] = Tail(@)]
  /\ UNCHANGED <<turn, pc, model, tried, clocks, calls, spun, gateVars, worldVars>>

TryName(r) ==
  /\ Has(r, "names") /\ r \notin late
  /\ left[r] # <<>> /\ Usable(r, Head(left[r]))
  /\ left' = [left EXCEPT ![r] = Tail(@)]
  /\ Call(r, Head(left[r]))

\* The names are used up, or the time is.
AfterNames(r) ==
  /\ Has(r, "names")
  /\ left[r] = <<>> \/ r \in late
  /\ \/ /\ IncludeFree(r)
        /\ pc' = [pc EXCEPT ![r] = "cascade"]
        /\ patience' = [patience EXCEPT ![r] = IF @ = "unset" THEN "lasts" ELSE @]
        /\ UNCHANGED turn
     \/ /\ ~IncludeFree(r)
        /\ pc' = [pc EXCEPT ![r] = "failed"]
        /\ turn' = Nobody
        /\ UNCHANGED patience
  /\ UNCHANGED <<left, model, tried, late, calls, spun, gateVars, worldVars>>

\* _wait_for_free_model may still wait: wait_deadline is DISPATCH_WAIT_S after the
\* names, but no later than the deadline.
MayWait(r) == r \notin late /\ patience[r] = "lasts"

TryCascade(r) ==
  /\ Has(r, "cascade") /\ r \notin late
  /\ \E m \in Eligible(r) : Call(r, m)
  /\ UNCHANGED left

\* _wait_for_free_model sees a model that could proceed and returns at once;
\* pick has just refused it, and will again.
Spin(r) ==
  /\ Has(r, "cascade") /\ MayWait(r)
  /\ Eligible(r) = {}
  /\ \E m \in WorthWaitingFor(r) : CanReserve(m)
  /\ spun' = TRUE
  /\ UNCHANGED <<turn, pc, left, model, tried, clocks, calls, gateVars, worldVars>>

\* It sleeps while some model is cooling.
Wait(r) ==
  /\ Has(r, "cascade") /\ MayWait(r)
  /\ Eligible(r) = {}
  /\ \A m \in WorthWaitingFor(r) : ~CanReserve(m)
  /\ \E m \in WorthWaitingFor(r) : pool[m] = "cooling"
  /\ pc' = [pc EXCEPT ![r] = "waiting"]
  /\ turn' = Nobody
  /\ UNCHANGED <<left, model, tried, clocks, calls, spun, gateVars, worldVars>>

\* Nothing is left to wait for.
Stuck(r) == \A m \in WorthWaitingFor(r) : ~CanReserve(m) /\ pool[m] # "cooling"

\* Mutant: no deadline ends the free cascade.
GiveUpOnlyWhenStuck(r) ==
  /\ Has(r, "cascade")
  /\ Eligible(r) = {} /\ Stuck(r)
  /\ pc' = [pc EXCEPT ![r] = "failed"]
  /\ turn' = Nobody
  /\ UNCHANGED <<left, model, tried, clocks, calls, spun, gateVars, worldVars>>

\* AllModelsExhaustedError.
GiveUp(r) ==
  /\ Has(r, "cascade")
  /\ \/ r \in late
     \/ Eligible(r) = {} /\ (~MayWait(r) \/ Stuck(r))
  /\ pc' = [pc EXCEPT ![r] = "failed"]
  /\ turn' = Nobody
  /\ UNCHANGED <<left, model, tried, clocks, calls, spun, gateVars, worldVars>>

-----------------------------------------------------------------------------
\* What wakes a suspended request.
Resume(r, step) == turn = Nobody /\ pc[r] = step

Wake(r) ==
  /\ Resume(r, "waiting")
  /\ turn' = r
  /\ pc' = [pc EXCEPT ![r] = "cascade"]
  /\ UNCHANGED <<left, model, tried, clocks, calls, spun, gateVars, worldVars>>

\* The headers of an answer or a refusal, and a success, move the live figure of the
\* model, and of its provider's other models.
Figures == exhausted' \in SUBSET Models

\* The provider answers, at the first call or the second.
Answer(r) ==
  /\ Resume(r, "calling") \/ Resume(r, "recalling")
  /\ Figures
  /\ pc' = [pc EXCEPT ![r] = "answered"]
  /\ UNCHANGED <<turn, left, model, tried, clocks, calls, spun, pool, reserved, worldVars>>

\* _try_model: a call that timed out or broke is repeated after a pause, if its
\* model can be reserved once more.
Pause(r) ==
  /\ Resume(r, "calling")
  /\ CanReserve(model[r])
  /\ reserved' = [reserved EXCEPT ![model[r]] = @ + 1]
  /\ pc' = [pc EXCEPT ![r] = "pausing"]
  /\ UNCHANGED <<turn, left, model, tried, clocks, calls, spun, pool, exhausted, worldVars>>

\* After the pause nothing is looked at but the deadline.
Recall(r) ==
  /\ Resume(r, "pausing") /\ r \notin late
  /\ calls' = [calls EXCEPT ![<<r, model[r]>>] = @ + 1]
  /\ pc' = [pc EXCEPT ![r] = "recalling"]
  /\ UNCHANGED <<turn, left, model, tried, clocks, spun, gateVars, worldVars>>

\* The request files the failure with the pool and goes on: after an embedding
\* nothing follows.
FailWith(r, kind) ==
  /\ \E row \in Filed(pool[model[r]], kind) : pool' = [pool EXCEPT ![model[r]] = row]
  /\ Figures
  /\ turn' = r
  /\ pc' = [pc EXCEPT ![r] = "names"]
  /\ left' = [left EXCEPT ![r] = IF r \in Embeds THEN <<>> ELSE @]
  /\ UNCHANGED <<model, tried, clocks, calls, spun, reserved, worldVars>>

\* A call fails for good, whatever its error: not every one can be repeated.
Fail(r, kind) ==
  /\ Resume(r, "calling") \/ Resume(r, "recalling")
  /\ FailWith(r, kind)

\* The deadline passed during the pause.
FailLate(r) == Resume(r, "pausing") /\ r \in late /\ FailWith(r, "transient")

\* The second call raises something other than a ProviderError, which _try_model does not
\* translate there: the request ends, and nothing is filed.
Escape(r) ==
  /\ Resume(r, "recalling")
  /\ pc' = [pc EXCEPT ![r] = "failed"]
  /\ UNCHANGED <<turn, left, model, tried, clocks, calls, spun, gateVars, worldVars>>

-----------------------------------------------------------------------------
\* The rest of the world.
DeadlinePasses(r) ==
  /\ pc[r] \notin Ended \cup {"new"}
  /\ r \notin late
  /\ late' = late \cup {r}
  /\ UNCHANGED <<requestVars, patience, gateVars, worldVars>>

WaitDeadlinePasses(r) ==
  /\ pc[r] \notin Ended /\ MayWait(r)
  /\ patience' = [patience EXCEPT ![r] = "over"]
  /\ UNCHANGED <<requestVars, late, gateVars, worldVars>>

ClockStrikes(r) == DeadlinePasses(r) \/ WaitDeadlinePasses(r)

\* A reservation leaves the sliding window.
WindowSlides(m) ==
  /\ reserved[m] > 0
  /\ reserved' = [reserved EXCEPT ![m] = @ - 1]
  /\ UNCHANGED <<requestVars, clocks, pool, exhausted, worldVars>>

\* A live figure is too old to be believed, or a Gemini member's cooldown ends.
FigureExpires(m) ==
  /\ m \in exhausted
  /\ exhausted' = exhausted \ {m}
  /\ UNCHANGED <<requestVars, clocks, pool, reserved, worldVars>>

Event == turn = Nobody /\ events < MaxEvents /\ events' = events + 1

\* A probe of a model whose cooldown is over promotes, extends or retires it.
Probed(m) ==
  /\ Event
  /\ pool[m] \in {"cooling", "auth"}
  /\ \E row \in PoolStates : pool' = [pool EXCEPT ![m] = row]
  /\ UNCHANGED <<requestVars, clocks, registry, sick, exhausted, reserved>>

\* The dashboard's health cache changes its mind about a model.
Verdict(m) ==
  /\ Event
  /\ \E verdicts \in {sick \cup {m}, sick \ {m}} : sick' = verdicts
  /\ UNCHANGED <<requestVars, clocks, registry, gateVars>>

\* Requests of other kinds, the quota page or a Gemini walk report figures.
Reported ==
  /\ Event
  /\ Figures
  /\ UNCHANGED <<requestVars, clocks, registry, sick, pool, reserved>>

\* reload_registry; the pool forgets the models that are not loaded.
Reload(names) ==
  /\ Event
  /\ registry' = names
  /\ pool' = [m \in Models |-> IF m \in names THEN pool[m] ELSE "available"]
  /\ UNCHANGED <<requestVars, clocks, sick, exhausted, reserved>>

-----------------------------------------------------------------------------
Init ==
  /\ turn = Nobody
  /\ pc = [r \in Requests |-> "new"]
  /\ left = [r \in Requests |-> <<>>]
  /\ model = [r \in Requests |-> NoModel]
  /\ tried = [r \in Requests |-> {}]
  /\ late = {}
  /\ patience = [r \in Requests |-> "unset"]
  /\ calls = [rm \in Requests \X Models |-> 0]
  /\ spun = FALSE
  /\ registry = Models
  /\ pool \in [Models -> PoolStates]
  /\ exhausted = {} /\ sick = {}
  /\ reserved = [m \in Models |-> 0]
  /\ events = 0

Running(r) ==
  PassOver(r) \/ TryName(r) \/ AfterNames(r) \/ TryCascade(r) \/ Spin(r) \/ Wait(r) \/ GiveUp(r)

CallEnds(r) == Answer(r) \/ Pause(r) \/ (\E kind \in Failures : Fail(r, kind))

Resuming(r) == Wake(r) \/ CallEnds(r) \/ Recall(r) \/ FailLate(r) \/ Escape(r)

World ==
  \/ \E m \in Models : WindowSlides(m) \/ FigureExpires(m) \/ Probed(m) \/ Verdict(m)
  \/ Reported
  \/ \E names \in SUBSET Models : Reload(names)

Next ==
  \/ \E r \in Requests : Begin(r) \/ Running(r) \/ Resuming(r) \/ ClockStrikes(r)
  \/ World

Spec == Init /\ [][Next]_vars

\* The loop runs whichever task is ready, every call ends within its attempt
\* timeout, and the clock goes on.
FairSpec ==
  /\ Spec
  /\ \A r \in Requests :
       WF_vars(Running(r)) /\ WF_vars(Resuming(r)) /\ WF_vars(DeadlinePasses(r))
==============================================================================
