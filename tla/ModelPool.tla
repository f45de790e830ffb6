------------------------------ MODULE ModelPool ------------------------------
(***************************************************************************)
(* llmcascade/model_pool.py and what drives it: failures of requests in     *)
(* flight (ModelCooldownTracker.apply_from_error), registry reloads          *)
(* (RouterClient.reload_registry), the health loop and the dashboard         *)
(* (reconcile_unavailable_health), and an operator's model test              *)
(* (apply_model_test).  HealthCache, which the dashboard fills and the       *)
(* selector reads, is part of it.                                           *)
(*                                                                         *)
(* A model with a row in the pool is out of rotation.  The row disappears    *)
(* when a probe answers well after the cooldown, or when a reload drops the  *)
(* model.  The file behind the pool is left out.                              *)
(***************************************************************************)
EXTENDS Cooldowns, FiniteSets

CONSTANTS
  Models,       \* every model name of the catalog
  NoModel,      \* "no probe in flight"
  MaxInflight,  \* bound: requests in flight per model
  HealthTTL,    \* HealthCache.ttl_s: 30 s
  Failures,     \* the kinds of failure the providers produce
  Operators,    \* what people do: a subset of {"reload", "test"}
  MaxPolls,     \* bound: dashboard polls (the page may be closed at any time)
  MaxTime       \* bound on the clock

ASSUME PoolAssumption ==
  /\ NoModel \notin Models
  /\ MaxInflight \in Nat
  /\ HealthTTL \in Nat
  /\ MaxPolls \in Nat
  /\ Failures \subseteq FailureKinds
  /\ MaxTime \in Nat

VARIABLES
  now,       \* the wall clock
  registry,  \* names of the models loaded from YAML, overrides and keys
  unavail,   \* ModelPool._unavail; a row of kind "none" is an absent row
  inflight,  \* requests each model is executing
  loop,      \* the health loop: due names left, registry snapshot, name probed
  test,      \* the name an operator's test is probing
  cache,     \* HealthCache._cache: last verdict and when it was taken
  dash,      \* a dashboard poll: running, when it began, names left, verdicts
  owed,      \* history: the latest cooldown end ever imposed on each model
  forgotten  \* history: models whose row a reload has dropped

vars == <<now, registry, unavail, inflight, loop, test, cache, dash, owed, forgotten>>

-----------------------------------------------------------------------------
PoolKinds == {"rate", "daily", "credit", "auth", "permanent", "missing"}
HealthKindsWithoutRate == PoolKinds \ {"permanent", "rate"}  \* mutant: a kind left out
HealthKinds == PoolKinds \ {"permanent"}

\* What probe_model can report: "gone" is the verdict "down" with HTTP 410.
Answers == {"ok", "auth_error", "warn", "down", "gone"}
Verdicts == Answers \cup {"none"}

NoRow == [kind |-> "none", until |-> 0]
Row(kind, until) == [kind |-> kind, until |-> until]
Rows == {NoRow} \cup [kind : PoolKinds, until : Nat]

IsUnavailable(m) == unavail[m].kind # "none"

\* A health probe may promote, extend or retire the row.
IsDue(m) == unavail[m].kind \in HealthKinds /\ unavail[m].until <= now
DueForHealth == {m \in Models : IsDue(m)}

\* Mutant: the comparison of the two instants is dropped.
MarkUnavailableUnguarded(row, kind, until) ==
  IF row.kind = "permanent" /\ kind # "permanent" THEN row ELSE Row(kind, until)

\* The row mark_unavailable leaves: a permanent row only gives way to a
\* permanent one, and no row is ever shortened.
MarkUnavailable(row, kind, until) ==
  IF \/ row.kind = "permanent" /\ kind # "permanent"
     \/ row.kind # "none" /\ row.until >= until
  THEN row
  ELSE Row(kind, until)

\* What becomes of a due row when its probe answers.
ProbedRow(row, answer) ==
  CASE answer = "gone"        -> Row("permanent", now + PermanentCooldown)
    [] answer = "auth_error"  -> Row("auth", now + AuthCooldown)
    [] answer = "warn"        -> Row("rate", now + RateCooldown)
    [] answer = "down"        -> Row(row.kind, now + RateCooldown)
    [] answer = "ok"          -> NoRow

\* Mutant: the row may still be cooling when the answer is applied.
ApplyHealthEarly(row, answer) ==
  IF row.kind \in {"none", "permanent"} THEN row ELSE ProbedRow(row, answer)

\* The row apply_health leaves for a probe's answer.
ApplyHealth(row, answer) ==
  IF row.kind \in {"none", "permanent"} \/ row.until > now
  THEN row
  ELSE ProbedRow(row, answer)

\* The pool kind apply_from_error files a failure under.
PoolKind(kind, failoverProbe) ==
  CASE kind = "credit"                  -> "daily"
    [] kind = "daily" /\ failoverProbe  -> "rate"
    [] OTHER                            -> kind

Later(a, b) == IF a >= b THEN a ELSE b

-----------------------------------------------------------------------------
\* Requests.  RateLimiter.try_reserve lets a request through to a loaded model
\* the pool has no row for; its failure arrives any time later, whatever has
\* happened to the row and the registry meanwhile.
Send(m) ==
  /\ m \in registry /\ ~IsUnavailable(m)
  /\ inflight[m] < MaxInflight
  /\ inflight' = [inflight EXCEPT ![m] = @ + 1]
  /\ UNCHANGED <<now, registry, unavail, loop, test, cache, dash, owed, forgotten>>

Succeed(m) ==
  /\ inflight[m] > 0
  /\ inflight' = [inflight EXCEPT ![m] = @ - 1]
  /\ UNCHANGED <<now, registry, unavail, loop, test, cache, dash, owed, forgotten>>

\* apply_from_error: a transient failure imposes nothing.
Fail(m, kind, delay, failoverProbe) ==
  /\ inflight[m] > 0
  /\ inflight' = [inflight EXCEPT ![m] = @ - 1]
  /\ LET poolKind == PoolKind(kind, failoverProbe)
         untils == CooldownUntil(poolKind, now, delay)
     IN \/ untils = {} /\ UNCHANGED <<unavail, owed>>
        \/ \E until \in untils :
             /\ unavail' = [unavail EXCEPT ![m] = MarkUnavailable(@, poolKind, until)]
             /\ owed' = [owed EXCEPT ![m] = Later(@, until)]
  /\ UNCHANGED <<now, registry, loop, test, cache, dash, forgotten>>

-----------------------------------------------------------------------------
\* reload_registry: the models become exactly `names`; sync_registry drops
\* the rows of the others.
Reload(names) ==
  /\ "reload" \in Operators
  /\ registry' = names
  /\ unavail' = [m \in Models |-> IF m \in names THEN unavail[m] ELSE NoRow]
  /\ forgotten' = forgotten \cup {m \in Models \ names : IsUnavailable(m)}
  /\ UNCHANGED <<now, inflight, loop, test, cache, dash, owed>>

-----------------------------------------------------------------------------
\* The health loop: every pass lists the due names once, then awaits a probe
\* of one after the other.
LoopState(due, known, target) ==
  [due |-> due,
   known |-> IF due = {} /\ target = NoModel THEN {} ELSE known,
   target |-> target]

LoopIdle == loop.due = {} /\ loop.target = NoModel

LoopStart ==
  /\ LoopIdle
  /\ DueForHealth # {}
  /\ loop' = LoopState(DueForHealth, registry, NoModel)
  /\ UNCHANGED <<now, registry, unavail, inflight, test, cache, dash, owed, forgotten>>

\* A name that the registry did not hold when the pass began is passed over.
LoopProbe(m) ==
  /\ loop.target = NoModel
  /\ m \in loop.due
  /\ loop' = LoopState(loop.due \ {m}, loop.known, IF m \in loop.known THEN m ELSE NoModel)
  /\ UNCHANGED <<now, registry, unavail, inflight, test, cache, dash, owed, forgotten>>

\* The answer is applied to the row as it is when the answer arrives.
Answer(m, answer) ==
  LET row == ApplyHealth(unavail[m], answer)
  IN /\ unavail' = [unavail EXCEPT ![m] = row]
     /\ owed' = [owed EXCEPT ![m] = Later(@, row.until)]

LoopAnswer(answer) ==
  /\ loop.target # NoModel
  /\ Answer(loop.target, answer)
  /\ loop' = LoopState(loop.due, loop.known, NoModel)
  /\ UNCHANGED <<now, registry, inflight, test, cache, dash, forgotten>>

\* apply_model_test probes any model of the catalog, loaded or not.
TestProbe(m) ==
  /\ "test" \in Operators
  /\ test = NoModel
  /\ test' = m
  /\ UNCHANGED <<now, registry, unavail, inflight, loop, cache, dash, owed, forgotten>>

TestAnswer(answer) ==
  /\ test # NoModel
  /\ Answer(test, answer)
  /\ test' = NoModel
  /\ UNCHANGED <<now, registry, inflight, loop, cache, dash, forgotten>>

-----------------------------------------------------------------------------
\* dashboard_snapshot: HealthCache.statuses visits the registry, reusing the
\* verdicts that were younger than the TTL when the poll began and probing for
\* the others; then reconcile_unavailable_health applies all of them at once.
NoVerdict == [state |-> "none", at |-> 0]
NoVerdicts == [m \in Models |-> "none"]

DashIdle(polls) ==
  [on |-> FALSE, polls |-> polls, began |-> 0, left |-> {}, health |-> NoVerdicts]

DashStart ==
  /\ ~dash.on
  /\ dash.polls < MaxPolls
  /\ dash' = [on |-> TRUE, polls |-> dash.polls + 1, began |-> now,
              left |-> registry, health |-> NoVerdicts]
  /\ UNCHANGED <<now, registry, unavail, inflight, loop, test, cache, owed, forgotten>>

Fresh(m) == cache[m].state # "none" /\ dash.began < cache[m].at + HealthTTL

DashCached(m) ==
  /\ dash.on /\ m \in dash.left
  /\ Fresh(m)
  /\ dash' = [dash EXCEPT !.left = @ \ {m}, !.health[m] = cache[m].state]
  /\ UNCHANGED <<now, registry, unavail, inflight, loop, test, cache, owed, forgotten>>

DashProbe(m, answer) ==
  /\ dash.on /\ m \in dash.left
  /\ ~Fresh(m)
  /\ dash' = [dash EXCEPT !.left = @ \ {m}, !.health[m] = answer]
  /\ cache' = [cache EXCEPT ![m] = [state |-> answer, at |-> now]]
  /\ UNCHANGED <<now, registry, unavail, inflight, loop, test, owed, forgotten>>

\* A due name the poll has no verdict for is probed on the spot if it is loaded.
DashReconcile(answers) ==
  /\ dash.on /\ dash.left = {}
  /\ LET verdict(m) == IF dash.health[m] # "none" THEN dash.health[m] ELSE answers[m]
         reached(m) == IsDue(m) /\ (dash.health[m] # "none" \/ m \in registry)
     IN /\ unavail' = [m \in Models |-> IF reached(m)
                                        THEN ApplyHealth(unavail[m], verdict(m))
                                        ELSE unavail[m]]
        /\ owed' = [m \in Models |-> Later(owed[m], unavail'[m].until)]
  /\ dash' = DashIdle(dash.polls)
  /\ UNCHANGED <<now, registry, inflight, loop, test, cache, forgotten>>

Tick ==
  /\ now < MaxTime
  /\ now' = now + 1
  /\ UNCHANGED <<registry, unavail, inflight, loop, test, cache, dash, owed, forgotten>>

-----------------------------------------------------------------------------
Init ==
  /\ now = 0
  /\ registry = Models
  /\ unavail = [m \in Models |-> NoRow]
  /\ inflight = [m \in Models |-> 0]
  /\ loop = LoopState({}, {}, NoModel)
  /\ test = NoModel
  /\ cache = [m \in Models |-> NoVerdict]
  /\ dash = DashIdle(0)
  /\ owed = [m \in Models |-> 0]
  /\ forgotten = {}

HealthLoop ==
  \/ LoopStart
  \/ \E m \in Models : LoopProbe(m)
  \/ \E answer \in Answers : LoopAnswer(answer)

Dashboard ==
  \/ DashStart
  \/ \E m \in Models : DashCached(m)
  \/ \E m \in Models, answer \in Answers : DashProbe(m, answer)
  \/ \E answers \in [Models -> Answers] : DashReconcile(answers)

Next ==
  \/ \E m \in Models : Send(m) \/ Succeed(m)
  \/ \E m \in Models, kind \in Failures, delay \in ResetDelays,
        failoverProbe \in BOOLEAN : Fail(m, kind, delay, failoverProbe)
  \/ \E names \in SUBSET Models : Reload(names)
  \/ HealthLoop
  \/ \E m \in Models : TestProbe(m)
  \/ \E answer \in Answers : TestAnswer(answer)
  \/ Dashboard
  \/ Tick

Spec == Init /\ [][Next]_vars

\* The loop is a task that never ends (its body catches every exception) and
\* time passes.  Nothing obliges anyone to open the dashboard.
FairSpec == Spec /\ WF_vars(HealthLoop) /\ WF_vars(Tick)
=============================================================================
