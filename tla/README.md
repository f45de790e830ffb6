# llmcascade: a verification project

llmcascade keeps a registry of free-tier LLM models, sends each request to one of
them, fails over when a call breaks and takes models out of rotation for as long as
their providers ask. This directory holds TLA+ models of the parts of it whose
correctness depends on orders of events: what TLC checks on small instances, what
TLAPS proves for all of them, and where the code does something else than its own
documentation says.

Paths such as `selector.py:156` are relative to `src/llmcascade/`.

## 1. The system

One Python process with one asyncio event loop, and the retire watch beside it. Except for
the executor threads that write JSON files, everything in the process runs on that loop, so code between two *real* suspensions (a provider call, a
sleep, a queue wait) is atomic. An uncontended `asyncio.Lock` and an `await` of a coroutine
that does not suspend are not suspensions.

| Component | State | Operations | Talks to | What is hard about it |
|---|---|---|---|---|
| `model_pool.py`, `ModelCooldownTracker` in `cascade.py` | one row (kind, until) per unavailable model | mark_unavailable, apply_health, sync_registry | selector, health loop, dashboard, operator's test, JsonState | late failures, probes in flight, reloads |
| `health.py`, health loop in `queue_worker.py` | last verdict per model with its age | statuses, reconcile_unavailable_health | pool, selector | verdicts used when they are old |
| `selector.py` | sticky memory; per request: names left, models tried, deadline | dispatch_with_fallback, dispatch_stream_with_fallback, pick | rate limiter, pool, health cache, quota learner | failover under a changing world, retries, waiting, deadlines |
| the same, `dispatch_stream_with_fallback` | candidates left, attempt under way, caller | begin, first chunk, failure, end of stream | the same, SSE answer of `api.py` | a list drawn up once, callers that leave, streams that break |
| `rate_limiter.py` | event windows, live quotas with stamps, learned caps | can_proceed, try_reserve, record_success_usage, ingest_quota | selector, Gemini cascade | check then use, expiry, concurrent requests |
| `quota_learn.py` | learned rpm and rpd per model | record_rate_limit, observe_rpm_success, record_limit, record_success | selector, rate limiter, MongoState | AIMD at its bounds, day change |
| `cascade.py` (`GeminiCascadeManager`) | cooldown per Gemini member | run, run_stream, apply_cooldown, adopt_state | limiter, JsonState | reload during a run, shutdown |
| `queue_worker.py` (`RouterClient`) | queue of 100 jobs, 4 workers | submit, start, shutdown, reload_registry | API, selector | a full queue, cancelled callers, shutdown with work queued |
| `persist.py` | dirty data, timer, file / Mongo document | mark_dirty, flush, _flush_async, aflush | pool, cascade, learner, retire watch | debounce, overlapping writes, crash |
| `retire_watch.py` | run history, last states, models.yaml | run_once, replace_one, apply_yaml | providers, API reload | crash between steps, partial failure |
| `stats_store.py` | Mongo counters per hour, day and in total, a rolling day and its peak | record, record_failure, _bump_peak_24h, snapshot, close | selector, dashboard | ten updates per call, tasks that interleave, pages read between them |
| `admin_auth.py`, `auth_store.py` | failed logins per address, session version | LoginLockout, validate_session, change_password | API | window edges, session revocation |
| `model_store.py`, `provider_store.py`, `registry.py` | overrides, custom models, encrypted keys | set_override, upsert/delete, save_provider, load_registry | API reload | precedence of the sources |
| `api.py`, `mcp_http.py`, `ui.py` | none of their own | HTTP handlers | all of the above | order of store and reload |
| `adapters/`, `openai_http.py`, `tokens.py`, `provider_quota.py` | none | request and response translation | providers | not concurrent: data only |

## 2. The modules

Each component `X` has `X.tla` (constants with their assumption, variables, one action
per operation, `Spec`), `XProps.tla` (type invariant and properties), `MCX.tla` (what
TLC needs: symmetry, the requests of a run) and `XProofs.tla`; `LimitProofs` is about `Limiter`
and `QuotaStore`, `QueueStatsProofs` about `RouterQueue` and `StatsStore`, so these four
name what they have in common (`Spec`, `QuotaSpec`, `StatsSpec`) differently.

* `Cooldowns`: failure kinds and the instant until which each keeps a model out
  (`cooldown_until`). Durations are constants, so the proofs hold for any of them.
* `ModelPool`: the pool and all that drives it: requests in flight, reloads, the health
  loop, the dashboard with its health cache, the operator's test. A probe is split into
  its start and its answer, a dashboard poll into one step per model and the
  reconciliation. `PoolPromise` is the abstract specification of the pool, four states
  per model; `ModelPoolProps` holds the refinement mapping.
* `Dispatch`: `dispatch_with_fallback` for several requests on one event loop. The
  variable `turn` is the request that has the loop; every action of another one waits
  until it suspends, which is how asyncio schedules. Inside a turn one action stands for
  one turn of the code's own loops: a name passed over, a name tried, a pick, a wait.
  The pool and the limiter appear as rows that come and go, a budget per window, and the
  models whose live figure is used up, which answers and other parts of the process report
  and which expires; a Gemini family with no open member is refused in the same way.
* `Limiter`: the gate in front of one model, `try_reserve`, and what an answer changes:
  event windows, the live figure, the learned cap. The windows are sequences of
  instants; "n events within w" is "the n-th last is not older than w".
* `RouterQueue`: `RouterClient`'s queue, its workers, callers that give up, graceful and
  abrupt shutdown and the restart by a later submit. `Dispatch` is what a worker does
  between `Take` and `Finish`.
* `GeminiCascade`: what happens when the selector gives a request to the Gemini family.
  A walk over the members suspends only inside a member's call, so beginning a walk and
  going on after a failure are one action each: file the cooldown, then turn to the
  first position ahead that is open. Managers are numbered, since a walk keeps the one
  it began with while `reload_registry` puts another in service.

* `RetireWatch`: the second process. A run of the watcher is a sequence of actions, one per
  await, between which models fail for a while or for good and come back, others reload
  the registry, and the watcher may die. The status, the file and the records are read in one
  step (`Poll`): the requests between them change neither. Which model a provider has really
  retired does not appear: a failed call is filed for good by its status or wording
  (`cascade.py:106`), whatever the model, and a probe may take any candidate for free
  (`retire_watch.py:352-357`). The watcher alone writes models.yaml, so what it is to replace
  is always there, which is proved (`Listed`), and `apply_yaml`'s RuntimeError has no path.
  Of the API there are the registry it serves and the pool's rows.

* `StatsStore`: the statistics in MongoDB. Each call is counted by a task of its own, one
  action per await: ten documents, then the rolling day, its count and the peak. A
  document's counters are the set of the calls counted in it, so that two views agree when
  their sets do. A page reads in three steps, between which calls are counted, and each of its
  queries returns so many documents at most, any of those found (`Returned`). A failure is
  listed for 30 days (`FailureRange`) and then expires; totals stay.
* `QuotaStore`: a model's learned daily quota (`quota_learn.py`) and the two states of
  `persist.py` that keep it, the JSON file written as a whole and the Mongo collection that
  receives differences. Each change starts the timer anew; only one that runs out
  undisturbed comes due and fires. A write is a flight: begun with a snapshot of memory,
  applied, and for Mongo returned; flights overtake one another. `attach_mongo`, shutdown, crash and the
  restart on either store are actions. The learned requests per minute are in `Limiter`.
* `Registry`: the three files behind the admin pages, models.yaml beside them, and the
  registry loaded from all four. A handler is one action, except that a save lets others
  in during its probe (`SaveModel`, `SaveReturns`). Dying in a write (`CrashInSave` and its
  like) leaves the file torn, dying between two leaves one of them written.
* `StreamDispatch`: `dispatch_stream_with_fallback` with the worker that hands its stream
  over and the answer that reads it. Like `Dispatch` it has a `turn`, and the same abstract
  pool and budget; unlike it, it fixes its candidates when it begins, and goes on for a
  caller that has left. A model out of live figures is one out of budget here.

State and code correspond one to one:

| Module | Variable | Code |
|---|---|---|
| `ModelPool` | `unavail`, `cache`, `registry` | `ModelPool._unavail`, `HealthCache._cache`, `RouterClient.registry` |
| | `loop`, `dash`, `test` | local variables of `reconcile_unavailable_health`, `statuses`, `apply_model_test` |
| | `inflight` | requests between `try_reserve` and `apply_from_error` |
| `Dispatch` | `left`, `tried`, `model`, ... | local variables of `dispatch_with_fallback` |
| | `late`, `patience` | `deadline` and `wait_deadline`, passed or not |
| | `reserved`, `exhausted`, `pool`, `registry`, `sick` | what it reads of the limiter, its live figures, the pool, the registry and the health cache |
| `Limiter` | `attempts`, `successes` | the events `<model>:attempts` (and `:rps`) and `<model>:rpm` |
| | `live`, `cap` | `_live` with `_live_at`, `learned_rpm` |
| `RouterQueue` | `queue`, `started`, `work`, `future` | `_queue`, `_started`, each `_worker` task, the future of each `_Job` |
| | `stopper`, `toSend` | where `shutdown` is, the sentinels it has still to put |
| `GeminiCascade` | `manager`, `models`, `cooldown` | `RouterClient.gemini_cascade`, each manager's `models` and `_cooldowns` |
| | `walk` | `self` and `model_id` of each `run` in progress |
| `RetireWatch` | `file`, `replacements`, `abandoned` | `models.yaml`, the two maps of the state file |
| | `served`, `row` | the API's `registry`, `ModelPool._unavail` as `/v1/status` shows it |
| | `targets`, `target`, `catalog`, `tries`, `choice` | local variables of `run_once` and `replace_one` |
| `StatsStore` | `counted`, `req24h`, `failed24h`, `failures`, `peak` | the collections `stats_buckets` and `stats_totals`, `req_24h`, `failed_24h`, `failures`, `req_24h_peak` |
| | `pc`, `at`, `window`, `inserts`, `report` | the tasks in `_pending` and their local variables, those of `snapshot` |
| `QuotaStore` | `mem`, `timer`, `file`, `docs`, `saved` | `data`, `_pending`, `quota_learned.json`, the collection, `MongoState._saved` |
| | `flights` | executor jobs of `_flush_async`, `aflush` calls in progress |
| `Registry` | `custom`, `over`, `keys`, `listed` | `custom_models.json`, `model_overrides.json`, `providers.json`, models.yaml |
| | `registry`, `saving` | `RouterClient.registry`, the `apply_model_save` calls whose probe is awaited |
| `StreamDispatch` | `left`, `model`, `tried`, `late` | local variables of `dispatch_stream_with_fallback` |
| | `gone`, `heard` | callers that cancelled, what the SSE answer has sent |

The variables whose comment says "history" are not in the code: they record what the
properties speak about.

## 3. What the runs check

The properties are written out, with the code they are about, in the `...Props` modules.
Every run must pass but `dispatch_spin`, in which TLC must find what the code does against
its own comment.

| Run | Shows |
|---|---|
| `pool_core` | no order of late failures, health-loop probes and reloads over two models shortens a cooldown or returns a model early, and the loop reaches every model whose cooldown is over |
| `pool_kinds` | with every failure kind, Retry-After delay, late failure, dashboard poll and operator test the pool of one model implements `PoolPromise` |
| `dispatch_core` | a pinned chat and an embedding that both ask for the free cascade, over a free model and a paid one: a request calls a model at most twice, the embedding keeps to its pin, and each ends, however often it waits, retries or meets a paid model |
| `dispatch_spin` | violation: a chat with its free model cooling and a paid one open, under the default ALLOW_PAID=false, goes round its loop without suspending (`NeverSpins`) |
| `limiter_core` | no second holds too many reservations, the learned cap never drifts above what was once accepted in a minute, and it binds the requests in flight |
| `queue_core` | a graceful shutdown returns and leaves nobody waiting whom it found; workers survive; a job is dispatched once and only for a caller; accepted callers hear |
| `gemini_core` | the manager in service calls no Gemini member before the longest rest its failures asked for is over, whatever walks, reloads and cooldowns do meanwhile; every walk ends |
| `retire_core` | with an `api_model` that is another entry's name: no model is listed twice, only names that were out for good are rewritten, an id is recorded as replaced only when nothing mentions it and its successor is served, nothing stays out unhandled once requests answer, and every run of the watcher ends |
| `stats_core` | hours, days and totals agree when nothing was cut short, and the failures page with them as far back as it reaches; what was cut short is always ahead in the same direction; a page's total never exceeds its own series unless that was longer than its query returns; the peak is the busiest window |
| `quota_core` | no copy of a learned quota, in memory, on disk, in Mongo or in flight, counts a success twice; the rest fits the quota; when all is quiet the store holds what memory holds, unless writes overlapped or failed; once calls change nothing any more, all becomes quiet |
| `registry_core` | what is in service is what the files say, has a key, and is what the answered requests asked for; a hidden model stays hidden, through probes, crashes and torn files |
| `stream_core` | no stream fails while a model it was entitled to stayed good and was not called; a caller hears one model only; every stream begins or fails |

### Where the code departs from its own words

These came up while modelling. The models do what the code does, and the properties
except what follows from it; the first is the run `dispatch_spin`.

* `selector.py:156`: `_wait_for_free_model` does not leave out paid models, which
  `_eligible` refuses. A request whose only reservable model is paid goes round its loop
  without suspending until its deadline, although the comment at `selector.py:165-166`
  says that the loop must not spin. `dispatch_spin` shows it. In `dispatch_core` the same
  model is paid, so that the other properties hold for requests that spin, too.
* `selector.py:163`: when the only model left has its one-second window full and no
  cooldown, there is no instant to sleep for and the request fails at once, although the
  docstring (`selector.py:141`) has it sleep until a routable model may exist, or the deadline.
  The pause of a second for just that case (`selector.py:603-608`) is never reached:
  `_eligible` has refused the model before. `Stuck` counts a full window, and so permits it.
* `selector.py:336`: an error of the second call that is no `ProviderError` escapes
  `_try_model` and ends the request with candidates left (`Dispatch.Escape`).
* `health.py:144`: the selector refuses a model by its last cached verdict, of whatever age.
  A model that the health loop has promoted stays refused until somebody polls the health
  page, against `model_pool.py:52` ("everything else in the registry is available").
* `yaml_edit.py:15`, `:18`: `replace_model_id` replaces an id as `name` and as `api_model`,
  in every line that equals it. An entry that is replaced keeps its own `api_model`, which is
  what `adapters/base.py:42` goes on sending; and a live entry whose `api_model` equals the
  replaced name (models.yaml:215) is given the successor's, perhaps of another provider.
  `retire_core` has such an entry. `OnlyCondemnedReplaced` permits the second and no more.
* `retire_watch.py:354-357`: any 429 and any daily limit pass the probe for free, so an id
  that was replaced may come back as somebody's successor. It is in the state file by then
  and is not handled again (`CondemnedAreHandled` excepts it), although docs/ops.md:20
  promises probes until a candidate works.
* The registry prefers keys stored on the admin page to the environment's
  (`registry.py:117-124`), which is modelled (`Key`). README.md:185 of the repository says
  that the environment overrides them.
* `rate_limiter.py:285`: `Limiter.Reserve` looks at a live figure that only a success
  lowers, so calls in flight together all pass on room for one, against README.md:9.
* `selector.py:237`: `GeminiCascade.TimeOut` files no cooldown for a member whose call ran
  into the attempt timeout.
* `retire_watch.py:525`: `RetireWatch.CatalogFails` gives a model up for one failed fetch,
  against docs/ops.md:20, and after a failed reload nobody tries another.
* `model_pool.py:83`: a reload forgets the cooldown of a model that is hidden and shown again
  (`CooldownHonoured` excepts such models, the history variable `forgotten`).
* `Dispatch.Recall` calls a model that was taken out during the pause before a retry.
* `selector.py:787`: a stream's failure that is no `ProviderError` ends the request although
  candidates are left, where `dispatch_with_fallback` goes on (`StreamDispatch.Escape`). A
  stream that breaks after its first chunk is filed nowhere (`StreamBreaks`).
* `stats_store.py:431`, `:456-461`: the queries of a page return 500 totals, 50 000 hours and
  20 000 days at most. The 30-day page asks for 720 hours of every model, note and pair of both:
  with more than some 70 of them a series is cut, in no stated order, and shows less than its
  total. `PagesAddUp` excepts cut series. `stats_store.py:123`, `:220-225`: failures are kept for
  30 days and listed up to 50 000, totals for ever, so the failures page shows fewer than the
  totals count; `ViewsAgree` says exactly which.
* `persist.py:67` and `persist.py:142`: two writes in flight may land in either order, and
  the older one stays (`StoredWhenQuiet` excepts them by `disturbed`). `cascade.py:315`:
  `flush_state` only marks the Gemini cooldowns dirty, and the loop ends before the timer.
* `quota_learn.py:180`: a success that arrives after the daily limit raises `rpd_remaining`
  from zero again; `RestFitsQuota` permits it.
* `model_store.py:34`, `provider_store.py:39`: the stores are written in place, so that a
  crash tears them: the process does not start on a torn list, and starts without the stored
  keys on a torn key file. `model_store.py:115`: a delete cut in the middle leaves the
  override of a model that is gone; `AskedIsServed` excepts the names cut by a crash.
* `queue_worker.py:366`: a job accepted after the sentinels of a shutdown waits until
  somebody submits again; `AcceptedAreHeard` speaks of those accepted before.

### Bounds

Times are small integers in the order the code's durations have (a rate cooldown is
shorter than a missing one, the one-second window shorter than a minute, and so on),
with a clock that stops at `MaxTime`, late enough for a cooldown to be imposed,
extended and served and for an event to leave its window.

* Pool: two requests per model (`MaxInflight`) are what a failure needs to arrive after
  another one's cooldown. `pool_core` has two models, so that one may be due while the
  other fails or is dropped; rows do not influence each other otherwise, and `pool_kinds`
  has one model with every failure kind, two polls (the second of which finds verdicts
  of the first in the cache) and tests.
* Dispatch: one free model and one paid, one reservation each. `MaxEvents` bounds what the world does between two steps of the requests;
  one event is what every hazard listed for the dispatch needs.
* Limiter: three requests and four reservations, against two per second and caps from
  one to three: enough to fill a window twice, and for a late success to follow a refusal.
* Queue: three jobs, two workers, two shutdowns, a queue of three: a shutdown may find the
  queue full of jobs, and a worker busy with one that its caller has given up.
* Gemini: two members, the shortest cascade in which going on and passing over differ;
  two walks, so that one may fail, or see a cooldown end, while the other is under way;
  two managers, hence one reload, after which walks of both are in progress. A file that
  holds a cooldown longer than the one of a failure gives the longest-cooldown rule
  something to lose.
* Retire watch: two chat entries, the second of which sends the first one's name, and an
  embedding; two new models and two tries, so that two targets of one run want the same
  candidate, a replaced id is listed again, a candidate is itself replaced, and a job ends for
  want of candidates as well as of tries. Three names may ever be out for good (`MaxDoomed`).
* Statistics: two calls, the first a success, the second of either kind, by one service to
  two models of one provider and capability: they meet in every document but those of the
  models. The instants 1 and 4 are more than a day (2) apart, so that series and rolling
  window have an edge between the calls, and a failure of the first instant is too old at the
  second; one fault is a refused write or a crash at any point. A query of a page returns
  four documents, fewer than two calls make, so that series are cut and not cut. The failures
  query returns one, and one call fails: that one being cut is left to the theorem.
* Quota: one model (rows are independent of each other but for being written together), two
  days, two successes, two writes in flight and one stop, from which it starts on the file
  or on Mongo. With `PruneDays = 0` a row of the day before is dropped when rows are loaded;
  `StoredWhenQuiet` excepts a row only if memory has none and the stored one is that old.
* Registry: two entries of models.yaml, one a family of two members, and a custom model that
  may take any of their names; four requests and one crash. A request sets or unsets either
  field; four in a row are what a save that waits for its probe, two others and a delete take.
* Streams: two streams, one that names a model and asks for the rest and one that takes what
  there is; two models with room for one call each, so that either may take what the other
  has listed; one event of the world, besides what failures do.

### Fairness

`ModelPool`: the health loop is a task whose body catches every exception, so its
steps are weakly fair; so is the clock. Nobody is obliged to open the dashboard.
`Dispatch`: the event loop runs whichever task is ready, every call ends within its
attempt timeout, and deadlines pass. Nothing is assumed of providers, cooldowns or
operators. `RouterQueue`: workers and the shutdown are tasks of the loop, and a dispatch
ends, which is `RequestsFinish` of `Dispatch`; callers and operators owe nothing. Each job is submitted once,
so the stream of submits that could take every slot a waiting shutdown is woken for
ends; and one shutdown runs at a time. `Limiter` has no liveness property.
`GeminiCascade`: a member's call returns or the attempt timeout ends it; members may fail,
reloads happen and time pass as they like. `RetireWatch`: the watcher's requests have
timeouts, and pm2 starts it again; it may die any number of times. `CondemnedAreHandled` has as
its hypothesis that it stops dying and its requests stop failing; models may go on failing and
coming back. `QuotaStore`: the delay passes, the loop calls what is due, and a write ends one
way or the other. A change takes the timer back from due to armed, so changes that keep
coming starve `TimerFires` in the model as in the code; `ALullSuffices` has their end as a
hypothesis, and concludes that the store then holds what memory holds. `StreamDispatch`: the
loop runs the request that has it, and a call ends or reaches the attempt timeout before its
first chunk; how long a stream goes on is not bounded, and nothing is said of it. `StatsStore` and
`Registry` have no liveness property.

`CHECK_DEADLOCK FALSE` in the Dispatch, StreamDispatch, RouterQueue, `gemini_core`,
`stats_core` and `quota_core` configurations: requests, calls and jobs end and the events are
bounded, or the clock has stopped, so the system stops.

## 4. What is proved

All theorems hold for every value of the constants that satisfies the module's named
assumption (bounds in Nat, positive durations, finite sets of workers or requests).

`ModelPoolProofs`:

* `TypeCorrect`: `Spec => []TypeOK`. The stored rows need it most: a row has either no
  kind or a pool kind and a natural number, and `CooldownUntil` must never deliver an
  instant for a transient failure.
* `CooldownsHonoured`: `Spec => []CooldownHonoured`. The invariant is inductive together
  with `TypeOK`; the argument is per row (`Honours`): a failure only ever raises the row
  and `owed` to the same maximum, an answer changes a row only when it is over, hence
  when `owed` is, and time only makes instants pass.
* `PoolImplementsPromise`: every step maps to a step of `PoolPromise` or leaves its
  state alone.

`DispatchProofs`:

* `TypeCorrect`, and `StaysWithNames` from the guards of the two ways to call a model.
* `CallsBounded`: `CalledAtMostTwice` is not inductive; `CallInv` adds that a model not
  yet tried was not called, and that one in its pause before the retry was called once.

`LimitProofs`, about `Limiter`:

* `TypeCorrect`, `WindowsHonoured`: a reservation is made only when the Rps-th last one
  has left the window, which is all the induction needs.
* `CapFollowsEvidence`: the cap alone is not inductive, for a refusal lowers it to the
  successes counted *now*; `CapInv` adds that these never exceed the most ever counted,
  as time only takes events out of the window (`WithinLater`).
* `CapBindsInFlight`: each request under way holds a reservation of its own (`Held`), and
  reservations are in the order of time (`Ordered`); so those of the last minute inject
  into the last `cap` positions (`Pigeons`).

`LimitProofs`, about `QuotaStore`:

* `QuotaTypeCorrect`: with the kind of every table a flight carries (`QuotaTyped`).
* `QuotaCountsAreReal`, `QuotaRestFits`: every copy of a row, in memory, in the file, in the
  collection, among the saved ones or in flight, is lawful (`AllLawful`). What is lawful stays
  so, as the day and the successes only grow (`LawfulStays`), and no write, restart or
  attach makes a row: it moves one. `Dated` (no row is of a day to come) is what the
  change of day needs: a row rolled to today starts from nothing.
* `QuotaStoredWhenQuiet`: `Kept` adds that at most one write is in flight unless something
  disturbed them, that what the store will hold when it is done agrees with memory unless the
  timer runs (`CaughtUp`), and that `MongoState` knows what the collection holds. That alone is
  not inductive: a timer that finds memory equal to what was last saved writes nothing, which
  is right only when nothing else is in flight. `Forward` closes it: a row never returns to
  what it was, since its day, its count or its quota has grown, or its rest is gone (`Past`).

`QueueStatsProofs`, about `RouterQueue`:

* `WorkersStay`: while a shutdown drains, the sentinels in the queue and those still to be
  put are as many as the workers left; when none is left, so is no sentinel.
* `ShutdownServes`: the jobs a shutdown found are ahead of its first sentinel or in a
  worker's hands (`EarlyHeld`), so the last worker to go leaves none of them.
* `TypeCorrect`, `DispatchedOnce`.

`QueueStatsProofs`, about `StatsStore`:

* `StatsTypeCorrect`.
* `StatsNeverAhead`: a task has counted its call in a first part of its plan and nowhere else
  (`InOrder`), whatever refused a write or cut it short; the rest is the order of the plan.
* `StatsViewsAgree`: from the same, as a task that came to its end has counted everywhere, and
  `Told`: a call that failed is stored as failed, or about to be, or has expired, unless there
  was a fault. For any range and any number of failures that the query returns.
* `StatsPagesAddUp`: a call in the total a page has read was counted in that document, hence
  before in all its buckets, and its instant does not change any more (`Booked`). For any
  lengths of the queries: a series that is not cut holds all its documents.
* `StatsPeakIsKept`: the present window exceeds the peak only while a task of the capability has
  its counting or its update ahead, or was cut short (`Covered`); the window that such a task
  has counted may be smaller than the present one, and then another task has yet to count.
  `Dates` (no call is ahead of the clock) keeps the window from growing with time.

`GeminiCascadeProofs`:

* `TypeCorrect`: among the types, that a walk's position lies in its manager's roster and
  that no manager holds a cooldown of a member it does not list.
* `MembersRest`: `Spec => RestsInService`, an action property. Its invariant `Known` says
  that the manager in service knows every rest that is not over, failures that never
  reached it excepted. A walk that goes on after a failure turns to a later position,
  hence to another member than the one that has just been put to rest, as a roster lists
  no member twice.

`RetireWatchProofs`:

* `TypeCorrect`, with the number of tries of a job (`Counting`).
* `NeverTwice`: what a job chooses from is not in models.yaml (`Fresh`), and nobody changes
  that until the job has written it.
* `OnlyCondemned`: an action property, for entries with an `api_model` and without. Targets
  were out for good when the run began (`Condemned`), and none of them is the name of an
  entry that is no chat (`Spared`): names are distinct and candidates new to models.yaml.
* `RecordsAreTrue`: an action property. Between the write and the record nobody else touches
  models.yaml, and every reload in between, the watcher's own or another's, loads what it wrote
  (`Listed`). That the target is still named when the job writes needs `Assigned`, and that
  its successor is a new name `Fresh`.

`RegistryProofs`:

* `TypesHold`, with `up` implying that the lists of models could be read.
* `ServedAsStoredHolds`: every action that changes a store publishes, or leaves a save waiting
  or an edit behind; what a crash stores is loaded by the start.
* `ServedHasKeyHolds`: a step that changes keys publishes at once, or ends the process, or
  happens while nothing is served; a save that waits for its probe changes no key. Two
  operators look for keys, one for calls and one for the pages: `SourcesAgree` says that
  where the first finds one so does the second.
* `AskedStoredHolds`: the strengthening for what the operator asked: the stores hold, for every
  name no crash has cut, what the answered requests asked for. `AskedIsServedHolds` follows from
  it and from `ServedAsStored`, `HiddenStaysOutHolds` from it alone: what is hidden is not
  loaded.

`StreamDispatchProofs`:

* `TypesHold`.
* `NoneLeftOutHolds`: the list drawn up at the beginning holds every model the request was
  entitled to (`Covered`: those that stayed good are tried or still on the list); a
  candidate is passed over only when it cannot be called, and then it is not `steady` any
  more. That an ordering of a finite set leaves out no member is `OrderingHasAll`.
* `OneVoiceHolds`: a caller has heard something only in a state from which no call begins
  (`Voiced`).

Each invariant, action property and refinement of a passing run is the statement of a theorem. Of the
components, the first six have a type invariant that is proved and not among the properties of
their runs. `StatsStore` assumes that the calls are finitely many (`CallAssumption`), since a
window's size is a cardinality. The inductive invariants `Kept` and `Accounted` were checked with
TLC on the instances of `quota_core` and `stats_core` before they were proved.

The prover does not do fairness, so the liveness properties (`DueIsServed`, `RequestsFinish`,
`AcceptedAreHeard`, `ShutdownReturns`, `WalksEnd`, `RunsEnd`, `CondemnedAreHandled`, `StreamsEnd`,
`ALullSuffices`) are left to TLC. For five of them the part that is safety is proved: what each step brings nearer
to the end, or that nothing is lost on the way.

| Theorem | For | Says |
|---|---|---|
| `RequestsAdvance` | `RequestsFinish` | a step of a request turns to a model it has not tried, or gets further with those it has; only falling asleep and waking repeat, and a round that spins moves nothing |
| `StreamsAdvance` | `StreamsEnd` | a stream passes each entry of its list once |
| `WalksGoOn` | `WalksEnd` | a walk turns only to later members of its manager |
| `RunsAdvance` | `RunsEnd` | a step of a run disposes of a target or a candidate, or gets further with one; its target is one of those left (`Assigned`) |
| `JobsAreKept` | `AcceptedAreHeard` | an accepted job is queued or being dispatched until its caller hears of it |

What remains for a proof by hand is that the measure is well founded, as models, lists, rosters,
targets and tries are finite, and that fairness makes the steps happen. No module has a
recursive operator.

## 5. What is not modelled, and why

Adapters, tokens and quota headers are data translation. The HTML pages hold no state
of the server's. Message texts of providers are reduced to the failure kind they are
classified as. The Mongo and mail servers are what they answer. The admin's login, lockout and sessions
decide about one request by the clock and a stored version, and have no order of events
between their parts to check. Of the API's handlers those that store and reload are
modelled, and the streamed answer; the OpenAI-shaped endpoints, the MCP endpoint, the waitlist
and the per-key limiter translate or count. Of the stores, weights, encryption, the turn
among the keys of a tier and legacy single keys are left out; of the retire watch, the
members of the Gemini cascade and the mails; of the Gemini cascade, the reload that leaves no
member and the empty stream; of the sticky memory and the strategies of the selector, the
order they prefer. Nothing is said of several processes: the limiter is documented as
process-local, and so are the models.

Some actions are simpler than their code where no property tells the difference, and a reader
who compares them should know:

* `GeminiCascade.Proceed` leaves out the pause of `wait_for_gemini` (`cascade.py:477-485`).
* `RouterQueue.Stopped` has no path on which closing the HTTP client or flushing the pool
  raises (`queue_worker.py:132-136`).
* `ModelPool.DashReconcile` takes the probe that it awaits (`queue_worker.py:295-302`) in one step.
* `QuotaStore.Read` brings the row of a model with a learned quota up to the day;
  `quota_learn.py:230-250` does it for the other rows of memory, too, which changes no figure.
* `StreamDispatch.CanReserve` has no live figures of its own (`rate_limiter.py:248-256`).
* `Registry.Publish` always loads; `registry.py:206-213` raises on a models.yaml that is broken or
  half written, after the store is, and the old registry stays in service.
* `Registry.EnvKey` is one per provider, where `auth_env_var` may differ by model
  (`registry.py:129`).

## 6. Plan

1. A composition of `Limiter` and `ModelPool` under `Dispatch`, replacing its abstract budget
   and rows: the budget is to be shown an abstraction of `Limiter`'s window.
2. The per-key limiter of the API, and the members of the Gemini cascade in `RetireWatch`.
3. The safety half of `DueIsServed`, `ShutdownReturns` and `ALullSuffices`: that a due model, a
   shutdown and a dirty store each have a task, a sentinel or a timer on its way to them.
