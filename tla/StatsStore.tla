----------------------------- MODULE StatsStore -----------------------------
(***************************************************************************)
(* The statistics kept in MongoDB (stats_store.py).  A call that ends       *)
(* starts a task nobody waits for; the task counts the call in ten          *)
(* documents, one await after the other, and a success then in the rolling  *)
(* 24 hours and their peak.  Tasks interleave with each other, with the     *)
(* readers of the pages, with failures of the server and with a crash.      *)
(*                                                                          *)
(* A document's counters are the set of the calls counted in it: `requests` *)
(* is its size, `failures` the size of the part that failed.  Latencies and *)
(* tokens are sums of the same calls and are left out.  Time is in hours.   *)
(***************************************************************************)
EXTENDS Integers, Sequences, FiniteSets

CONSTANTS
  Calls,       \* the calls that are counted
  Models, Providers, Capabilities, Notes,
  ProviderOf, CapabilityOf,   \* of a model, from the registry
  Call,        \* of each call: its model and the note of its caller
  Outcomes,    \* of each call, how it may end: "success", "failure", or "terminal" when its request fails with it
  RetireWatch, \* the note of the retire watch's own calls
  Day,         \* hours in a day, also the rolling window
  HourRange, DayRange,        \* how far back a page's series reach, in hours
  FailureRange,               \* how long a failure is kept and listed, in hours
  TotalsLength, HoursLength, DaysLength, FailuresLength,  \* documents a query returns at most
  Instants,    \* the hours at which something happens
  Followed,    \* the rows of a page that its reader looks at
  MaxFaults    \* bound on refused writes and crashes

ASSUME CallAssumption ==
  /\ IsFiniteSet(Calls)
  /\ Outcomes \in [Calls -> SUBSET {"success", "failure", "terminal"}]
  /\ Call \in [Calls -> [model : Models, note : Notes]]
  /\ ProviderOf \in [Models -> Providers]
  /\ CapabilityOf \in [Models -> Capabilities]
ASSUME TimeAssumption ==
  /\ Day \in Nat \ {0} /\ HourRange \in Nat /\ DayRange \in Nat /\ FailureRange \in Nat
  /\ MaxFaults \in Nat
  /\ Instants \subseteq Nat /\ Instants # {}

VARIABLES
  now,
  phase,     \* of the store: "open", "draining" (close awaits _pending), "closed"
  pc,        \* of record(): None, Scheduled, the number of its next write, Done, Aborted
  outcome,   \* of the call, once it has ended
  at,        \* the call's instant, taken when record() begins
  window,    \* the count a task read for the peak
  inserts,   \* pending record_failure and record_terminal_failed tasks
  counted,   \* stats_buckets and stats_totals: the documents each call is counted in
  req24h,    \* instants in req_24h, by call
  failed24h, \* instants in failed_24h, by call
  failures,  \* the instants in the failures collection, by call
  peak,      \* req_24h_peak
  report,    \* a page's snapshot(): what it has read so far
  faults

writes == <<pc, outcome, at, window, counted, req24h, peak>>
statsVars == <<now, phase, inserts, writes, failed24h, failures, report, faults>>

-----------------------------------------------------------------------------
(* The documents.                                                           *)

DayOf(h) == h - (h % Day)
Buckets == Instants \cup {DayOf(h) : h \in Instants}
Rows == ({"model"} \X Models) \cup ({"notes"} \X Notes) \cup ({"note_model"} \X (Notes \X Models))
Scopes == ({"model"} \X Models) \cup ({"provider"} \X Providers)
            \cup ({"capability"} \X Capabilities) \cup ({"notes"} \X Notes)
Documents == ({"hour", "day"} \X Buckets \X Rows) \cup ({"total"} \X {0} \X Scopes)

\* A document's counters.
Doc(d) == {c \in Calls : d \in counted[c]}

\* The updates of record(), in order.
BucketPlan(c, grain, bucket) ==
  << <<grain, bucket, <<"model", Call[c].model>> >>,
     <<grain, bucket, <<"notes", Call[c].note>> >>,
     <<grain, bucket, <<"note_model", <<Call[c].note, Call[c].model>> >> >> >>

\* Mutant: only successes are counted for the capability.
TotalPlanOfSuccesses(c) ==
  << <<"total", 0, <<"model", Call[c].model>> >>,
     <<"total", 0, <<"provider", ProviderOf[Call[c].model]>> >>,
     <<"total", 0, IF outcome[c] = "success" THEN <<"capability", CapabilityOf[Call[c].model]>>
                                             ELSE <<"model", Call[c].model>> >>,
     <<"total", 0, <<"notes", Call[c].note>> >> >>

TotalPlan(c) ==
  << <<"total", 0, <<"model", Call[c].model>> >>,
     <<"total", 0, <<"provider", ProviderOf[Call[c].model]>> >>,
     <<"total", 0, <<"capability", CapabilityOf[Call[c].model]>> >>,
     <<"total", 0, <<"notes", Call[c].note>> >> >>

\* Mutant: the totals are counted before the series.
PlanTotalsFirst(c) ==
  TotalPlan(c) \o BucketPlan(c, "hour", at[c]) \o BucketPlan(c, "day", DayOf(at[c]))

Plan(c) == BucketPlan(c, "hour", at[c]) \o BucketPlan(c, "day", DayOf(at[c])) \o TotalPlan(c)

\* Where a record() task is: not there, waiting for its first turn, at one of its
\* writes, through, or cut short.
None == -1
Scheduled == 0
LastCount == 10
InsertStep == 11
CountStep == 12
MaxStep == 13
Done == 14
Aborted == 15
NoTime == -1
Expired == -2
Running(c) == pc[c] \in 1..MaxStep
Pending(c) == pc[c] = Scheduled \/ Running(c)

CountsForPeak(c) == outcome[c] = "success" /\ Call[c].note # RetireWatch

\* Calls of a capability whose instant is at most a window before t.
InWindow(times, cap, t) ==
  {c \in Calls : /\ times[c] # NoTime /\ times[c] >= t - Day
                 /\ CapabilityOf[Call[c].model] = cap}

-----------------------------------------------------------------------------
StatsInit ==
  /\ now \in Instants /\ \A h \in Instants : now <= h
  /\ phase = "open"
  /\ pc = [c \in Calls |-> None]
  /\ outcome = [c \in Calls |-> "none"]
  /\ at = [c \in Calls |-> now]
  /\ window = [c \in Calls |-> 0]
  /\ inserts = {}
  /\ counted = [c \in Calls |-> {}]
  /\ req24h = [c \in Calls |-> NoTime]
  /\ failed24h = [c \in Calls |-> NoTime]
  /\ failures = [c \in Calls |-> NoTime]
  /\ peak = [k \in Capabilities |-> 0]
  /\ report = [pc |-> "idle"]
  /\ faults = 0

\* A call ends: the selector enqueues its record and, if it failed, the failure;
\* the API enqueues one terminal failure for a request that fails with it.
Enqueue(c, how) ==
  /\ phase = "open" /\ pc[c] = None
  /\ pc' = [pc EXCEPT ![c] = Scheduled]
  /\ outcome' = [outcome EXCEPT ![c] = how]
  /\ inserts' = inserts
       \cup {i \in {<<"failures", c>>} : how # "success"}
       \cup {i \in {<<"failed_24h", c>>} : how = "terminal" /\ Call[c].note # RetireWatch}
  /\ UNCHANGED <<now, phase, at, window, counted, req24h, peak, failed24h, failures, report, faults>>

\* The task runs for the first time and takes the instant of the call.
Begin(c) ==
  /\ pc[c] = Scheduled
  /\ pc' = [pc EXCEPT ![c] = 1]
  /\ at' = [at EXCEPT ![c] = now]
  /\ UNCHANGED <<outcome, window, counted, req24h, peak, now, phase, inserts, failed24h, failures, report, faults>>

\* One update_one with $inc, answered by the server.
Count(c) ==
  /\ pc[c] \in 1..LastCount
  /\ counted' = [counted EXCEPT ![c] = @ \cup {Plan(c)[pc[c]]}]
  /\ pc' = [pc EXCEPT ![c] = IF @ < LastCount \/ CountsForPeak(c) THEN @ + 1 ELSE Done]
  /\ UNCHANGED <<outcome, at, window, req24h, peak, now, phase, inserts, failed24h, failures, report, faults>>

\* _bump_peak_24h, its three awaits.
\* Mutant: the hit is stored with the instant it expires at.
InsertHitExpiry(c) ==
  /\ pc[c] = InsertStep
  /\ req24h' = [req24h EXCEPT ![c] = at[c] + Day]
  /\ pc' = [pc EXCEPT ![c] = CountStep]
  /\ UNCHANGED <<outcome, at, window, counted, peak, now, phase, inserts, failed24h, failures, report, faults>>

InsertHit(c) ==
  /\ pc[c] = InsertStep
  /\ req24h' = [req24h EXCEPT ![c] = at[c]]
  /\ pc' = [pc EXCEPT ![c] = CountStep]
  /\ UNCHANGED <<outcome, at, window, counted, peak, now, phase, inserts, failed24h, failures, report, faults>>

CountWindow(c) ==
  /\ pc[c] = CountStep
  /\ window' = [window EXCEPT ![c] =
                  Cardinality(InWindow(req24h, CapabilityOf[Call[c].model], at[c]))]
  /\ pc' = [pc EXCEPT ![c] = MaxStep]
  /\ UNCHANGED <<outcome, at, counted, req24h, peak, now, phase, inserts, failed24h, failures, report, faults>>

\* Mutant: $set instead of $max.
SetPeak(c) ==
  /\ pc[c] = MaxStep
  /\ peak' = [peak EXCEPT ![CapabilityOf[Call[c].model]] = window[c]]
  /\ pc' = [pc EXCEPT ![c] = Done]
  /\ UNCHANGED <<outcome, at, window, counted, req24h, now, phase, inserts, failed24h, failures, report, faults>>

RaisePeak(c) ==
  /\ pc[c] = MaxStep
  /\ peak' = [peak EXCEPT ![CapabilityOf[Call[c].model]] = IF window[c] > @ THEN window[c] ELSE @]
  /\ pc' = [pc EXCEPT ![c] = Done]
  /\ UNCHANGED <<outcome, at, window, counted, req24h, now, phase, inserts, failed24h, failures, report, faults>>

\* The server refuses a write or its answer is lost: record() logs and gives up
\* what is left of its plan.
Abort(c) ==
  /\ Running(c) /\ faults < MaxFaults
  /\ faults' = faults + 1
  /\ pc' = [pc EXCEPT ![c] = Aborted]
  /\ UNCHANGED <<outcome, at, window, counted, req24h, peak, now, phase, inserts, failed24h, failures, report>>

\* record_failure and record_terminal_failed: one insert each, or a logged error.
Insert(i) ==
  /\ i \in inserts
  /\ inserts' = inserts \ {i}
  /\ IF i[1] = "failures"
     THEN failures' = [failures EXCEPT ![i[2]] = now] /\ UNCHANGED failed24h
     ELSE failed24h' = [failed24h EXCEPT ![i[2]] = now] /\ UNCHANGED failures
  /\ UNCHANGED <<now, phase, writes, report, faults>>

InsertFails(i) ==
  /\ i \in inserts /\ faults < MaxFaults
  /\ faults' = faults + 1
  /\ inserts' = inserts \ {i}
  /\ UNCHANGED <<now, phase, writes, failed24h, failures, report>>

-----------------------------------------------------------------------------
(* Reading.  A page shows a row for each name; the model follows one of      *)
(* them, any one, through the three queries of a snapshot.                    *)

NoReport == [pc |-> "idle"]

\* to_list(length): all that a query finds, or any so many of it.
TooMany(found, length) == Cardinality(found) > length
Returned(found, length) ==
  IF TooMany(found, length) THEN {docs \in SUBSET found : Cardinality(docs) = length}
  ELSE {found}

Stored == UNION {counted[c] : c \in Calls}
Totals == {d \in Stored : d[1] = "total"}
FoundHours == {d \in Stored : d[1] = "hour" /\ d[2] >= report.hour_from}
FoundDays == {d \in Stored : d[1] = "day" /\ d[2] >= report.day_from}

\* _pivot_series: a row's documents, by model, provider, capability, note, or note and
\* model, and the calls that they count.
Grouped(docs, row) ==
  {d \in docs : CASE row[1] = "provider"   -> d[3][1] = "model" /\ ProviderOf[d[3][2]] = row[2]
                  [] row[1] = "capability" -> d[3][1] = "model" /\ CapabilityOf[d[3][2]] = row[2]
                  [] OTHER                 -> d[3] = row}

Series(docs, row) == UNION {Doc(d) : d \in Grouped(docs, row)}

\* snapshot(): the totals, then the hours, then the days, each from one query.  `cut`
\* are the series that had more documents than their query returns.
TotalsRead(row, docs) ==
  [pc |-> "totals", row |-> row, cut |-> {},
   hour_from |-> now - HourRange, day_from |-> DayOf(now) - DayRange,
   total |-> {c \in Calls : <<"total", 0, row>> \in docs \cap counted[c]}, hourly |-> {}]

ReadTotals(row) ==
  /\ phase = "open" /\ report = NoReport
  /\ \E docs \in Returned(Totals, TotalsLength) : report' = TotalsRead(row, docs)
  /\ UNCHANGED <<now, phase, inserts, writes, failed24h, failures, faults>>

Cut(grain, found, length) == report.cut \cup {g \in {grain} : TooMany(found, length)}

HoursRead(docs) ==
  [report EXCEPT !.pc = "hours", !.hourly = Series(docs, report.row),
                 !.cut = Cut("hour", FoundHours, HoursLength)]

ReadHours ==
  /\ phase = "open" /\ report.pc = "totals"
  /\ \E docs \in Returned(FoundHours, HoursLength) : report' = HoursRead(docs)
  /\ UNCHANGED <<now, phase, inserts, writes, failed24h, failures, faults>>

\* Mutant: the totals are read last.
PageWithNewTotals(docs) ==
  [total |-> Doc(<<"total", 0, report.row>>), hourly |-> report.hourly,
   daily |-> Series(docs, report.row), cut |-> Cut("day", FoundDays, DaysLength)]

\* What snapshot() returns of the row, once its last query has returned docs.
Page(docs) ==
  [total |-> report.total, hourly |-> report.hourly,
   daily |-> Series(docs, report.row), cut |-> Cut("day", FoundDays, DaysLength)]

\* The last query returns and the page is sent: it is Page(docs) for the docs that
\* the query may return now.
ReadDays ==
  /\ phase = "open" /\ report.pc = "hours"
  /\ report' = NoReport
  /\ UNCHANGED <<now, phase, inserts, writes, failed24h, failures, faults>>

\* snapshot_peak_24h for one capability.
Peak24h(cap) ==
  LET recent == Cardinality(InWindow(req24h, cap, now))
  IN [window |-> recent, peak |-> IF recent > peak[cap] THEN recent ELSE peak[cap],
      failed |-> Cardinality(InWindow(failed24h, cap, now))]

\* failure_snapshot: what it may find and return, and summarize_failures of that, by
\* model and by provider.
Recent(c) == failures[c] \in Instants /\ failures[c] >= now - FailureRange
RecentFailures == {c \in Calls : Recent(c)}
FailureSummary(docs) ==
  [by_model    |-> [m \in Models |-> {c \in docs : Call[c].model = m}],
   by_provider |-> [p \in Providers |-> {c \in docs : ProviderOf[Call[c].model] = p}]]

-----------------------------------------------------------------------------
(* The process and the server.                                              *)

\* lifespan after the client's own shutdown: close() gathers the pending tasks
\* before it lets go of the connection.
Close ==
  /\ phase = "open"
  /\ phase' = "draining"
  /\ report' = NoReport
  /\ UNCHANGED <<now, inserts, writes, failed24h, failures, faults>>

Drained == inserts = {} /\ \A c \in Calls : ~Pending(c)

Closed ==
  /\ phase = "draining" /\ Drained
  /\ phase' = "closed"
  /\ UNCHANGED <<now, inserts, writes, failed24h, failures, report, faults>>

Start ==
  /\ phase = "closed"
  /\ phase' = "open"
  /\ UNCHANGED <<now, inserts, writes, failed24h, failures, report, faults>>

\* The process dies and comes back: what is stored stays, every task is lost.
Crash ==
  /\ faults < MaxFaults
  /\ faults' = faults + 1
  /\ phase' = "open"
  /\ pc' = [c \in Calls |-> IF Pending(c) THEN Aborted ELSE pc[c]]
  /\ inserts' = {}
  /\ report' = NoReport
  /\ UNCHANGED <<now, outcome, at, window, counted, req24h, peak, failed24h, failures>>

\* The TTL indexes drop what is older than the window, some time after it is.
Expire(c) ==
  /\ req24h[c] # NoTime /\ req24h[c] < now - Day
  /\ req24h' = [req24h EXCEPT ![c] = NoTime]
  /\ UNCHANGED <<outcome, pc, at, window, counted, peak, now, phase, inserts, failed24h, failures, report, faults>>

ExpireFailed(c) ==
  /\ failed24h[c] # NoTime /\ failed24h[c] < now - Day
  /\ failed24h' = [failed24h EXCEPT ![c] = NoTime]
  /\ UNCHANGED <<now, phase, writes, inserts, failures, report, faults>>

ExpireFailure(c) ==
  /\ failures[c] \in Instants /\ failures[c] < now - FailureRange
  /\ failures' = [failures EXCEPT ![c] = Expired]
  /\ UNCHANGED <<now, phase, writes, inserts, failed24h, report, faults>>

Tick ==
  /\ now' \in {h \in Instants : h > now}
  /\ UNCHANGED <<phase, writes, inserts, failed24h, failures, report, faults>>

Record(c) == Begin(c) \/ Count(c) \/ InsertHit(c) \/ CountWindow(c) \/ RaisePeak(c)
Inserts == {"failures", "failed_24h"} \X Calls

StatsNext ==
  \/ \E c \in Calls : (\E how \in Outcomes[c] : Enqueue(c, how)) \/ Record(c) \/ Abort(c)
                        \/ Expire(c) \/ ExpireFailed(c) \/ ExpireFailure(c)
  \/ \E i \in Inserts : Insert(i) \/ InsertFails(i)
  \/ \E row \in Followed : ReadTotals(row)
  \/ ReadHours \/ ReadDays
  \/ Close \/ Closed \/ Start \/ Crash
  \/ Tick

StatsSpec == StatsInit /\ [][StatsNext]_statsVars
=============================================================================
