--------------------------- MODULE StatsStoreProps ---------------------------
(***************************************************************************)
(* What the stored statistics must keep to each other, whatever tasks,       *)
(* readers, failures and restarts do meanwhile.                              *)
(***************************************************************************)
EXTENDS StatsStore

\* Every variable keeps its type.
StatsTypeOK ==
  /\ now \in Instants
  /\ phase \in {"open", "draining", "closed"}
  /\ pc \in [Calls -> None..Aborted]
  /\ outcome \in [Calls -> {"none", "success", "failure", "terminal"}]
  /\ at \in [Calls -> Instants]
  /\ window \in [Calls -> Nat]
  /\ inserts \subseteq Inserts
  /\ counted \in [Calls -> SUBSET Documents]
  /\ req24h \in [Calls -> Instants \cup {NoTime}]
  /\ failed24h \in [Calls -> Instants \cup {NoTime}]
  /\ failures \in [Calls -> Instants \cup {NoTime, Expired}]
  /\ peak \in [Capabilities -> Nat]
  /\ report.pc \in {"idle", "totals", "hours"}
  /\ faults \in 0..MaxFaults

Total(scope, name) == Doc(<<"total", 0, <<scope, name>> >>)
Summed(grain, kind, name) == UNION {Doc(<<grain, b, <<kind, name>> >>) : b \in Buckets}
Complete == Drained /\ \A c \in Calls : pc[c] # Aborted

\* A call's failure is stored, and older than the failures page reaches.
TooOld(c) == failures[c] = Expired \/ (failures[c] \in Instants /\ ~Recent(c))

\* When no task is left and none was cut short, every view of the calls adds up:
\* hours, days and totals of a model, of a note and of the pairs of both, and the
\* models of a provider and of a capability with that one's own total; and the failures
\* page lists only what the counters say failed, and all of that which is not too old for
\* it (stats_store.py:123, 220), unless there is more than it fetches (:225).
ViewsAgree ==
  Complete =>
    /\ \A m \in Models :
         /\ Total("model", m) = Summed("day", "model", m)
         /\ Total("model", m) = Summed("hour", "model", m)
         /\ Total("model", m) = UNION {Summed("day", "note_model", <<n, m>>) : n \in Notes}
    /\ \A n \in Notes :
         /\ Total("notes", n) = Summed("day", "notes", n)
         /\ Total("notes", n) = Summed("hour", "notes", n)
    /\ \A p \in Providers :
         Total("provider", p) = UNION {Total("model", m) : m \in {x \in Models : ProviderOf[x] = p}}
    /\ \A k \in Capabilities :
         Total("capability", k)
           = UNION {Total("model", m) : m \in {x \in Models : CapabilityOf[x] = k}}
    /\ faults = 0 =>
         \A docs \in Returned(RecentFailures, FailuresLength), m \in Models :
           LET failed == {c \in Total("model", m) : outcome[c] # "success"}
               listed == FailureSummary(docs).by_model[m]
           IN  /\ listed \subseteq failed
               /\ ~TooMany(RecentFailures, FailuresLength) =>
                    \A c \in failed \ listed : TooOld(c)

\* A refused write, a lost answer or a crash leaves a call counted in part, and
\* always the same way round: the hour at least as much as the day, the day as the
\* model's total, and that as the totals of provider, capability and note.
NeverAhead ==
  \A m \in Models :
    /\ Summed("day", "model", m) \subseteq Summed("hour", "model", m)
    /\ Total("model", m) \subseteq Summed("day", "model", m)
    /\ \A n \in Notes :
         {c \in Total("notes", n) : Call[c].model = m}
           \subseteq Total("capability", CapabilityOf[m]) \cap Summed("hour", "note_model", <<n, m>>)
    /\ {c \in Total("capability", CapabilityOf[m]) : Call[c].model = m}
           \subseteq Total("provider", ProviderOf[m]) \cap Total("model", m)

\* A page never shows more in a total than in its own series, as far back as the
\* series reach, unless a series had more documents than its query returns
\* (stats_store.py:456-461): the three queries of a snapshot are apart, and calls are
\* counted between them.  The page is sent when its last query returns.
PagesAddUp ==
  report.pc = "hours" =>
    \A docs \in Returned(FoundDays, DaysLength) :
      LET page == Page(docs)
      IN  /\ "hour" \notin page.cut =>
               {c \in page.total : at[c] >= report.hour_from} \subseteq page.hourly
          /\ "day" \notin page.cut =>
               {c \in page.total : DayOf(at[c]) >= report.day_from} \subseteq page.daily

\* The stored peak has seen the busiest window: once the calls of a capability are
\* through, no window that can still be counted exceeds it, in whatever order their
\* inserts, counts and updates met, so the peak a page shows is the one stored.
PeakIsKept ==
  \A k \in Capabilities :
    (\A c \in Calls : CapabilityOf[Call[c].model] = k => ~Pending(c) /\ pc[c] # Aborted)
      => Peak24h(k).peak = peak[k]

==============================================================================
