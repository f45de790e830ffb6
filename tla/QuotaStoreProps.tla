-------------------------- MODULE QuotaStoreProps --------------------------
(***************************************************************************)
(* What the learned quotas and their stores must keep.                       *)
(***************************************************************************)
EXTENDS QuotaStore

\* Every variable keeps its type.
QuotaTypeOK ==
  /\ day \in 0..MaxDay
  /\ succeeded \in [Models -> [0..MaxDay -> Nat]]
  /\ phase \in {"up", "attaching", "stopping", "stopped", "crashed"}
  /\ backend \in Backends
  /\ {mem, file, docs, saved} \subseteq [Models -> Rows]
  /\ timer \in {"off", "armed", "due"}
  /\ \A i \in DOMAIN flights :
       /\ flights[i].kind \in Backends /\ flights[i].snapshot \in [Models -> Rows]
       /\ flights[i].ops \subseteq Models /\ flights[i].applied \in BOOLEAN
  /\ disturbed \in BOOLEAN
  /\ stops \in 0..MaxStops

\* Every copy of a row, wherever it is.
Copies(m) == {mem[m], file[m], docs[m], saved[m]} \cup {flights[i].snapshot[m] : i \in DOMAIN flights}

\* No copy of a row counts more successes than the model had on that day, and no
\* quota is learned that some day's successes did not show: snapshots that overtake
\* one another, crashes, restarts from an older store and the move from the file to
\* Mongo may forget successes and never count one twice.
CountsAreReal ==
  \A m \in Models : \A row \in Copies(m) :
    /\ row.day # None => row.ok <= succeeded[m][row.day]
    /\ row.learned # None => \E d \in 0..MaxDay : row.learned <= succeeded[m][d]

\* What a row says remains is what the learned quota leaves, or nothing: never a rest
\* of another day or of a quota it no longer has.
RestFitsQuota ==
  \A m \in Models : \A row \in Copies(m) :
    row.learned # None => row.remaining \in {0, Larger(0, row.learned - row.ok)}

\* Once the timer has fired and the writes are done, the store holds what memory holds,
\* up to the change of day that reading a row makes, through changes made while a write
\* was under way, pruned rows, the first fill of an empty collection and a shutdown:
\* if no write was refused and none was still under way when the next began.  A row
\* may differ in one way only: it is gone from memory, dropped when the file was loaded,
\* and the file still has it, older than PruneDays.
Stored == IF backend = "json" THEN file ELSE docs
Quiet == phase \in {"up", "stopped"} /\ timer = "off" /\ flights = <<>>

HoldsMemory ==
  \A m \in Models :
    \/ Roll(Stored[m]) = Roll(mem[m])
    \/ mem[m] = NoRow /\ Stored[m].day < day - PruneDays

StoredWhenQuiet == Quiet /\ ~disturbed => HoldsMemory

\* A lull is enough: once calls change no row any more, the timer fires, the writes end,
\* and from then on the store holds what memory holds, unless writes overlapped or were
\* refused, or the process died.  Without a lull nothing need ever be written: each
\* change puts the timer off, and a change every two seconds puts it off for ever.
AChange == \E m \in Models : RecordSuccess(m) \/ RecordLimit(m) \/ RecordOther(m)

ALullSuffices ==
  <>[][~AChange]_quotaVars =>
    <>[](\/ Quiet /\ (disturbed \/ HoldsMemory)
         \/ phase = "crashed")
==============================================================================
