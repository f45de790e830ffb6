----------------------------- MODULE QuotaStore -----------------------------
(***************************************************************************)
(* The learned daily quotas (quota_learn.py) and the two states that keep    *)
(* them (persist.py): a JSON file that is replaced as a whole, or a Mongo    *)
(* collection with a document per model that receives what differs from the  *)
(* last write.  Every change cancels the timer and starts it anew; when it   *)
(* runs out undisturbed a snapshot is written in the background, and         *)
(* snapshots may overtake one another.                                       *)
(*                                                                          *)
(* A row keeps the day it counts, its successes, the learned quota and what  *)
(* remains of it.  The learned rpm is in module Limiter; a refusal per       *)
(* minute touches the row here.                                              *)
(***************************************************************************)
EXTENDS Integers, Sequences, SequencesExt, Functions

CONSTANTS
  Models,
  Backends,     \* where a start may find the rows: "json", "mongo"
  PruneDays,    \* a row older than this is dropped when rows are loaded
  MaxDay,       \* bound on days
  MaxSuccesses, \* bound on the successes of a model, on all days
  MaxWrites,    \* bound on writes in flight
  MaxStops      \* bound on shutdowns and crashes

ASSUME BoundAssumption ==
  /\ Backends \subseteq {"json", "mongo"} /\ "json" \in Backends
  /\ PruneDays \in Nat /\ MaxDay \in Nat /\ MaxSuccesses \in Nat
  /\ MaxWrites \in Nat /\ MaxStops \in Nat

VARIABLES
  day,
  succeeded,  \* what really happened: the successes of each model on each day
  phase,      \* of the process: "up", "attaching", "stopping", "stopped", "crashed"
  backend,
  mem,        \* _state.data
  timer,      \* the debounce timer: "off", "armed", or "due" once the delay has passed
  file,       \* quota_learned.json
  docs,       \* the collection quota_learned
  saved,      \* MongoState._saved
  flights,    \* writes begun and not finished, in the order they began
  disturbed,  \* a write was ever refused, or still in flight when the next began
  stops

ledger == <<day, succeeded>>
control == <<phase, backend, disturbed, stops>>
quotaVars == <<ledger, control, mem, timer, file, docs, saved, flights>>

-----------------------------------------------------------------------------
None == -1
NoRow == [day |-> None, ok |-> 0, learned |-> None, remaining |-> None]
Rows == [day : (0..MaxDay) \cup {None}, ok : Nat, learned : Nat \cup {None},
         remaining : Nat \cup {None}]
Nothing == [m \in Models |-> NoRow]

\* Mutant: a new day goes on counting.
RollKeepsCount(row) ==
  IF row.day = day THEN row ELSE [row EXCEPT !.day = day, !.remaining = row.learned]

\* Mutant: the row is dated a day ahead.
RollAhead(row) ==
  IF row.day = day + 1 THEN row
  ELSE [day |-> day + 1, ok |-> 0, learned |-> row.learned, remaining |-> row.learned]

\* _row: the row as of today.
Roll(row) ==
  IF row.day = day THEN row
  ELSE [day |-> day, ok |-> 0, learned |-> row.learned, remaining |-> row.learned]

\* _prune_old
Pruned(rows) == [m \in Models |-> IF rows[m].day < day - PruneDays THEN NoRow ELSE rows[m]]

Larger(a, b) == IF a > b THEN a ELSE b

Flight(kind, old) ==
  [kind |-> kind, snapshot |-> mem', applied |-> FALSE,
   ops |-> {m \in Models : kind = "mongo" /\ mem'[m] # old[m]}]

\* A snapshot is taken of the rows as they now are and its write begins.
\* JsonState: in an executor thread; MongoState: what differs from _saved, if anything.
Write(kind, old) ==
  LET flight == Flight(kind, old)
  IN IF kind = "mongo" /\ flight.ops = {}
     THEN saved' = mem' /\ UNCHANGED <<flights, disturbed>>
     ELSE /\ flights' = Append(flights, flight)
          /\ disturbed' = (disturbed \/ flights # <<>>)
          /\ saved' = old

QuotaInit ==
  /\ day = 0
  /\ succeeded = [m \in Models |-> [d \in 0..MaxDay |-> 0]]
  /\ phase = "stopped" /\ backend = "json"
  /\ mem = Nothing /\ file = Nothing /\ docs = Nothing /\ saved = Nothing
  /\ timer = "off"
  /\ flights = <<>>
  /\ disturbed = FALSE
  /\ stops = 0

-----------------------------------------------------------------------------
(* The learner.                                                             *)

Change(m, row) ==
  /\ mem' = [mem EXCEPT ![m] = row]
  /\ timer' = "armed"

Successes(m) == FoldFunction(+, 0, succeeded[m])

RecordSuccess(m) ==
  LET row == Roll(mem[m])
      ok == row.ok + 1
  IN /\ phase = "up" /\ Successes(m) < MaxSuccesses
     /\ succeeded' = [succeeded EXCEPT ![m][day] = @ + 1]
     /\ Change(m, [row EXCEPT !.ok = ok,
                     !.remaining = IF row.learned = None THEN @ ELSE Larger(0, row.learned - ok)])
     /\ UNCHANGED <<day, control, file, docs, saved, flights>>

\* The quota that a daily or credit limit teaches.
Learned(row) == IF row.ok > 0 THEN Larger(row.learned, row.ok) ELSE row.learned

\* Mutant: a limit leaves the rest as it was.
RecordLimitKeepsRest(m) ==
  LET row == Roll(mem[m])
  IN /\ phase = "up"
     /\ Change(m, [row EXCEPT !.learned = Learned(row)])
     /\ UNCHANGED <<ledger, control, file, docs, saved, flights>>

\* record_limit for "daily" and "credit".
RecordLimit(m) ==
  LET row == Roll(mem[m])
  IN /\ phase = "up"
     /\ Change(m, [row EXCEPT !.learned = Learned(row), !.remaining = 0])
     /\ UNCHANGED <<ledger, control, file, docs, saved, flights>>

\* record_limit for any other kind, and record_rate_limit: the row is brought up to
\* the day.
RecordOther(m) ==
  /\ phase = "up"
  /\ Change(m, Roll(mem[m]))
  /\ UNCHANGED <<ledger, control, file, docs, saved, flights>>

\* remaining_rpd and snapshot bring a row up to the day too, and mark nothing.
Read(m) ==
  /\ phase = "up" /\ mem[m].learned # None
  /\ mem' = [mem EXCEPT ![m] = Roll(@)]
  /\ UNCHANGED <<ledger, control, timer, file, docs, saved, flights>>

NextDay ==
  /\ day < MaxDay
  /\ day' = day + 1
  /\ UNCHANGED <<succeeded, control, mem, timer, file, docs, saved, flights>>

-----------------------------------------------------------------------------
(* Writing.                                                                 *)

\* The delay passes without a change.
Elapse ==
  /\ timer = "armed"
  /\ timer' = "due"
  /\ UNCHANGED <<ledger, control, mem, file, docs, saved, flights>>

\* Mutant: the timer is not cleared when it fires.
TimerFiresAgain ==
  /\ phase = "up" /\ timer = "due" /\ Len(flights) < MaxWrites
  /\ UNCHANGED <<timer, mem>>
  /\ Write(backend, saved)
  /\ UNCHANGED <<ledger, phase, backend, stops, file, docs>>

\* The timer fires: JsonState._flush_async, or MongoState._kick and the start of aflush.
TimerFires ==
  /\ phase = "up" /\ timer = "due" /\ Len(flights) < MaxWrites
  /\ timer' = "off"
  /\ UNCHANGED mem
  /\ Write(backend, saved)
  /\ UNCHANGED <<ledger, phase, backend, stops, file, docs>>

\* atomic_write in its thread: the file is replaced.
WriteFile(i) ==
  /\ flights[i].kind = "json"
  /\ file' = flights[i].snapshot
  /\ flights' = RemoveAt(flights, i)
  /\ UNCHANGED <<ledger, control, mem, timer, docs, saved>>

\* The server executes a bulk_write.
ApplyBulk(i) ==
  /\ flights[i].kind = "mongo" /\ ~flights[i].applied
  /\ docs' = [m \in Models |-> IF m \in flights[i].ops THEN flights[i].snapshot[m] ELSE docs[m]]
  /\ flights' = [flights EXCEPT ![i].applied = TRUE]
  /\ UNCHANGED <<ledger, control, mem, timer, file, saved>>

\* Mutant: what is in memory now counts as saved.
BulkReturnsWithMemory(i) ==
  /\ flights[i].applied
  /\ saved' = mem
  /\ flights' = RemoveAt(flights, i)
  /\ UNCHANGED <<ledger, control, mem, timer, file, docs>>

\* aflush goes on after bulk_write.
BulkReturns(i) ==
  /\ flights[i].applied
  /\ saved' = flights[i].snapshot
  /\ flights' = RemoveAt(flights, i)
  /\ UNCHANGED <<ledger, control, mem, timer, file, docs>>

\* A write fails: the thread's error is nobody's, aflush logs it and keeps _saved.  Some
\* operations of an unordered bulk may have been executed.
WriteFails(i) ==
  /\ flights' = RemoveAt(flights, i)
  /\ disturbed' = TRUE
  /\ \E done \in SUBSET {m \in flights[i].ops : flights[i].kind = "mongo"} :
       docs' = [m \in Models |-> IF m \in done THEN flights[i].snapshot[m] ELSE docs[m]]
  /\ UNCHANGED <<ledger, phase, backend, stops, mem, timer, file, saved>>

-----------------------------------------------------------------------------
(* Shutdown, crash and start.                                               *)

\* shutdown awaits aflush: the file is written at once, past any thread still at work,
\* or atomic_write raises; the collection through a last bulk_write.
Shutdown ==
  /\ phase = "up" /\ stops < MaxStops
  /\ phase' = "stopping" /\ stops' = stops + 1
  /\ timer' = "off"
  /\ UNCHANGED mem
  /\ IF backend = "json"
     THEN /\ \/ file' = mem /\ disturbed' = (disturbed \/ flights # <<>>)
             \/ disturbed' = TRUE /\ UNCHANGED file
          /\ UNCHANGED <<flights, saved>>
     ELSE Write("mongo", saved) /\ UNCHANGED file
  /\ UNCHANGED <<ledger, backend, docs>>

\* The loop ends when its threads and the last write are done.
Stopped ==
  /\ phase = "stopping" /\ flights = <<>>
  /\ phase' = "stopped"
  /\ UNCHANGED <<ledger, backend, disturbed, stops, mem, timer, file, docs, saved, flights>>

\* What is in memory and in flight is lost.
Crash ==
  /\ phase \in {"up", "attaching", "stopping"} /\ stops < MaxStops
  /\ phase' = "crashed" /\ stops' = stops + 1
  /\ timer' = "off"
  /\ flights' = <<>>
  /\ mem' = Nothing /\ saved' = Nothing
  /\ UNCHANGED <<ledger, backend, disturbed, file, docs>>

\* The learner loads the file; nothing else is attached.
StartOnFile ==
  /\ phase \in {"stopped", "crashed"}
  /\ phase' = "up" /\ backend' = "json"
  /\ mem' = Pruned(file) /\ saved' = Nothing
  /\ UNCHANGED <<ledger, disturbed, stops, timer, file, docs, flights>>

\* attach_mongo: what the collection holds is taken, or an empty one is filled from the
\* file, and the difference is written before the first request.
StartOnMongo ==
  /\ phase \in {"stopped", "crashed"} /\ "mongo" \in Backends
  /\ phase' = "attaching" /\ backend' = "mongo"
  /\ mem' = Pruned(IF docs = Nothing THEN Pruned(file) ELSE docs)
  /\ Write("mongo", docs)
  /\ UNCHANGED <<ledger, stops, timer, file, docs>>

Attached ==
  /\ phase = "attaching" /\ flights = <<>>
  /\ phase' = "up"
  /\ UNCHANGED <<ledger, backend, disturbed, stops, mem, timer, file, docs, saved, flights>>

Landing(i) == WriteFile(i) \/ ApplyBulk(i) \/ BulkReturns(i)

QuotaNext ==
  \/ \E m \in Models : RecordSuccess(m) \/ RecordLimit(m) \/ RecordOther(m) \/ Read(m)
  \/ NextDay
  \/ Elapse \/ TimerFires
  \/ \E i \in DOMAIN flights : Landing(i) \/ WriteFails(i)
  \/ Shutdown \/ Stopped \/ Crash \/ StartOnFile \/ StartOnMongo \/ Attached

QuotaSpec == QuotaInit /\ [][QuotaNext]_quotaVars

\* The delay passes and the event loop calls what is due, unless a change comes first
\* and puts it off: changes without end starve TimerFires.  A write ends, one way or
\* the other.
FairQuotaSpec ==
  /\ QuotaSpec
  /\ WF_quotaVars(Elapse) /\ WF_quotaVars(TimerFires)
  /\ WF_quotaVars(Stopped) /\ WF_quotaVars(Attached)
  /\ WF_quotaVars(\E i \in DOMAIN flights : Landing(i) \/ WriteFails(i))
=============================================================================
