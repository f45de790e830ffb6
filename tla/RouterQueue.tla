----------------------------- MODULE RouterQueue -----------------------------
(***************************************************************************)
(* RouterClient's job queue (llmcascade/queue_worker.py): callers submit     *)
(* jobs to a bounded queue and wait for their futures, workers take and       *)
(* dispatch them, and a graceful shutdown sends one sentinel per worker down  *)
(* the same queue.  A later submit starts the client again.                   *)
(*                                                                         *)
(* One asyncio event loop: what the code does between two suspensions is one  *)
(* action.  What a dispatch does is the subject of Dispatch.                  *)
(***************************************************************************)
EXTENDS Naturals, Sequences, FiniteSets

CONSTANTS
  Jobs,      \* each is submitted at most once
  Workers,
  MaxQueue,  \* max_queue
  Sentinel,  \* the None that ends a worker
  Waiting,   \* a worker in queue.get()
  Gone,      \* a worker whose task has ended or was never started
  Abrupt,    \* whether somebody calls shutdown(graceful=False)
  MaxStops   \* bound: shutdowns

ASSUME QueueAssumption ==
  /\ Workers # {} /\ IsFiniteSet(Workers)
  /\ MaxQueue \in Nat \ {0} /\ MaxStops \in Nat
  /\ Abrupt \in BOOLEAN
  /\ Sentinel \notin Jobs /\ Waiting \notin Jobs /\ Gone \notin Jobs
  /\ Waiting # Gone

VARIABLES
  started,    \* _started
  queue,
  work,       \* the job each worker dispatches
  future,     \* what the caller of each job sees
  stopper,    \* where shutdown() is
  toSend,     \* the sentinels it has still to put
  early,      \* history: the jobs in the client's hands when the last graceful shutdown began
  dispatched, \* history: the jobs a worker has dispatched
  stops       \* shutdowns so far

vars == <<started, queue, work, future, stopper, toSend, early, dispatched, stops>>

Futures == {"none", "pending", "resolved", "cancelled", "rejected"}
Queued == {queue[i] : i \in 1..Len(queue)}
Working == {work[w] : w \in Workers}

-----------------------------------------------------------------------------
\* submit: starts the client if need be, and either finds room or fails at once.
Submit(j) ==
  /\ future[j] = "none"
  /\ started' = TRUE
  /\ work' = IF started THEN work ELSE [w \in Workers |-> Waiting]
  /\ IF Len(queue) < MaxQueue
     THEN queue' = Append(queue, j) /\ future' = [future EXCEPT ![j] = "pending"]
     ELSE queue' = queue /\ future' = [future EXCEPT ![j] = "rejected"]
  /\ UNCHANGED <<stopper, toSend, early, dispatched, stops>>

\* The caller stops waiting; whoever holds the job is not told.
Cancel(j) ==
  /\ future[j] = "pending"
  /\ future' = [future EXCEPT ![j] = "cancelled"]
  /\ UNCHANGED <<started, queue, work, stopper, toSend, early, dispatched, stops>>

\* Mutant: a worker does not look whether the caller is still there.
TakeAnyway(w) ==
  /\ work[w] = Waiting /\ queue # <<>>
  /\ queue' = Tail(queue)
  /\ LET item == Head(queue) IN
     IF item = Sentinel
     THEN work' = [work EXCEPT ![w] = Gone] /\ UNCHANGED dispatched
     ELSE work' = [work EXCEPT ![w] = item] /\ dispatched' = dispatched \cup {item}
  /\ UNCHANGED <<started, future, stopper, toSend, early, stops>>

\* Mutant: a cancelled job ends the worker like a sentinel (return for continue).
TakeReturning(w) ==
  /\ work[w] = Waiting /\ queue # <<>>
  /\ queue' = Tail(queue)
  /\ LET item == Head(queue) IN
     IF item = Sentinel \/ future[item] = "cancelled"
     THEN work' = [work EXCEPT ![w] = Gone] /\ UNCHANGED dispatched
     ELSE work' = [work EXCEPT ![w] = item] /\ dispatched' = dispatched \cup {item}
  /\ UNCHANGED <<started, future, stopper, toSend, early, stops>>

\* A worker takes the next item.
Take(w) ==
  /\ work[w] = Waiting /\ queue # <<>>
  /\ queue' = Tail(queue)
  /\ LET item == Head(queue) IN
     IF item = Sentinel
     THEN work' = [work EXCEPT ![w] = Gone] /\ UNCHANGED dispatched
     ELSE IF future[item] = "cancelled"
     THEN UNCHANGED <<work, dispatched>>
     ELSE work' = [work EXCEPT ![w] = item] /\ dispatched' = dispatched \cup {item}
  /\ UNCHANGED <<started, future, stopper, toSend, early, stops>>

\* Its dispatch ends, well or badly; the future may have been cancelled meanwhile.
Finish(w) ==
  /\ work[w] \in Jobs
  /\ future' = [future EXCEPT ![work[w]] = IF @ = "pending" THEN "resolved" ELSE @]
  /\ work' = [work EXCEPT ![w] = Waiting]
  /\ UNCHANGED <<started, queue, stopper, toSend, early, dispatched, stops>>

-----------------------------------------------------------------------------
\* shutdown: puts as many sentinels as there is room for before it suspends.
Sendable(n) == IF n < MaxQueue - Len(queue) THEN n ELSE MaxQueue - Len(queue)

SendSentinels(n) ==
  /\ queue' = queue \o [i \in 1..Sendable(n) |-> Sentinel]
  /\ toSend' = n - Sendable(n)

\* Mutant: one sentinel too few.
StopGracefullyShort ==
  /\ started /\ stopper = "idle" /\ stops < MaxStops
  /\ stops' = stops + 1
  /\ stopper' = "draining"
  /\ SendSentinels(Cardinality(Workers) - 1)
  /\ early' = (Queued \cup Working) \cap Jobs
  /\ UNCHANGED <<started, work, future, dispatched>>

\* Mutant: the sentinels overtake the jobs that wait.
StopGracefullyFirst ==
  /\ started /\ stopper = "idle" /\ stops < MaxStops
  /\ stops' = stops + 1
  /\ stopper' = "draining"
  /\ queue' = [i \in 1..Sendable(Cardinality(Workers)) |-> Sentinel] \o queue
  /\ toSend' = Cardinality(Workers) - Sendable(Cardinality(Workers))
  /\ early' = (Queued \cup Working) \cap Jobs
  /\ UNCHANGED <<started, work, future, dispatched>>

StopGracefully ==
  /\ started /\ stopper = "idle" /\ stops < MaxStops
  /\ stops' = stops + 1
  /\ stopper' = "draining"
  /\ SendSentinels(Cardinality(Workers))
  /\ early' = (Queued \cup Working) \cap Jobs
  /\ UNCHANGED <<started, work, future, dispatched>>

\* A full queue has made room for more of them.
SendMore ==
  /\ stopper = "draining" /\ toSend > 0 /\ Len(queue) < MaxQueue
  /\ SendSentinels(toSend)
  /\ UNCHANGED <<started, work, future, stopper, early, dispatched, stops>>

\* All workers have returned; the HTTP client is being closed.
WorkersGathered ==
  /\ stopper = "draining" /\ toSend = 0
  /\ \A w \in Workers : work[w] = Gone
  /\ stopper' = "closing"
  /\ UNCHANGED <<started, queue, work, future, toSend, early, dispatched, stops>>

\* shutdown(graceful=False) cancels the workers where they are; a dispatch that
\* is cancelled resolves nothing.
StopAbruptly ==
  /\ Abrupt
  /\ started /\ stopper = "idle" /\ stops < MaxStops
  /\ stops' = stops + 1
  /\ stopper' = "closing"
  /\ work' = [w \in Workers |-> Gone]
  /\ early' = {}
  /\ UNCHANGED <<started, queue, future, toSend, dispatched>>

Stopped ==
  /\ stopper = "closing"
  /\ stopper' = "idle"
  /\ started' = FALSE
  /\ UNCHANGED <<queue, work, future, toSend, early, dispatched, stops>>

Shutdown == SendMore \/ WorkersGathered \/ Stopped

-----------------------------------------------------------------------------
Init ==
  /\ started = FALSE
  /\ queue = <<>>
  /\ work = [w \in Workers |-> Gone]
  /\ future = [j \in Jobs |-> "none"]
  /\ stopper = "idle"
  /\ toSend = 0
  /\ early = {}
  /\ dispatched = {}
  /\ stops = 0

Next ==
  \/ \E j \in Jobs : Submit(j) \/ Cancel(j)
  \/ \E w \in Workers : Take(w) \/ Finish(w)
  \/ StopGracefully \/ StopAbruptly \/ Shutdown

Spec == Init /\ [][Next]_vars

\* Workers and the shutdown are tasks of the loop, and every dispatch ends
\* (RequestsFinish of DispatchProps).  Callers and operators owe nothing.
FairSpec ==
  /\ Spec
  /\ \A w \in Workers : WF_vars(Take(w)) /\ WF_vars(Finish(w))
  /\ WF_vars(Shutdown)
==============================================================================
