--------------------------- MODULE RouterQueueProps ---------------------------
(***************************************************************************)
(* What callers of RouterClient may rely on, and what a shutdown owes them.  *)
(***************************************************************************)
EXTENDS RouterQueue

\* Every variable keeps its type; the queue never exceeds max_queue.
TypeOK ==
  /\ started \in BOOLEAN
  /\ queue \in Seq(Jobs \cup {Sentinel}) /\ Len(queue) <= MaxQueue
  /\ work \in [Workers -> Jobs \cup {Waiting, Gone}]
  /\ future \in [Jobs -> Futures]
  /\ stopper \in {"idle", "draining", "closing"}
  /\ toSend \in 0..Cardinality(Workers)
  /\ early \subseteq Jobs /\ dispatched \subseteq Jobs
  /\ stops \in 0..MaxStops

\* When a graceful shutdown has returned, every job that was queued or running
\* when it began has been resolved or given up by its caller
\* (the sentinels queue behind the jobs, queue_worker.py:119-121).
StoppedMeansServed == ~started => \A j \in early : future[j] # "pending"

\* While no shutdown runs, a started client has all its workers: cancelled jobs
\* take none away, and no sentinel survives a shutdown to end a worker of the
\* next start (queue_worker.py:222-228).
WorkersSurvive ==
  started /\ stopper = "idle" =>
    Sentinel \notin Queued /\ \A w \in Workers : work[w] # Gone

\* A worker dispatches a job once at most, and only while its caller waits
\* (queue_worker.py:229-230).
DispatchedOnceAndWanted ==
  [][\A w \in Workers :
       work[w] = Waiting /\ work'[w] \in Jobs =>
         work'[w] \notin dispatched /\ future[work'[w]] = "pending"]_vars

\* A caller whose job was accepted by a client that is not being shut down hears
\* of it, also when a graceful shutdown follows; only shutdown(graceful=False)
\* drops jobs, those it does not wait for.
Dropped(j) == stopper = "closing" /\ j \notin early

InGoodHands(j) ==
  started /\ stopper = "idle" /\ future[j] = "pending" /\ j \in Queued \cup Working

AcceptedAreHeard ==
  \A j \in Jobs : InGoodHands(j) ~> future[j] # "pending" \/ Dropped(j)

\* A shutdown returns, even one that finds the queue full.
ShutdownReturns == stopper # "idle" ~> stopper = "idle"
==============================================================================
