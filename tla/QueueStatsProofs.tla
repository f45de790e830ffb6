--------------------------- MODULE QueueStatsProofs ---------------------------
(***************************************************************************)
(* Theorems about what works beside the requests.  First about RouterQueue,   *)
(* for any jobs, workers and queue length: the type invariant, that workers   *)
(* survive, and that a graceful shutdown serves what it found; the argument   *)
(* counts sentinels: while a shutdown drains, the queue and the shutdown hold *)
(* one for each worker that is left.  Then about StatsStore, for any calls,   *)
(* models, notes, instants and pages: types, that the counters of a call are  *)
(* written in one order whatever cuts it short, so that they agree, that pages *)
(* add up, and that the stored peak misses no window.                         *)
(***************************************************************************)
EXTENDS RouterQueueProps, StatsStoreProps, FiniteSetTheorems, SequenceTheorems, TLAPS

Items == Jobs \cup {Sentinel}

(***************************************************************************)
(* Sentinels in a queue.                                                    *)
(***************************************************************************)
SentinelsAt(q) == {i \in 1..Len(q) : q[i] = Sentinel}
Sentinels(q) == Cardinality(SentinelsAt(q))

LEMMA SentinelsFinite ==
  ASSUME NEW q \in Seq(Items)
  PROVE  IsFiniteSet(SentinelsAt(q)) /\ Sentinels(q) \in Nat
  <1>1. IsFiniteSet(1..Len(q))
    BY FS_Interval
  <1>2. SentinelsAt(q) \in SUBSET (1..Len(q))
    BY DEF SentinelsAt
  <1> QED BY <1>1, <1>2, FS_Subset, FS_CardinalityType DEF Sentinels

LEMMA NoSentinels ==
  ASSUME NEW q \in Seq(Items)
  PROVE  Sentinels(q) = 0 <=> \A i \in 1..Len(q) : q[i] # Sentinel
  <1>1. Sentinels(q) = 0 <=> SentinelsAt(q) = {}
    BY SentinelsFinite, FS_EmptySet DEF Sentinels
  <1> QED BY <1>1 DEF SentinelsAt

LEMMA SentinelsAppendJob ==
  ASSUME NEW q \in Seq(Items), NEW j \in Jobs
  PROVE  Sentinels(Append(q, j)) = Sentinels(q)
  <1>1. j # Sentinel
    BY QueueAssumption
  <1>2. SentinelsAt(Append(q, j)) = SentinelsAt(q)
    BY <1>1 DEF SentinelsAt
  <1> QED BY <1>2 DEF Sentinels

\* Taking the head shifts the positions of the others by one.
LEMMA SentinelsTail ==
  ASSUME NEW q \in Seq(Items), q # <<>>
  PROVE  Sentinels(q) = Sentinels(Tail(q)) + (IF Head(q) = Sentinel THEN 1 ELSE 0)
  <1> DEFINE T == SentinelsAt(Tail(q))
             U == SentinelsAt(q) \ {1}
             f == [i \in T |-> i + 1]
  <1>0. Tail(q) \in Seq(Items) /\ Len(Tail(q)) = Len(q) - 1 /\ Len(q) \in Nat \ {0}
    BY EmptySeq, HeadTailProperties
  <1>1. \A i \in 1..Len(Tail(q)) : Tail(q)[i] = q[i + 1]
    BY <1>0
  <1>2. f \in [T -> U]
    BY <1>0, <1>1 DEF SentinelsAt
  <1>3. \A a, b \in T : f[a] = f[b] => a = b
    BY <1>0 DEF SentinelsAt
  <1>4. \A u \in U : \E t \in T : f[t] = u
    <2> SUFFICES ASSUME NEW u \in U PROVE u - 1 \in T /\ f[u - 1] = u
      OBVIOUS
    <2>1. u \in 2..Len(q) /\ q[u] = Sentinel
      BY <1>0 DEF SentinelsAt
    <2>2. u - 1 \in 1..Len(Tail(q)) /\ Tail(q)[u - 1] = q[u]
      BY <1>0, <1>1, <2>1
    <2>3. u - 1 \in T
      BY <2>1, <2>2 DEF SentinelsAt
    <2>4. u - 1 + 1 = u
      BY <2>1
    <2> QED BY <2>3, <2>4
  <1>5. f \in Bijection(T, U)
    BY <1>2, <1>3, <1>4 DEF Bijection, Injection, Surjection, IsInjective
  <1>6. ExistsBijection(T, U)
    BY <1>5 DEF ExistsBijection
  <1>7. Cardinality(U) = Cardinality(T)
    BY <1>0, <1>6, SentinelsFinite, FS_Bijection
  <1>8. 1 \in SentinelsAt(q) <=> Head(q) = Sentinel
    BY <1>0 DEF SentinelsAt
  <1>9. Cardinality(U) =
          IF 1 \in SentinelsAt(q) THEN Cardinality(SentinelsAt(q)) - 1
          ELSE Cardinality(SentinelsAt(q))
    BY SentinelsFinite, FS_RemoveElement
  <1> QED BY <1>0, <1>7, <1>8, <1>9, SentinelsFinite DEF Sentinels

LEMMA IntervalSize ==
  ASSUME NEW a \in Nat, NEW k \in Nat
  PROVE  IsFiniteSet((a + 1)..(a + k)) /\ Cardinality((a + 1)..(a + k)) = k
  <1> DEFINE lo == a + 1
             hi == a + k
  <1>1. lo \in Int /\ hi \in Int /\ (IF lo > hi THEN 0 ELSE hi - lo + 1) = k
    OBVIOUS
  <1> HIDE DEF lo, hi
  <1>2. IsFiniteSet(lo..hi) /\ Cardinality(lo..hi) = IF lo > hi THEN 0 ELSE hi - lo + 1
    BY <1>1, FS_Interval
  <1>3. IsFiniteSet(lo..hi) /\ Cardinality(lo..hi) = k
    BY <1>1, <1>2
  <1> QED BY <1>3 DEF lo, hi

LEMMA SentinelsBehind ==
  ASSUME NEW q \in Seq(Items), NEW k \in Nat, NEW p, p = q \o [i \in 1..k |-> Sentinel]
  PROVE  /\ p \in Seq(Items) /\ Len(p) = Len(q) + k
         /\ \A i \in 1..Len(q) : i \in 1..Len(p) /\ p[i] = q[i]
         /\ Sentinels(p) = Sentinels(q) + k
  <1> DEFINE s == [i \in 1..k |-> Sentinel]
             new == (Len(q) + 1)..(Len(q) + k)
  <1>1. s \in Seq(Items) /\ Len(s) = k /\ Len(q) \in Nat
    BY LenProperties DEF Items
  <1>2. /\ p \in Seq(Items) /\ Len(p) = Len(q) + k
        /\ \A i \in 1..(Len(q) + k) : p[i] = IF i <= Len(q) THEN q[i] ELSE s[i - Len(q)]
    <2> HIDE DEF s
    <2>1. p = q \o s
      BY DEF s
    <2>2. /\ q \o s \in Seq(Items)
          /\ Len(q \o s) = Len(q) + Len(s)
          /\ \A i \in 1..Len(q) + Len(s) :
               (q \o s)[i] = IF i <= Len(q) THEN q[i] ELSE s[i - Len(q)]
      BY <1>1, ConcatProperties
    <2> QED BY <1>1, <2>1, <2>2
  <1>3. SentinelsAt(p) = SentinelsAt(q) \cup new
    BY <1>1, <1>2 DEF SentinelsAt
  <1>4. SentinelsAt(q) \cap new = {}
    BY <1>1 DEF SentinelsAt
  <1>5. IsFiniteSet(new) /\ Cardinality(new) = k
    BY <1>1, IntervalSize
  <1>6. IsFiniteSet(SentinelsAt(q)) /\ Sentinels(q) \in Nat
    BY SentinelsFinite
  <1> HIDE DEF new, s
  <1>7. Cardinality(SentinelsAt(q) \cup new) =
          Cardinality(SentinelsAt(q)) + Cardinality(new) - Cardinality({})
    BY <1>4, <1>5, <1>6, FS_Union
  <1>8. Sentinels(p) = Sentinels(q) + k
    <2>1. Cardinality({}) = 0
      BY FS_EmptySet
    <2>2. Cardinality(SentinelsAt(p)) = Cardinality(SentinelsAt(q) \cup new)
      BY <1>3
    <2>3. Cardinality(SentinelsAt(p)) = Cardinality(SentinelsAt(q)) + k - 0
      BY <1>5, <1>7, <2>1, <2>2
    <2>4. Sentinels(p) = Sentinels(q) + k - 0
      BY <2>3 DEF Sentinels
    <2> QED BY <1>6, <2>4
  <1>9. \A i \in 1..Len(q) : i \in 1..Len(p) /\ p[i] = q[i]
    BY <1>1, <1>2
  <1> QED BY <1>2, <1>8, <1>9

\* The shutdown puts sentinels behind what is queued; none is lost.
LEMMA SentinelsSent ==
  ASSUME queue \in Seq(Items), Len(queue) <= MaxQueue, NEW n \in Nat, SendSentinels(n)
  PROVE  /\ queue' \in Seq(Items) /\ Len(queue') <= MaxQueue
         /\ toSend' \in 0..n
         /\ Sentinels(queue') + toSend' = Sentinels(queue) + n
         /\ \A i \in 1..Len(queue) : i \in 1..Len(queue') /\ queue'[i] = queue[i]
  <1> DEFINE k == Sendable(n)
  <1>1. k \in 0..n /\ k <= MaxQueue - Len(queue) /\ Len(queue) \in Nat /\ MaxQueue \in Nat
    <2>1. Len(queue) \in Nat /\ MaxQueue \in Nat
      BY QueueAssumption, LenProperties
    <2> QED BY <2>1 DEF Sendable
  <1>2. queue' = queue \o [i \in 1..k |-> Sentinel] /\ toSend' = n - k
    BY DEF SendSentinels
  <1> HIDE DEF k
  <1>3. k \in Nat
    BY <1>1
  <1>4. /\ queue' \in Seq(Items) /\ Len(queue') = Len(queue) + k
        /\ \A i \in 1..Len(queue) : i \in 1..Len(queue') /\ queue'[i] = queue[i]
        /\ Sentinels(queue') = Sentinels(queue) + k
    <2> DEFINE longer == queue \o [i \in 1..k |-> Sentinel]
    <2>1. /\ longer \in Seq(Items) /\ Len(longer) = Len(queue) + k
          /\ \A i \in 1..Len(queue) : i \in 1..Len(longer) /\ longer[i] = queue[i]
          /\ Sentinels(longer) = Sentinels(queue) + k
      BY <1>3, SentinelsBehind
    <2>2. queue' = longer
      BY <1>2
    <2> HIDE DEF longer
    <2> QED BY <2>1, <2>2
  <1>5. Sentinels(queue) \in Nat
    BY SentinelsFinite
  <1> QED BY <1>1, <1>2, <1>4, <1>5

(***************************************************************************)
(* Type correctness.                                                       *)
(***************************************************************************)
LEMMA WorkersFinite ==
  IsFiniteSet(Workers) /\ Cardinality(Workers) \in Nat
  BY QueueAssumption, FS_CardinalityType

LEMMA TypeInit == Init => TypeOK
  <1>1. 0 \in 0..Cardinality(Workers) /\ 0 \in 0..MaxStops /\ 0 <= MaxQueue
    BY WorkersFinite, QueueAssumption
  <1>2. ASSUME Init PROVE queue \in Seq(Jobs \cup {Sentinel}) /\ Len(queue) <= MaxQueue
    BY <1>1, <1>2 DEF Init
  <1>3. ASSUME Init PROVE /\ work \in [Workers -> Jobs \cup {Waiting, Gone}]
                          /\ future \in [Jobs -> Futures]
    BY <1>3 DEF Init, Futures
  <1> QED BY <1>1, <1>2, <1>3 DEF Init, TypeOK

LEMMA TypeStep ==
  ASSUME TypeOK, [Next]_vars
  PROVE  TypeOK'
  <1> USE DEF TypeOK
  <1>0. /\ queue \in Seq(Items) /\ Len(queue) \in Nat /\ MaxQueue \in Nat /\ MaxStops \in Nat
        /\ Queued \subseteq Items
    <2>1. queue \in Seq(Items)
      BY DEF Items
    <2> QED BY <2>1, QueueAssumption DEF Queued
  <1>1. ASSUME NEW j \in Jobs, Submit(j) PROVE TypeOK'
    <2>1. queue' \in Seq(Jobs \cup {Sentinel}) /\ Len(queue') <= MaxQueue
      <3>1. CASE Len(queue) < MaxQueue
        <4>1. queue' = Append(queue, j)
          BY <1>1, <3>1 DEF Submit
        <4>2. queue' \in Seq(Jobs \cup {Sentinel}) /\ Len(queue') = Len(queue) + 1
          BY <4>1
        <4> QED BY <1>0, <3>1, <4>2
      <3>2. CASE ~(Len(queue) < MaxQueue)
        BY <1>1, <3>2 DEF Submit
      <3> QED BY <3>1, <3>2
    <2>2. work' \in [Workers -> Jobs \cup {Waiting, Gone}]
      BY <1>1 DEF Submit
    <2>3. future' \in [Jobs -> Futures]
      BY <1>1 DEF Submit, Futures
    <2> QED BY <1>1, <2>1, <2>2, <2>3 DEF Submit
  <1>2. ASSUME NEW j \in Jobs, Cancel(j) PROVE TypeOK'
    BY <1>2 DEF Cancel, Futures
  <1>3. ASSUME NEW w \in Workers, Take(w) PROVE TypeOK'
    <2>1. /\ Head(queue) \in Items /\ queue' \in Seq(Jobs \cup {Sentinel})
          /\ Len(queue') <= MaxQueue
      BY <1>0, <1>3, HeadTailProperties DEF Take, Items
    <2>2. /\ work' \in [Workers -> Jobs \cup {Waiting, Gone}]
          /\ dispatched' \subseteq Jobs
      BY <1>3, <2>1 DEF Take, Items
    <2> QED BY <1>3, <2>1, <2>2 DEF Take
  <1>4. ASSUME NEW w \in Workers, Finish(w) PROVE TypeOK'
    BY <1>4 DEF Finish, Futures
  <1>5. ASSUME StopGracefully PROVE TypeOK'
    <2>1. /\ queue' \in Seq(Items) /\ Len(queue') <= MaxQueue
          /\ toSend' \in 0..Cardinality(Workers)
      BY <1>0, <1>5, WorkersFinite, SentinelsSent DEF StopGracefully
    <2>2. stops' \in 0..MaxStops
      BY <1>0, <1>5 DEF StopGracefully
    <2> QED BY <1>5, <2>1, <2>2 DEF StopGracefully, Items
  <1>6. ASSUME StopAbruptly PROVE TypeOK'
    <2>1. stops' \in 0..MaxStops
      BY <1>0, <1>6 DEF StopAbruptly
    <2> QED BY <1>6, <2>1 DEF StopAbruptly
  <1>7. ASSUME SendMore PROVE TypeOK'
    <2>1. toSend \in Nat /\ toSend <= Cardinality(Workers)
      BY WorkersFinite
    <2>2. queue' \in Seq(Items) /\ Len(queue') <= MaxQueue /\ toSend' \in 0..toSend
      BY <1>0, <1>7, <2>1, SentinelsSent DEF SendMore
    <2>3. toSend' \in 0..Cardinality(Workers)
      BY <2>1, <2>2, WorkersFinite
    <2> QED BY <1>7, <2>2, <2>3 DEF SendMore, Items
  <1>8. ASSUME WorkersGathered \/ Stopped PROVE TypeOK'
    BY <1>8 DEF WorkersGathered, Stopped
  <1>9. ASSUME UNCHANGED vars PROVE TypeOK'
    BY <1>9 DEF vars
  <1> QED
    BY <1>1, <1>2, <1>3, <1>4, <1>5, <1>6, <1>7, <1>8, <1>9 DEF Next, Shutdown

\* Every variable keeps its type in every behaviour; in particular the queue
\* never exceeds max_queue, although a shutdown writes to it as well.
THEOREM TypeCorrect == Spec => []TypeOK
  BY TypeInit, TypeStep, PTL DEF Spec

(***************************************************************************)
(* One sentinel for each worker that is left.                               *)
(***************************************************************************)
Left == {w \in Workers : work[w] # Gone}

Counted ==
  /\ stopper = "idle" => toSend = 0 /\ Sentinels(queue) = 0
  /\ stopper = "idle" /\ started => Left = Workers
  /\ stopper # "idle" => started
  /\ stopper = "draining" => Sentinels(queue) + toSend = Cardinality(Left)
  /\ stopper = "closing" => toSend = 0 /\ Sentinels(queue) = 0 /\ Left = {}
  /\ ~started => Left = {}

LEMMA LeftFinite == IsFiniteSet(Left) /\ Cardinality(Left) \in Nat
  <1>1. Left \in SUBSET Workers
    BY DEF Left
  <1> QED BY <1>1, WorkersFinite, FS_Subset, FS_CardinalityType

LEMMA CountedInit == Init => Counted
  <1>1. ASSUME Init PROVE queue \in Seq(Items) /\ \A i \in 1..Len(queue) : queue[i] # Sentinel
    BY <1>1 DEF Init
  <1>2. ASSUME Init PROVE Sentinels(queue) = 0
    BY <1>1, <1>2, NoSentinels
  <1> QED BY <1>2 DEF Init, Counted, Left

LEMMA CountedStep ==
  ASSUME TypeOK, Counted, [Next]_vars
  PROVE  Counted'
  <1>0. /\ queue \in Seq(Items) /\ Len(queue) \in Nat /\ Len(queue) <= MaxQueue
        /\ Sentinels(queue) \in Nat /\ toSend \in Nat
    <2>1. queue \in Seq(Items)
      BY DEF TypeOK, Items
    <2> QED BY <2>1, SentinelsFinite, LenProperties, WorkersFinite DEF TypeOK
  <1>1. ASSUME NEW j \in Jobs, Submit(j) PROVE Counted'
    <2>1. Sentinels(queue') = Sentinels(queue)
      <3>1. queue' = Append(queue, j) \/ queue' = queue
        BY <1>1 DEF Submit
      <3>2. Sentinels(Append(queue, j)) = Sentinels(queue)
        BY <1>0, SentinelsAppendJob
      <3> QED BY <3>1, <3>2
    <2>2. CASE started
      BY <1>1, <2>1, <2>2 DEF Submit, Counted, Left
    <2>3. CASE ~started
      <3>1. Left' = Workers /\ stopper = "idle"
        BY <1>1, <2>3, QueueAssumption DEF Submit, Counted, Left
      <3> QED BY <1>1, <2>1, <2>3, <3>1 DEF Submit, Counted
    <2> QED BY <2>2, <2>3
  <1>2. ASSUME NEW j \in Jobs, Cancel(j) PROVE Counted'
    BY <1>2 DEF Cancel, Counted, Left
  <1>3. ASSUME NEW w \in Workers, Take(w) PROVE Counted'
    <2>1. Sentinels(queue) = Sentinels(queue') + (IF Head(queue) = Sentinel THEN 1 ELSE 0)
      BY <1>0, <1>3, SentinelsTail DEF Take
    <2>2. Sentinels(queue') \in Nat /\ Head(queue) \in Items
      <3>1. queue' \in Seq(Items) /\ Head(queue) \in Items
        BY <1>0, <1>3, HeadTailProperties DEF Take
      <3> QED BY <3>1, SentinelsFinite
    <2>3. w \in Left
      BY <1>3, QueueAssumption DEF Take, Left
    <2>4. CASE Head(queue) = Sentinel
      <3>1. Left' = Left \ {w}
        BY <1>3, <2>4, QueueAssumption DEF Take, Left, TypeOK
      <3>2. Cardinality(Left') = Cardinality(Left) - 1
        BY <2>3, <3>1, LeftFinite, FS_RemoveElement
      <3>3. Sentinels(queue) = Sentinels(queue') + 1
        BY <2>1, <2>4
      <3>4. stopper = "draining" /\ started
        BY <2>2, <2>3, <3>3 DEF Counted, TypeOK
      <3>5. Sentinels(queue') + toSend = Cardinality(Left')
        BY <1>0, <2>2, <3>2, <3>3, <3>4, LeftFinite DEF Counted
      <3> QED BY <1>3, <3>4, <3>5 DEF Take, Counted
    <2>5. CASE Head(queue) # Sentinel
      <3>1. Head(queue) \in Jobs
        BY <2>2, <2>5 DEF Items
      <3>2. Left' = Left
        BY <1>3, <2>5, <3>1, QueueAssumption DEF Take, Left, TypeOK
      <3>3. Sentinels(queue') = Sentinels(queue)
        BY <2>1, <2>2, <2>5
      <3> QED BY <1>3, <3>2, <3>3 DEF Take, Counted
    <2> QED BY <2>4, <2>5
  <1>4. ASSUME NEW w \in Workers, Finish(w) PROVE Counted'
    <2>1. Left' = Left
      BY <1>4, QueueAssumption DEF Finish, Left, TypeOK
    <2> QED BY <1>4, <2>1 DEF Finish, Counted
  <1>5. ASSUME StopGracefully PROVE Counted'
    <2>1. Sentinels(queue') + toSend' = Sentinels(queue) + Cardinality(Workers)
      BY <1>0, <1>5, WorkersFinite, SentinelsSent DEF StopGracefully
    <2>2. Left' = Workers /\ Sentinels(queue) = 0
      BY <1>5 DEF StopGracefully, Counted, Left
    <2>3. Sentinels(queue') + toSend' = Cardinality(Left')
      BY <2>1, <2>2, WorkersFinite
    <2> QED BY <1>5, <2>3 DEF StopGracefully, Counted
  <1>6. ASSUME StopAbruptly PROVE Counted'
    <2>1. Left' = {}
      BY <1>6 DEF StopAbruptly, Left
    <2> QED BY <1>6, <2>1 DEF StopAbruptly, Counted
  <1>7. ASSUME SendMore PROVE Counted'
    <2>1. Sentinels(queue') + toSend' = Sentinels(queue) + toSend
      BY <1>0, <1>7, SentinelsSent DEF SendMore
    <2>2. Left' = Left
      BY <1>7 DEF SendMore, Left
    <2> QED BY <1>7, <2>1, <2>2 DEF SendMore, Counted
  <1>8. ASSUME WorkersGathered PROVE Counted'
    <2>1. Left = {} /\ Left' = {}
      BY <1>8 DEF WorkersGathered, Left
    <2>2. Sentinels(queue) = 0
      <3>1. Sentinels(queue) + toSend = 0
        BY <1>8, <2>1, FS_EmptySet DEF WorkersGathered, Counted
      <3> QED BY <1>0, <3>1
    <2> QED BY <1>8, <2>1, <2>2 DEF WorkersGathered, Counted
  <1>9. ASSUME Stopped PROVE Counted'
    BY <1>9 DEF Stopped, Counted, Left
  <1>10. ASSUME UNCHANGED vars PROVE Counted'
    BY <1>10 DEF vars, Counted, Left
  <1> QED
    BY <1>1, <1>2, <1>3, <1>4, <1>5, <1>6, <1>7, <1>8, <1>9, <1>10 DEF Next, Shutdown

\* A started client that is not being shut down has all its workers, and no
\* sentinel of an earlier shutdown waits for one of them.
THEOREM WorkersStay == Spec => []WorkersSurvive
  <1>1. TypeOK /\ Counted => WorkersSurvive
    <2> SUFFICES ASSUME TypeOK, Counted, started, stopper = "idle"
                 PROVE  Sentinel \notin Queued /\ \A w \in Workers : work[w] # Gone
      BY DEF WorkersSurvive
    <2>1. queue \in Seq(Items)
      BY DEF TypeOK, Items
    <2>2. \A i \in 1..Len(queue) : queue[i] # Sentinel
      BY <2>1, NoSentinels DEF Counted
    <2> QED BY <2>2 DEF Counted, Left, Queued
  <1>2. Init => TypeOK /\ Counted
    BY TypeInit, CountedInit
  <1>3. TypeOK /\ Counted /\ [Next]_vars => (TypeOK /\ Counted)'
    BY TypeStep, CountedStep
  <1> QED BY <1>1, <1>2, <1>3, PTL DEF Spec

(***************************************************************************)
(* A job is queued once, and only before it is dispatched.                  *)
(***************************************************************************)
Known ==
  /\ \A i \in 1..Len(queue) : queue[i] \in Jobs =>
       future[queue[i]] \in {"pending", "cancelled"} /\ queue[i] \notin dispatched
  /\ \A i, k \in 1..Len(queue) : i # k /\ queue[i] \in Jobs => queue[i] # queue[k]
  /\ \A w \in Workers : work[w] \in Jobs => work[w] \in dispatched
  /\ \A j \in dispatched \cup early : future[j] # "none"

LEMMA KnownInit == Init => Known
  BY QueueAssumption DEF Init, Known

LEMMA KnownStep ==
  ASSUME TypeOK, Known, [Next]_vars
  PROVE  Known'
  <1>0. /\ queue \in Seq(Items) /\ Len(queue) \in Nat /\ Len(queue) <= MaxQueue
        /\ toSend \in Nat
    <2>1. queue \in Seq(Items)
      BY DEF TypeOK, Items
    <2> QED BY <2>1, LenProperties, WorkersFinite DEF TypeOK
  <1>1. ASSUME NEW j \in Jobs, Submit(j) PROVE Known'
    <2>1. j \notin dispatched /\ \A i \in 1..Len(queue) : queue[i] # j
      BY <1>1 DEF Submit, Known
    <2>2. \A w \in Workers : work'[w] \in Jobs => work'[w] \in dispatched'
      BY <1>1, QueueAssumption DEF Submit, Known
    <2>3. \A e \in Jobs : e # j => future'[e] = future[e]
      BY <1>1 DEF Submit, TypeOK
    <2>4. \A e \in dispatched' \cup early' : future'[e] # "none"
      BY <1>1, <2>3 DEF Submit, Known, TypeOK
    <2>5. CASE queue' = queue
      BY <1>1, <2>1, <2>2, <2>3, <2>4, <2>5 DEF Submit, Known
    <2>6. CASE queue' = Append(queue, j) /\ future'[j] = "pending"
      <3>1. /\ Len(queue') = Len(queue) + 1 /\ queue'[Len(queue) + 1] = j
            /\ \A i \in 1..Len(queue) : queue'[i] = queue[i]
        BY <1>0, <2>6
      <3>2. \A i \in 1..Len(queue') : i \in 1..Len(queue) \/ i = Len(queue) + 1
        BY <1>0, <3>1
      <3>3. \A i \in 1..Len(queue') : queue'[i] \in Jobs =>
              future'[queue'[i]] \in {"pending", "cancelled"} /\ queue'[i] \notin dispatched'
        BY <1>1, <2>1, <2>3, <2>6, <3>1, <3>2 DEF Submit, Known
      <3>4. \A i, k \in 1..Len(queue') : i # k /\ queue'[i] \in Jobs => queue'[i] # queue'[k]
        BY <2>1, <3>1, <3>2 DEF Known
      <3> QED BY <2>2, <2>4, <3>3, <3>4 DEF Known
    <2> QED BY <1>1, <2>5, <2>6 DEF Submit, TypeOK
  <1>2. ASSUME NEW j \in Jobs, Cancel(j) PROVE Known'
    BY <1>2 DEF Cancel, Known, TypeOK
  <1>3. ASSUME NEW w \in Workers, Take(w) PROVE Known'
    <2>1. /\ Len(queue) \in Nat \ {0} /\ Len(queue') = Len(queue) - 1
          /\ Head(queue) = queue[1]
          /\ \A i \in 1..Len(queue') : i + 1 \in 1..Len(queue) /\ queue'[i] = queue[i + 1]
      BY <1>0, <1>3, EmptySeq, HeadTailProperties DEF Take
    <2>2. \A i \in 1..Len(queue') : queue'[i] \in Jobs => queue'[i] # Head(queue)
      BY <2>1 DEF Known
    <2>3. 1 \in 1..Len(queue) /\ Head(queue) \in Items
      BY <1>0, <1>3, <2>1, HeadTailProperties DEF Take
    <2>4. Head(queue) \in Jobs => future[Head(queue)] \in {"pending", "cancelled"}
      BY <2>1, <2>3 DEF Known
    <2>5. \/ dispatched' = dispatched /\ \A v \in Workers : work'[v] = work[v] \/ work'[v] = Gone
          \/ /\ Head(queue) \in Jobs /\ dispatched' = dispatched \cup {Head(queue)}
             /\ \A v \in Workers : work'[v] = work[v] \/ work'[v] = Head(queue)
      BY <1>3, <2>3 DEF Take, TypeOK, Items
    <2>6. \A i \in 1..Len(queue') : queue'[i] \in Jobs =>
            future'[queue'[i]] \in {"pending", "cancelled"} /\ queue'[i] \notin dispatched'
      BY <1>3, <2>1, <2>2, <2>5 DEF Take, Known
    <2>7. \A i, k \in 1..Len(queue') : i # k /\ queue'[i] \in Jobs => queue'[i] # queue'[k]
      <3> SUFFICES ASSUME NEW i \in 1..Len(queue'), NEW k \in 1..Len(queue'), i # k, queue'[i] \in Jobs
                   PROVE  queue'[i] # queue'[k]
        OBVIOUS
      <3>1. i + 1 # k + 1 /\ i + 1 \in 1..Len(queue) /\ k + 1 \in 1..Len(queue)
        BY <2>1
      <3>2. queue'[i] = queue[i + 1] /\ queue'[k] = queue[k + 1]
        BY <2>1
      <3> QED BY <3>1, <3>2 DEF Known
    <2>8. \A v \in Workers : work'[v] \in Jobs => work'[v] \in dispatched'
      BY <2>5, QueueAssumption DEF Known
    <2>9. \A j \in dispatched' \cup early' : future'[j] # "none"
      BY <1>3, <2>4, <2>5 DEF Take, Known
    <2> QED BY <2>6, <2>7, <2>8, <2>9 DEF Known
  <1>4. ASSUME NEW w \in Workers, Finish(w) PROVE Known'
    <2>1. work[w] \in dispatched
      BY <1>4 DEF Finish, Known
    <2>2. \A j \in Jobs : j # work[w] => future'[j] = future[j]
      BY <1>4 DEF Finish, TypeOK
    <2>3. future'[work[w]] # "none"
      BY <1>4, <2>1 DEF Finish, Known, TypeOK
    <2>4. \A v \in Workers : work'[v] = work[v] \/ work'[v] = Waiting
      BY <1>4 DEF Finish, TypeOK
    <2>5. \A j \in dispatched' \cup early' : future'[j] # "none"
      BY <1>4, <2>2, <2>3 DEF Finish, Known, TypeOK
    <2>6. \A i \in 1..Len(queue') : queue'[i] \in Jobs =>
            future'[queue'[i]] \in {"pending", "cancelled"} /\ queue'[i] \notin dispatched'
      BY <1>4, <2>1, <2>2 DEF Finish, Known
    <2> QED BY <1>4, <2>4, <2>5, <2>6, QueueAssumption DEF Finish, Known
  <1>5. ASSUME NEW n \in Nat, SendSentinels(n), work' = work, future' = future,
               dispatched' = dispatched, \A j \in early' : future[j] # "none"
        PROVE  Known'
    <2>1. /\ \A i \in 1..Len(queue) : i \in 1..Len(queue') /\ queue'[i] = queue[i]
          /\ \A i \in 1..Len(queue') : i \in 1..Len(queue) \/ queue'[i] = Sentinel
      <3> DEFINE longer == queue \o [i \in 1..Sendable(n) |-> Sentinel]
      <3>1. Sendable(n) \in Nat /\ MaxQueue \in Nat
        BY <1>0, QueueAssumption DEF Sendable
      <3>2. queue' = longer
        BY <1>5 DEF SendSentinels
      <3>3. \A i \in 1..Len(longer) : i \in 1..Len(queue) \/ longer[i] = Sentinel
        BY <1>0, <3>1
      <3>4. \A i \in 1..Len(queue) : i \in 1..Len(queue') /\ queue'[i] = queue[i]
        BY <1>0, <1>5, SentinelsSent
      <3> HIDE DEF longer
      <3> QED BY <3>2, <3>3, <3>4
    <2>2. Sentinel \notin Jobs
      BY QueueAssumption
    <2> QED BY <1>5, <2>1, <2>2 DEF Known
  <1>6. ASSUME StopGracefully PROVE Known'
    <2>1. \A j \in early' : future[j] # "none"
      BY <1>6 DEF StopGracefully, Known, Queued, Working
    <2> QED BY <1>5, <1>6, <2>1, WorkersFinite DEF StopGracefully
  <1>7. ASSUME SendMore PROVE Known'
    <2>1. \A j \in early' : future[j] # "none"
      BY <1>7 DEF SendMore, Known
    <2> QED BY <1>0, <1>5, <1>7, <2>1 DEF SendMore
  <1>8. ASSUME StopAbruptly PROVE Known'
    BY <1>8, QueueAssumption DEF StopAbruptly, Known
  <1>9. ASSUME WorkersGathered \/ Stopped PROVE Known'
    BY <1>9 DEF WorkersGathered, Stopped, Known
  <1>10. ASSUME UNCHANGED vars PROVE Known'
    BY <1>10 DEF vars, Known
  <1> QED
    BY <1>1, <1>2, <1>3, <1>4, <1>6, <1>7, <1>8, <1>9, <1>10 DEF Next, Shutdown

(***************************************************************************)
(* What a graceful shutdown found is ahead of its sentinels.                *)
(***************************************************************************)
Ahead(j) == \E i \in 1..Len(queue) : queue[i] = j /\ \A k \in 1..(i - 1) : queue[k] # Sentinel

Held(j) == j \in Working \/ (Left = Workers /\ Ahead(j))

EarlyHeld ==
  /\ stopper = "draining" => \A j \in early : future[j] = "pending" => Held(j)
  /\ stopper = "closing" \/ ~started => \A j \in early : future[j] # "pending"

LEMMA EarlyInit == Init => EarlyHeld
  BY DEF Init, EarlyHeld

\* What is put behind the queue leaves those ahead where they are.
LEMMA StillAhead ==
  ASSUME NEW j, Ahead(j),
         \A i \in 1..Len(queue) : i \in 1..Len(queue') /\ queue'[i] = queue[i],
         Len(queue) \in Nat
  PROVE  Ahead(j)'
  <1>1. PICK i \in 1..Len(queue) : queue[i] = j /\ \A k \in 1..(i - 1) : queue[k] # Sentinel
    BY DEF Ahead
  <1>2. i \in 1..Len(queue') /\ queue'[i] = j
    BY <1>1
  <1>3. \A k \in 1..(i - 1) : k \in 1..Len(queue)
    OBVIOUS
  <1>4. \A k \in 1..(i - 1) : queue'[k] # Sentinel
    BY <1>1, <1>3
  <1> QED BY <1>2, <1>4 DEF Ahead

\* The head leaves the queue; whoever else was ahead of the sentinels still is.
LEMMA AheadOfTail ==
  ASSUME queue \in Seq(Items), queue # <<>>, queue' = Tail(queue),
         NEW j \in Jobs, Ahead(j)
  PROVE  Head(queue) # Sentinel /\ (j # Head(queue) => Ahead(j)')
  <1>0. /\ Len(queue) \in Nat \ {0} /\ Len(queue') = Len(queue) - 1
        /\ Head(queue) = queue[1]
        /\ \A i \in 1..Len(queue') : queue'[i] = queue[i + 1]
    BY EmptySeq, HeadTailProperties
  <1>1. PICK i \in 1..Len(queue) : queue[i] = j /\ \A k \in 1..(i - 1) : queue[k] # Sentinel
    BY DEF Ahead
  <1>2. j # Sentinel
    BY QueueAssumption
  <1>3. CASE i = 1
    BY <1>0, <1>1, <1>2, <1>3
  <1>4. CASE i # 1
    <2>1. i - 1 \in 1..Len(queue') /\ queue'[i - 1] = j
      BY <1>0, <1>1, <1>4
    <2>2. ASSUME NEW k \in 1..(i - 1 - 1) PROVE queue'[k] # Sentinel
      <3>1. k \in 1..Len(queue') /\ k + 1 \in 1..(i - 1)
        BY <1>0, <1>4
      <3> QED BY <1>0, <1>1, <3>1
    <2>3. Head(queue) # Sentinel
      BY <1>0, <1>1, <1>4
    <2> QED BY <2>1, <2>2, <2>3 DEF Ahead
  <1> QED BY <1>3, <1>4

LEMMA EarlyStep ==
  ASSUME TypeOK, Counted, Known, EarlyHeld, [Next]_vars
  PROVE  EarlyHeld'
  <1>0. queue \in Seq(Items) /\ Len(queue) \in Nat /\ Len(queue) <= MaxQueue
    <2>1. queue \in Seq(Items)
      BY DEF TypeOK, Items
    <2> QED BY <2>1, LenProperties DEF TypeOK
  <1>1. ASSUME NEW j \in Jobs, Submit(j) PROVE EarlyHeld'
    <2>1. CASE stopper = "draining"
      <3>1. started /\ work' = work /\ Left' = Left /\ Working' = Working
        BY <1>1, <2>1 DEF Submit, Counted, Left, Working
      <3>2. \A i \in 1..Len(queue) : i \in 1..Len(queue') /\ queue'[i] = queue[i]
        <4>1. queue' = queue \/ queue' = Append(queue, j)
          BY <1>1 DEF Submit
        <4>2. CASE queue' = Append(queue, j)
          BY <1>0, <4>2
        <4> QED BY <4>1, <4>2
      <3>3. ASSUME NEW e \in early', future'[e] = "pending" PROVE Held(e)'
        <4>1. e \in early
          BY <1>1, <3>3 DEF Submit
        <4>2. CASE future[e] = "pending"
          <5>1. Held(e)
            BY <2>1, <4>1, <4>2 DEF EarlyHeld
          <5>2. Ahead(e) => Ahead(e)'
            BY <1>0, <3>2, StillAhead
          <5> QED BY <3>1, <5>1, <5>2 DEF Held
        <4>3. CASE future[e] # "pending"
          BY <1>1, <3>3, <4>1, <4>3 DEF Submit, TypeOK, Known
        <4> QED BY <4>2, <4>3
      <3> QED BY <1>1, <2>1, <3>3 DEF Submit, EarlyHeld
    <2>2. CASE stopper = "closing"
      BY <1>1, <2>2 DEF Submit, EarlyHeld, Known, TypeOK
    <2>3. CASE stopper = "idle"
      BY <1>1, <2>3 DEF Submit, EarlyHeld
    <2> QED BY <2>1, <2>2, <2>3 DEF TypeOK
  <1>2. ASSUME NEW j \in Jobs, Cancel(j) PROVE EarlyHeld'
    <2>1. \A e \in early' : future'[e] = "pending" => e \in early /\ future[e] = "pending"
      BY <1>2 DEF Cancel, TypeOK
    <2>2. \A e \in early : Held(e) => Held(e)'
      BY <1>2 DEF Cancel, Held, Left, Working, Ahead
    <2> QED BY <1>2, <2>1, <2>2 DEF Cancel, EarlyHeld
  <1>3. ASSUME NEW w \in Workers, Take(w) PROVE EarlyHeld'
    <2>1. CASE stopper = "draining"
      <3>1. ASSUME NEW e \in early', future'[e] = "pending" PROVE Held(e)'
        <4>1. e \in early /\ e \in Jobs /\ future[e] = "pending" /\ Held(e)
          BY <1>3, <2>1, <3>1 DEF Take, EarlyHeld, TypeOK
        <4>2. ASSUME e \in Working PROVE e \in Working'
          <5>1. PICK v \in Workers : work[v] = e
            BY <4>2 DEF Working
          <5>2. v # w
            BY <1>3, <4>1, <5>1, QueueAssumption DEF Take
          <5>3. work'[v] = e
            BY <1>3, <5>1, <5>2 DEF Take, TypeOK
          <5> QED BY <5>3 DEF Working
        <4>3. ASSUME Left = Workers, Ahead(e) PROVE Held(e)'
          <5>1. Head(queue) # Sentinel /\ (e # Head(queue) => Ahead(e)')
            BY <1>0, <1>3, <4>1, <4>3, AheadOfTail DEF Take
          <5>2. Left' = Workers
            <6>1. Head(queue) \in Jobs
              BY <1>0, <1>3, <5>1, HeadTailProperties DEF Take, Items
            <6>2. \A v \in Workers : work[v] # Gone
              BY <4>3 DEF Left
            <6> QED BY <1>3, <5>1, <6>1, <6>2, QueueAssumption DEF Take, Left, TypeOK
          <5>3. CASE e = Head(queue)
            <6>1. work'[w] = e
              BY <1>3, <4>1, <5>1, <5>3 DEF Take, TypeOK
            <6> QED BY <6>1 DEF Held, Working
          <5>4. CASE e # Head(queue)
            BY <5>1, <5>2, <5>4 DEF Held
          <5> QED BY <5>3, <5>4
        <4> QED BY <4>1, <4>2, <4>3 DEF Held
      <3> QED BY <1>3, <2>1, <3>1 DEF Take, EarlyHeld, Counted
    <2>2. CASE stopper # "draining"
      BY <1>3, <2>2 DEF Take, EarlyHeld
    <2> QED BY <2>1, <2>2
  <1>4. ASSUME NEW w \in Workers, Finish(w) PROVE EarlyHeld'
    <2>1. ASSUME NEW e \in early', future'[e] = "pending"
          PROVE  e \in early /\ future[e] = "pending" /\ e # work[w]
      BY <1>4, <2>1 DEF Finish, TypeOK
    <2>2. Left' = Left
      BY <1>4, QueueAssumption DEF Finish, Left, TypeOK
    <2>3. ASSUME NEW e \in early, e # work[w], Held(e) PROVE Held(e)'
      <3>1. ASSUME e \in Working PROVE e \in Working'
        <4>1. PICK v \in Workers : work[v] = e
          BY <3>1 DEF Working
        <4>2. work'[v] = e
          BY <1>4, <2>3, <4>1 DEF Finish, TypeOK
        <4> QED BY <4>2 DEF Working
      <3>2. Ahead(e) => Ahead(e)'
        BY <1>4 DEF Finish, Ahead
      <3> QED BY <2>2, <2>3, <3>1, <3>2 DEF Held
    <2> QED BY <1>4, <2>1, <2>3 DEF Finish, EarlyHeld
  <1>5. ASSUME StopGracefully PROVE EarlyHeld'
    <2>1. \A i \in 1..Len(queue) : queue[i] # Sentinel
      BY <1>0, <1>5, NoSentinels DEF StopGracefully, Counted
    <2>2. \A i \in 1..Len(queue) : i \in 1..Len(queue') /\ queue'[i] = queue[i]
      BY <1>0, <1>5, SentinelsSent, WorkersFinite DEF StopGracefully
    <2>3. Left' = Workers /\ Working' = Working
      BY <1>5 DEF StopGracefully, Counted, Left, Working
    <2>4. ASSUME NEW e \in early' PROVE Held(e)'
      <3>1. e \in Queued \/ e \in Working
        BY <1>5, <2>4 DEF StopGracefully
      <3>2. ASSUME e \in Queued PROVE Ahead(e)
        <4>1. PICK i \in 1..Len(queue) : queue[i] = e
          BY <3>2 DEF Queued
        <4>2. \A k \in 1..(i - 1) : k \in 1..Len(queue)
          BY <1>0
        <4> QED BY <2>1, <4>1, <4>2 DEF Ahead
      <3>3. Ahead(e) => Ahead(e)'
        BY <1>0, <2>2, StillAhead
      <3> QED BY <2>3, <3>1, <3>2, <3>3 DEF Held
    <2> QED BY <1>5, <2>4 DEF StopGracefully, EarlyHeld
  <1>6. ASSUME StopAbruptly PROVE EarlyHeld'
    BY <1>6 DEF StopAbruptly, EarlyHeld
  <1>7. ASSUME SendMore PROVE EarlyHeld'
    <2>1. \A i \in 1..Len(queue) : i \in 1..Len(queue') /\ queue'[i] = queue[i]
      BY <1>0, <1>7, SentinelsSent, WorkersFinite DEF SendMore, TypeOK
    <2>2. ASSUME NEW e \in early', future'[e] = "pending" PROVE Held(e)'
      <3>1. Held(e)
        BY <1>7, <2>2 DEF SendMore, EarlyHeld
      <3>2. Ahead(e) => Ahead(e)'
        BY <1>0, <2>1, StillAhead
      <3>3. Left' = Left /\ Working' = Working
        BY <1>7 DEF SendMore, Left, Working
      <3> QED BY <3>1, <3>2, <3>3 DEF Held
    <2> QED BY <1>7, <2>2 DEF SendMore, EarlyHeld, Counted
  <1>8. ASSUME WorkersGathered PROVE EarlyHeld'
    <2>1. Working \subseteq {Gone} /\ Left # Workers
      BY <1>8, QueueAssumption DEF WorkersGathered, Working, Left
    <2>2. \A e \in early : ~Held(e)
      BY <2>1, QueueAssumption DEF Held, TypeOK
    <2> QED BY <1>8, <2>2 DEF WorkersGathered, EarlyHeld
  <1>9. ASSUME Stopped PROVE EarlyHeld'
    BY <1>9 DEF Stopped, EarlyHeld
  <1>10. ASSUME UNCHANGED vars PROVE EarlyHeld'
    BY <1>10 DEF vars, EarlyHeld, Held, Left, Working, Ahead
  <1> QED
    BY <1>1, <1>2, <1>3, <1>4, <1>5, <1>6, <1>7, <1>8, <1>9, <1>10 DEF Next, Shutdown

QueueInv == TypeOK /\ Counted /\ Known /\ EarlyHeld

LEMMA QueueInvariant == Spec => []QueueInv
  <1>1. Init => QueueInv
    BY TypeInit, CountedInit, KnownInit, EarlyInit DEF QueueInv
  <1>2. QueueInv /\ [Next]_vars => QueueInv'
    BY TypeStep, CountedStep, KnownStep, EarlyStep DEF QueueInv
  <1> QED BY <1>1, <1>2, PTL DEF Spec

\* When a graceful shutdown has returned, every job it found queued or running
\* has been resolved or given up by its caller, for any number of workers and
\* any queue length, also when more jobs arrive behind the sentinels.
THEOREM ShutdownServes == Spec => []StoppedMeansServed
  <1>1. QueueInv => StoppedMeansServed
    BY DEF QueueInv, EarlyHeld, StoppedMeansServed
  <1> QED BY <1>1, QueueInvariant, PTL

\* No job is dispatched twice, and none whose caller has given up.
THEOREM DispatchedOnce == Spec => DispatchedOnceAndWanted
  <1> DEFINE Wanted == \A w \in Workers :
                         work[w] = Waiting /\ work'[w] \in Jobs =>
                           work'[w] \notin dispatched /\ future[work'[w]] = "pending"
  <1>1. QueueInv /\ [Next]_vars => [Wanted]_vars
    <2> SUFFICES ASSUME QueueInv, Next, NEW v \in Workers, work[v] = Waiting, work'[v] \in Jobs
                 PROVE  work'[v] \notin dispatched /\ future[work'[v]] = "pending"
      BY DEF Wanted
    <2>1. \E w \in Workers : Take(w)
      <3>1. ASSUME NEW j \in Jobs, Submit(j) PROVE FALSE
        BY <3>1, QueueAssumption DEF Submit, QueueInv
      <3>2. ASSUME NEW w \in Workers, Finish(w) PROVE FALSE
        BY <3>2, QueueAssumption DEF Finish, QueueInv, TypeOK
      <3>3. ASSUME NEW j \in Jobs, Cancel(j) PROVE FALSE
        BY <3>3, QueueAssumption DEF Cancel
      <3>4. ASSUME StopGracefully \/ StopAbruptly \/ Shutdown PROVE FALSE
        BY <3>4, QueueAssumption
           DEF StopGracefully, StopAbruptly, Shutdown, SendMore, WorkersGathered, Stopped
      <3> QED BY <3>1, <3>2, <3>3, <3>4 DEF Next
    <2>2. PICK w \in Workers : Take(w)
      BY <2>1
    <2>3. queue \in Seq(Items) /\ queue # <<>> /\ 1 \in 1..Len(queue) /\ Head(queue) = queue[1]
      <3>1. queue \in Seq(Items) /\ queue # <<>>
        BY <2>2 DEF QueueInv, TypeOK, Items, Take
      <3> QED BY <3>1, EmptySeq
    <2>4. work'[v] = Head(queue) /\ future[Head(queue)] # "cancelled"
      BY <2>2, QueueAssumption DEF Take, QueueInv, TypeOK
    <2> QED BY <2>3, <2>4 DEF QueueInv, Known
  <1> QED BY <1>1, QueueInvariant, PTL DEF Spec, DispatchedOnceAndWanted

(***************************************************************************)
(* The safety half of AcceptedAreHeard.                                     *)
(***************************************************************************)
InHands(j) == j \in Queued \cup Working

\* A worker that shutdown(graceful=False) cancels drops the job it runs.
CancelledAtWork(j) == stopper = "idle" /\ stopper' = "closing" /\ j \in Working

\* What is put behind a queue takes nothing out of it.
LEMMA QueueGrows ==
  ASSUME NEW j \in Queued, queue \in Seq(Items), NEW tail \in Seq(Items), queue' = queue \o tail
  PROVE  j \in Queued'
  <1>1. PICK i \in 1..Len(queue) : queue[i] = j
    BY DEF Queued
  <1>2. i \in 1..Len(queue') /\ queue'[i] = j
    BY <1>1
  <1> QED BY <1>2 DEF Queued

LEMMA SentinelsAppended ==
  ASSUME NEW j \in Queued, TypeOK, NEW n \in Nat, SendSentinels(n)
  PROVE  j \in Queued'
  <1>1. queue \in Seq(Items) /\ Len(queue) \in Nat /\ Len(queue) <= MaxQueue
    BY DEF TypeOK, Items
  <1>2. Sendable(n) \in Nat
    BY <1>1, QueueAssumption DEF Sendable
  <1>3. [i \in 1..Sendable(n) |-> Sentinel] \in Seq(Items)
    BY <1>2 DEF Items
  <1> QED BY <1>1, <1>3, QueueGrows DEF SendSentinels

\* From the moment a job is accepted until its caller hears of it, it is queued or being
\* dispatched: taking, finishing, sentinels, shutdowns and the next start lose none.  Only
\* shutdown(graceful=False) drops jobs, those that run (queue_worker.py:115-137).
THEOREM JobsAreKept ==
  Spec => [][\A j \in Jobs :
               (future[j] = "none" \/ InHands(j)) /\ future'[j] = "pending"
                 => InHands(j)' \/ CancelledAtWork(j)]_vars
  <1> DEFINE Kept == \A j \in Jobs :
               (future[j] = "none" \/ InHands(j)) /\ future'[j] = "pending"
                 => InHands(j)' \/ CancelledAtWork(j)
  <1>1. QueueInv /\ [Next]_vars => [Kept]_vars
    <2> SUFFICES ASSUME QueueInv, Next, NEW j \in Jobs, future'[j] = "pending",
                        future[j] = "none" \/ InHands(j)
                 PROVE  InHands(j)' \/ CancelledAtWork(j)
      OBVIOUS
    <2> USE DEF InHands
    <2>0. /\ TypeOK /\ Counted /\ queue \in Seq(Items) /\ Len(queue) \in Nat
          /\ work \in [Workers -> Jobs \cup {Waiting, Gone}] /\ future \in [Jobs -> Futures]
          /\ j # Waiting /\ j # Gone /\ j # Sentinel /\ j \in Items
      BY QueueAssumption DEF QueueInv, TypeOK, Items
    <2>1. ASSUME NEW i \in Jobs, Submit(i) PROVE InHands(j)'
      <3>1. CASE future[j] = "none"
        <4>1. i = j /\ queue' = Append(queue, j)
          BY <2>0, <2>1, <3>1 DEF Submit
        <4>2. Len(queue') = Len(queue) + 1 /\ queue'[Len(queue) + 1] = j
          BY <2>0, <4>1
        <4> QED BY <2>0, <4>2 DEF Queued
      <3>2. CASE j \in Queued
        <4>1. PICK k \in 1..Len(queue) : queue[k] = j
          BY <3>2 DEF Queued
        <4>2. queue' = queue \/ queue' = Append(queue, i)
          BY <2>1 DEF Submit
        <4>3. k \in 1..Len(queue') /\ queue'[k] = j
          BY <2>0, <4>1, <4>2 DEF Items
        <4> QED BY <4>3 DEF Queued
      <3>3. CASE j \in Working
        <4>1. started
          BY <2>0, <3>3 DEF Counted, Left, Working
        <4> QED BY <2>1, <3>3, <4>1 DEF Submit, Working
      <3> QED BY <3>1, <3>2, <3>3
    <2>2. ASSUME NEW i \in Jobs, Cancel(i) PROVE InHands(j)'
      BY <2>0, <2>2 DEF Cancel, Queued, Working
    <2>3. ASSUME NEW w \in Workers, Take(w) PROVE InHands(j)'
      <3>1. queue # <<>> /\ queue' = Tail(queue) /\ future' = future /\ work[w] = Waiting
        BY <2>3 DEF Take
      <3>2. future[j] = "pending" /\ InHands(j)
        BY <3>1
      <3>3. CASE j \in Working
        <4>1. PICK v \in Workers : work[v] = j
          BY <3>3 DEF Working
        <4>2. work'[v] = j
          BY <2>0, <2>3, <3>1, <4>1 DEF Take
        <4> QED BY <4>2 DEF Working
      <3>4. CASE j \in Queued
        <4>1. PICK i \in 1..Len(queue) : queue[i] = j
          BY <3>4 DEF Queued
        <4>2. CASE i = 1
          <5>1. Head(queue) = j
            BY <2>0, <3>1, <4>1, <4>2
          <5>2. work'[w] = j
            BY <2>0, <2>3, <3>2, <5>1 DEF Take
          <5> QED BY <5>2 DEF Working
        <4>3. CASE i # 1
          <5>1. i - 1 \in 1..Len(queue') /\ queue'[i - 1] = j
            BY <2>0, <3>1, <4>1, <4>3
          <5> QED BY <5>1 DEF Queued
        <4> QED BY <4>2, <4>3
      <3> QED BY <3>2, <3>3, <3>4
    <2>4. ASSUME NEW w \in Workers, Finish(w) PROVE InHands(j)'
      <3>1. future[j] = "pending" /\ work[w] # j
        BY <2>0, <2>4 DEF Finish
      <3>2. CASE j \in Queued
        BY <2>4, <3>2 DEF Finish, Queued
      <3>3. CASE j \in Working
        <4>1. PICK v \in Workers : work[v] = j
          BY <3>3 DEF Working
        <4>2. work'[v] = j
          BY <2>0, <2>4, <3>1, <4>1 DEF Finish
        <4> QED BY <4>2 DEF Working
      <3> QED BY <3>1, <3>2, <3>3
    <2>5. CASE StopGracefully
      <3>1. Cardinality(Workers) \in Nat /\ SendSentinels(Cardinality(Workers)) /\ UNCHANGED <<work, future>>
        BY <2>5, WorkersFinite DEF StopGracefully
      <3> QED BY <2>0, <3>1, SentinelsAppended DEF Working
    <2>6. CASE StopAbruptly
      BY <2>6 DEF StopAbruptly, CancelledAtWork, Queued
    <2>7. CASE SendMore
      <3>1. toSend \in Nat /\ SendSentinels(toSend) /\ UNCHANGED <<work, future>>
        BY <2>0, <2>7, WorkersFinite DEF SendMore, TypeOK
      <3> QED BY <2>0, <3>1, SentinelsAppended DEF Working
    <2>8. CASE WorkersGathered \/ Stopped
      BY <2>8 DEF WorkersGathered, Stopped, Queued, Working
    <2> QED BY <2>1, <2>2, <2>3, <2>4, <2>5, <2>6, <2>7, <2>8 DEF Next, Shutdown
  <1> QED BY <1>1, QueueInvariant, PTL DEF Spec

-----------------------------------------------------------------------------
(* The statistics (StatsStore): types.                                      *)

Reports ==
  [pc : {"totals", "hours"}, row : Followed, cut : SUBSET {"hour", "day"}, hour_from : Int,
   day_from : Int, total : SUBSET Calls, hourly : SUBSET Calls]

ReportTyped ==
  \/ report = NoReport
  \/ report \in Reports

StatsTyped == StatsTypeOK /\ ReportTyped

LEMMA Times ==
  /\ \A h \in Instants : h \in Int /\ DayOf(h) \in Int /\ DayOf(h) \in Buckets /\ h \in Buckets
  /\ Instants \cup {NoTime} \subseteq Int
BY TimeAssumption DEF DayOf, Buckets, NoTime

LEMMA ThreeThreeFour ==
  ASSUME NEW a1, NEW a2, NEW a3, NEW b1, NEW b2, NEW b3, NEW d1, NEW d2, NEW d3, NEW d4
  PROVE  LET w == <<a1, a2, a3>> \o <<b1, b2, b3>> \o <<d1, d2, d3, d4>>
         IN  /\ w[1] = a1 /\ w[2] = a2 /\ w[3] = a3 /\ w[4] = b1 /\ w[5] = b2 /\ w[6] = b3
             /\ w[7] = d1 /\ w[8] = d2 /\ w[9] = d3 /\ w[10] = d4
<1> DEFINE S == {a1, a2, a3, b1, b2, b3, d1, d2, d3, d4}
           s == <<a1, a2, a3>>
           t == <<b1, b2, b3>>
           u == <<d1, d2, d3, d4>>
           v == s \o t
<1>1. /\ a1 \in S /\ a2 \in S /\ a3 \in S /\ b1 \in S /\ b2 \in S /\ b3 \in S
      /\ d1 \in S /\ d2 \in S /\ d3 \in S /\ d4 \in S
  OBVIOUS
<1> HIDE DEF S
<1>2. s \in Seq(S) /\ Len(s) = 3 /\ s[1] = a1 /\ s[2] = a2 /\ s[3] = a3 BY <1>1
<1>3. t \in Seq(S) /\ Len(t) = 3 /\ t[1] = b1 /\ t[2] = b2 /\ t[3] = b3 BY <1>1
<1>4. u \in Seq(S) /\ Len(u) = 4 /\ u[1] = d1 /\ u[2] = d2 /\ u[3] = d3 /\ u[4] = d4 BY <1>1
<1> HIDE DEF s, t, u
<1>5. /\ v \in Seq(S) /\ Len(v) = Len(s) + Len(t)
      /\ \A i \in 1..(Len(s) + Len(t)) : v[i] = IF i <= Len(s) THEN s[i] ELSE t[i - Len(s)]
  BY <1>2, <1>3, ConcatProperties
<1> HIDE DEF v
<1>6. /\ v \in Seq(S) /\ Len(v) = 6
      /\ \A i \in 1..6 : v[i] = IF i <= 3 THEN s[i] ELSE t[i - 3]
  BY <1>2, <1>3, <1>5
<1>7. \A i \in 1..(Len(v) + Len(u)) : (v \o u)[i] = IF i <= Len(v) THEN v[i] ELSE u[i - Len(v)]
  BY <1>4, <1>6, ConcatProperties
<1> DEFINE w == <<a1, a2, a3>> \o <<b1, b2, b3>> \o <<d1, d2, d3, d4>>
<1>8. w = v \o u BY DEF v, s, t, u
<1> HIDE DEF w
<1>9. \A i \in 1..10 : w[i] = IF i <= 6 THEN v[i] ELSE u[i - 6]
  <2>1. Len(v) = 6 /\ Len(u) = 4 BY <1>4, <1>6
  <2>2. 1..(Len(v) + Len(u)) = 1..10 BY <2>1
  <2> QED BY <1>7, <1>8, <2>1, <2>2
<1>10. /\ w[1] = a1 /\ w[2] = a2 /\ w[3] = a3 /\ w[4] = b1 /\ w[5] = b2 /\ w[6] = b3
       /\ w[7] = d1 /\ w[8] = d2 /\ w[9] = d3 /\ w[10] = d4
  BY <1>2, <1>3, <1>4, <1>6, <1>9
<1> QED BY <1>10 DEF w

\* The ten updates of record().
LEMMA PlanIs ==
  ASSUME NEW c \in Calls
  PROVE  /\ Plan(c)[1] = <<"hour", at[c], <<"model", Call[c].model>> >>
         /\ Plan(c)[2] = <<"hour", at[c], <<"notes", Call[c].note>> >>
         /\ Plan(c)[3] = <<"hour", at[c], <<"note_model", <<Call[c].note, Call[c].model>> >> >>
         /\ Plan(c)[4] = <<"day", DayOf(at[c]), <<"model", Call[c].model>> >>
         /\ Plan(c)[5] = <<"day", DayOf(at[c]), <<"notes", Call[c].note>> >>
         /\ Plan(c)[6] = <<"day", DayOf(at[c]), <<"note_model", <<Call[c].note, Call[c].model>> >> >>
         /\ Plan(c)[7] = <<"total", 0, <<"model", Call[c].model>> >>
         /\ Plan(c)[8] = <<"total", 0, <<"provider", ProviderOf[Call[c].model]>> >>
         /\ Plan(c)[9] = <<"total", 0, <<"capability", CapabilityOf[Call[c].model]>> >>
         /\ Plan(c)[10] = <<"total", 0, <<"notes", Call[c].note>> >>
<1> DEFINE a1 == <<"hour", at[c], <<"model", Call[c].model>> >>
           a2 == <<"hour", at[c], <<"notes", Call[c].note>> >>
           a3 == <<"hour", at[c], <<"note_model", <<Call[c].note, Call[c].model>> >> >>
           b1 == <<"day", DayOf(at[c]), <<"model", Call[c].model>> >>
           b2 == <<"day", DayOf(at[c]), <<"notes", Call[c].note>> >>
           b3 == <<"day", DayOf(at[c]), <<"note_model", <<Call[c].note, Call[c].model>> >> >>
           d1 == <<"total", 0, <<"model", Call[c].model>> >>
           d2 == <<"total", 0, <<"provider", ProviderOf[Call[c].model]>> >>
           d3 == <<"total", 0, <<"capability", CapabilityOf[Call[c].model]>> >>
           d4 == <<"total", 0, <<"notes", Call[c].note>> >>
<1>1. Plan(c) = <<a1, a2, a3>> \o <<b1, b2, b3>> \o <<d1, d2, d3, d4>>
  BY DEF Plan, BucketPlan, TotalPlan
<1> HIDE DEF a1, a2, a3, b1, b2, b3, d1, d2, d3, d4
<1>2. /\ Plan(c)[1] = a1 /\ Plan(c)[2] = a2 /\ Plan(c)[3] = a3
      /\ Plan(c)[4] = b1 /\ Plan(c)[5] = b2 /\ Plan(c)[6] = b3
      /\ Plan(c)[7] = d1 /\ Plan(c)[8] = d2 /\ Plan(c)[9] = d3 /\ Plan(c)[10] = d4
  BY <1>1, ThreeThreeFour
<1> QED BY <1>2 DEF a1, a2, a3, b1, b2, b3, d1, d2, d3, d4

LEMMA PlanTyped ==
  ASSUME StatsTypeOK, NEW c \in Calls, NEW i \in 1..LastCount PROVE Plan(c)[i] \in Documents
<1>1. /\ Call[c].model \in Models /\ Call[c].note \in Notes
      /\ ProviderOf[Call[c].model] \in Providers /\ CapabilityOf[Call[c].model] \in Capabilities
  BY CallAssumption
<1>2. at[c] \in Buckets /\ DayOf(at[c]) \in Buckets BY Times DEF StatsTypeOK
<1>3. /\ <<"model", Call[c].model>> \in Rows \cap Scopes /\ <<"notes", Call[c].note>> \in Rows \cap Scopes
      /\ <<"note_model", <<Call[c].note, Call[c].model>> >> \in Rows
      /\ <<"provider", ProviderOf[Call[c].model]>> \in Scopes
      /\ <<"capability", CapabilityOf[Call[c].model]>> \in Scopes
  BY <1>1 DEF Rows, Scopes
<1>4. i \in 1..10 BY DEF LastCount
<1>8. \A grain \in {"hour", "day"} : \A b \in Buckets : \A r \in Rows : <<grain, b, r>> \in Documents
  BY DEF Documents
<1>9. \A r \in Scopes : <<"total", 0, r>> \in Documents BY DEF Documents
<1> DEFINE p == Plan(c)
<1>5. /\ p[1] \in Documents /\ p[2] \in Documents /\ p[3] \in Documents
      /\ p[4] \in Documents /\ p[5] \in Documents /\ p[6] \in Documents
  BY <1>2, <1>3, <1>8, PlanIs
<1>6. /\ p[7] \in Documents /\ p[8] \in Documents /\ p[9] \in Documents /\ p[10] \in Documents
  BY <1>3, <1>9, PlanIs
<1> HIDE DEF p
<1>7. p[i] \in Documents BY <1>4, <1>5, <1>6
<1> QED BY <1>7 DEF p

LEMMA CountedTyped ==
  ASSUME NEW times \in [Calls -> Instants \cup {NoTime}], NEW k, NEW t
  PROVE  /\ IsFiniteSet(InWindow(times, k, t))
         /\ Cardinality(InWindow(times, k, t)) \in Nat
<1>1. InWindow(times, k, t) \in SUBSET Calls BY DEF InWindow
<1> QED BY <1>1, CallAssumption, FS_Subset, FS_CardinalityType

LEMMA StatsInitTyped == StatsInit => StatsTyped
<1> SUFFICES ASSUME StatsInit PROVE StatsTyped OBVIOUS
<1>1. pc \in [Calls -> None..Aborted] BY DEF StatsInit, None, Aborted
<1>2. faults \in 0..MaxFaults BY TimeAssumption DEF StatsInit
<1> QED BY <1>1, <1>2 DEF StatsInit, StatsTyped, StatsTypeOK, ReportTyped, NoReport

LEMMA RecordTyped ==
  ASSUME StatsTyped, NEW c \in Calls, Record(c) PROVE StatsTyped'
<1> USE DEF StatsTyped, StatsTypeOK
<1>1. ASSUME NEW p \in None..Aborted PROVE [pc EXCEPT ![c] = p] \in [Calls -> None..Aborted]
  OBVIOUS
<1>2. UNCHANGED <<now, phase, inserts, failed24h, failures, report, faults>>
  BY DEF Record, Begin, Count, InsertHit, CountWindow, RaisePeak
<1>3. ReportTyped' BY <1>2 DEF ReportTyped
<1>4. /\ 1 \in None..Aborted /\ CountStep \in None..Aborted /\ MaxStep \in None..Aborted
      /\ Done \in None..Aborted
      /\ \A p \in 1..LastCount : p + 1 \in None..Aborted
  BY DEF None, Aborted, CountStep, MaxStep, Done, LastCount
<1>5. CASE Begin(c) BY <1>1, <1>2, <1>3, <1>4, <1>5 DEF Begin
<1>6. CASE Count(c)
  <2>1. Plan(c)[pc[c]] \in Documents BY <1>6, PlanTyped DEF Count
  <2>2. counted' \in [Calls -> SUBSET Documents] BY <1>6, <2>1 DEF Count
  <2>3. pc[c] \in 1..LastCount BY <1>6 DEF Count
  <2>4. pc' = [pc EXCEPT ![c] = pc[c] + 1] \/ pc' = [pc EXCEPT ![c] = Done] BY <1>6 DEF Count
  <2>5. pc' \in [Calls -> None..Aborted] BY <1>1, <1>4, <2>3, <2>4
  <2> QED BY <1>2, <1>3, <1>6, <2>2, <2>5 DEF Count
<1>7. CASE InsertHit(c) BY <1>1, <1>2, <1>3, <1>4, <1>7 DEF InsertHit
<1>8. CASE CountWindow(c)
  <2>1. Cardinality(InWindow(req24h, CapabilityOf[Call[c].model], at[c])) \in Nat
    BY CountedTyped
  <2> QED BY <1>1, <1>2, <1>3, <1>4, <1>8, <2>1 DEF CountWindow
<1>9. CASE RaisePeak(c)
  <2>1. peak' \in [Capabilities -> Nat] BY <1>9 DEF RaisePeak
  <2> QED BY <1>1, <1>2, <1>3, <1>4, <1>9, <2>1 DEF RaisePeak
<1> QED BY <1>5, <1>6, <1>7, <1>8, <1>9 DEF Record

LEMMA ReadsLeave ==
  (\E row \in Followed : ReadTotals(row)) \/ ReadHours \/ ReadDays =>
    UNCHANGED <<now, phase, inserts, writes, failed24h, failures, faults>>
<1>1. ASSUME NEW row \in Followed, ReadTotals(row)
      PROVE  UNCHANGED <<now, phase, inserts, writes, failed24h, failures, faults>>
  BY <1>1, Zenon DEF ReadTotals
<1>2. ASSUME ReadHours
      PROVE  UNCHANGED <<now, phase, inserts, writes, failed24h, failures, faults>>
  BY <1>2, Zenon DEF ReadHours
<1>3. ASSUME ReadDays
      PROVE  UNCHANGED <<now, phase, inserts, writes, failed24h, failures, faults>>
  BY <1>3 DEF ReadDays
<1> QED BY <1>1, <1>2, <1>3

LEMMA ReadTyped ==
  ASSUME StatsTyped, (\E row \in Followed : ReadTotals(row)) \/ ReadHours \/ ReadDays
  PROVE  StatsTyped'
<1>1. UNCHANGED <<now, phase, inserts, writes, failed24h, failures, faults>> BY ReadsLeave
<1>2. ReportTyped' /\ report'.pc \in {"idle", "totals", "hours"}
  <2>1. ASSUME NEW row \in Followed, ReadTotals(row) PROVE report'.pc = "totals" /\ ReportTyped'
    <3>1. now - HourRange \in Int /\ DayOf(now) - DayRange \in Int
      BY Times, TimeAssumption DEF StatsTyped, StatsTypeOK
    <3>2. PICK docs : report' = TotalsRead(row, docs) BY <2>1, Zenon DEF ReadTotals
    <3>3. TotalsRead(row, docs) \in Reports BY <3>1 DEF TotalsRead, Reports
    <3>4. TotalsRead(row, docs).pc = "totals" BY DEF TotalsRead
    <3> QED BY <3>2, <3>3, <3>4 DEF ReportTyped
  <2>2. ASSUME ReadHours PROVE report'.pc = "hours" /\ ReportTyped'
    <3>1. ASSUME NEW docs, NEW row PROVE Series(docs, row) \subseteq Calls
      <4>1. \A d : Doc(d) \subseteq Calls BY DEF Doc
      <4> QED BY <4>1 DEF Series
    <3>0. report.pc = "totals" BY <2>2, Zenon DEF ReadHours
    <3>2. report \in Reports BY <3>0 DEF StatsTyped, ReportTyped, NoReport
    <3>3. Cut("hour", FoundHours, HoursLength) \subseteq {"hour", "day"}
      BY <3>2 DEF Cut, Reports
    <3>4. PICK docs : report' = HoursRead(docs) BY <2>2, Zenon DEF ReadHours
    <3>5. HoursRead(docs) \in Reports /\ HoursRead(docs).pc = "hours"
      <4>1. Series(docs, report.row) \subseteq Calls BY <3>1
      <4> QED BY <3>2, <3>3, <4>1 DEF HoursRead, Reports
    <3> QED BY <3>4, <3>5 DEF ReportTyped
  <2>3. ASSUME ReadDays PROVE report'.pc = "idle" /\ ReportTyped'
    BY <2>3 DEF ReadDays, NoReport, ReportTyped
  <2> QED BY <2>1, <2>2, <2>3
<1> QED BY <1>1, <1>2 DEF StatsTyped, StatsTypeOK, writes

LEMMA EndsTyped ==
  ASSUME StatsTyped, NEW c \in Calls,
         \/ (\E how \in Outcomes[c] : Enqueue(c, how)) \/ Abort(c)
         \/ Expire(c) \/ ExpireFailed(c) \/ ExpireFailure(c)
  PROVE  StatsTyped'
<1> USE DEF StatsTyped, StatsTypeOK
<1>0. ReportTyped' BY DEF ReportTyped, Enqueue, Abort, Expire, ExpireFailed, ExpireFailure
<1>1. CASE \E how \in Outcomes[c] : Enqueue(c, how)
  <2>1. PICK how \in Outcomes[c] : Enqueue(c, how) BY <1>1
  <2>2. how \in {"success", "failure", "terminal"} BY CallAssumption
  <2>3. pc' \in [Calls -> None..Aborted] BY <2>1 DEF Enqueue, Scheduled, None, Aborted
  <2>4. outcome' \in [Calls -> {"none", "success", "failure", "terminal"}]
    BY <2>1, <2>2 DEF Enqueue
  <2>5. inserts' \subseteq Inserts BY <2>1 DEF Enqueue, Inserts
  <2> QED BY <1>0, <2>1, <2>3, <2>4, <2>5 DEF Enqueue
<1>2. CASE Abort(c)
  <2>1. pc' \in [Calls -> None..Aborted] BY <1>2 DEF Abort, None, Aborted
  <2>2. faults' \in 0..MaxFaults BY <1>2, TimeAssumption DEF Abort
  <2> QED BY <1>0, <1>2, <2>1, <2>2 DEF Abort
<1>3. CASE Expire(c) BY <1>0, <1>3 DEF Expire
<1>4. CASE ExpireFailed(c) \/ ExpireFailure(c)
  BY <1>0, <1>4 DEF ExpireFailed, ExpireFailure, writes
<1> QED BY <1>1, <1>2, <1>3, <1>4

LEMMA InsertTyped ==
  ASSUME StatsTyped, NEW i \in Inserts, Insert(i) \/ InsertFails(i) PROVE StatsTyped'
<1> USE DEF StatsTyped, StatsTypeOK
<1>0. ReportTyped' BY DEF ReportTyped, Insert, InsertFails
<1>1. i[2] \in Calls BY DEF Inserts
<1>2. CASE Insert(i)
  <2>1. inserts' \subseteq Inserts BY <1>2 DEF Insert
  <2>2. failures' \in [Calls -> Instants \cup {NoTime, Expired}] BY <1>1, <1>2 DEF Insert
  <2>3. failed24h' \in [Calls -> Instants \cup {NoTime}] BY <1>1, <1>2 DEF Insert
  <2> QED BY <1>0, <1>2, <2>1, <2>2, <2>3 DEF Insert, writes
<1>3. CASE InsertFails(i)
  <2>1. faults' \in 0..MaxFaults BY <1>3, TimeAssumption DEF InsertFails
  <2> QED BY <1>0, <1>3, <2>1 DEF InsertFails, writes
<1> QED BY <1>2, <1>3

LEMMA ProcessTyped ==
  ASSUME StatsTyped, Close \/ Closed \/ Start \/ Crash \/ Tick PROVE StatsTyped'
<1> USE DEF StatsTyped, StatsTypeOK
<1>1. CASE Close \/ Closed \/ Start \/ Tick
  <2>1. ReportTyped' /\ report'.pc \in {"idle", "totals", "hours"}
    BY <1>1 DEF ReportTyped, Close, Closed, Start, Tick, NoReport
  <2> QED BY <1>1, <2>1 DEF Close, Closed, Start, Tick, writes
<1>2. CASE Crash
  <2>1. ReportTyped' /\ report'.pc \in {"idle", "totals", "hours"}
    BY <1>2 DEF ReportTyped, Crash, NoReport
  <2>2. pc' \in [Calls -> None..Aborted] BY <1>2 DEF Crash, None, Aborted
  <2>3. faults' \in 0..MaxFaults BY <1>2, TimeAssumption DEF Crash
  <2> QED BY <1>2, <2>1, <2>2, <2>3 DEF Crash
<1> QED BY <1>1, <1>2

LEMMA StatsSteps ==
  StatsNext =>
    \/ \E c \in Calls : Record(c)
    \/ \E c \in Calls : (\E how \in Outcomes[c] : Enqueue(c, how)) \/ Abort(c) \/ Expire(c)
                        \/ ExpireFailed(c) \/ ExpireFailure(c)
    \/ \E i \in Inserts : Insert(i) \/ InsertFails(i)
    \/ (\E row \in Followed : ReadTotals(row)) \/ ReadHours \/ ReadDays
    \/ Close \/ Closed \/ Start \/ Crash \/ Tick
BY DEF StatsNext

LEMMA StatsStepTyped == StatsTyped /\ [StatsNext]_statsVars => StatsTyped'
<1>1. CASE UNCHANGED statsVars
  BY <1>1 DEF StatsTyped, StatsTypeOK, ReportTyped, statsVars, writes
<1> QED BY <1>1, StatsSteps, RecordTyped, ReadTyped, EndsTyped, InsertTyped, ProcessTyped

LEMMA StatsTypedAlways == StatsSpec => []StatsTyped
BY StatsInitTyped, StatsStepTyped, PTL DEF StatsSpec

\* The stored statistics, their tasks and the readers keep their types.
THEOREM StatsTypeCorrect == StatsSpec => []StatsTypeOK
<1>1. StatsTyped => StatsTypeOK BY DEF StatsTyped
<1> QED BY <1>1, StatsTypedAlways, PTL

-----------------------------------------------------------------------------
(* Each call is counted in the order of its plan.                           *)

Written(c, n) == {Plan(c)[i] : i \in 1..n}

\* A task at one of its writes has made those before it; a task cut short some first ones.
WrittenTo(c, n) ==
  /\ n \in 0..LastCount /\ counted[c] = Written(c, n)
  /\ pc[c] \in {None, Scheduled} => n = 0
  /\ pc[c] \in 1..LastCount => n = pc[c] - 1
  /\ pc[c] \in InsertStep..Done => n = LastCount

InOrder == \A c \in Calls : \E n \in 0..LastCount : WrittenTo(c, n)

LEMMA PlanStays == ASSUME NEW c \in Calls, at'[c] = at[c] PROVE Plan(c)' = Plan(c)
BY DEF Plan, BucketPlan, TotalPlan

LEMMA Unmoved ==
  ASSUME NEW c \in Calls, NEW n, WrittenTo(c, n), at'[c] = at[c], counted'[c] = counted[c],
         \/ pc'[c] = pc[c] \/ pc'[c] = Aborted
         \/ pc[c] = None /\ pc'[c] = Scheduled
         \/ pc[c] \in InsertStep..MaxStep /\ pc'[c] \in InsertStep..Done
  PROVE  WrittenTo(c, n)'
<1>1. Written(c, n)' = Written(c, n) BY PlanStays DEF Written
<1> QED BY <1>1 DEF WrittenTo, None, Scheduled, LastCount, InsertStep, MaxStep, Done, Aborted

LEMMA BeginInOrder ==
  ASSUME StatsTyped, NEW c \in Calls, WrittenTo(c, 0), Begin(c) PROVE WrittenTo(c, 0)'
<1>1. pc'[c] = 1 /\ counted' = counted BY DEF Begin, StatsTyped, StatsTypeOK
<1>2. Written(c, 0) = {} /\ Written(c, 0)' = {} BY DEF Written
<1> QED BY <1>1, <1>2 DEF WrittenTo, None, Scheduled, LastCount, InsertStep, Done

LEMMA CountInOrder ==
  ASSUME StatsTyped, NEW c \in Calls, NEW n \in 0..LastCount, WrittenTo(c, n), Count(c)
  PROVE  n + 1 \in 0..LastCount /\ WrittenTo(c, n + 1)'
<1>1. pc[c] \in 1..LastCount /\ n = pc[c] - 1 BY DEF Count, WrittenTo
<1>2. n + 1 = pc[c] /\ n + 1 \in 1..10 BY <1>1 DEF LastCount
<1>3. counted'[c] = Written(c, n) \cup {Plan(c)[n + 1]}
  BY <1>2 DEF Count, WrittenTo, StatsTyped, StatsTypeOK
<1>4. Written(c, n + 1) = Written(c, n) \cup {Plan(c)[n + 1]}
  <2>1. 1..(n + 1) = (1..n) \cup {n + 1} BY <1>2
  <2> QED BY <2>1 DEF Written
<1>5. Written(c, n + 1)' = Written(c, n + 1) BY PlanStays DEF Written, Count
<1>6. pc'[c] = IF pc[c] < LastCount \/ CountsForPeak(c) THEN pc[c] + 1 ELSE Done
  BY DEF Count, StatsTyped, StatsTypeOK
<1>7. /\ pc'[c] \notin {None, Scheduled}
      /\ pc'[c] \in 1..LastCount => n + 1 = pc'[c] - 1
      /\ pc'[c] \in InsertStep..Done => n + 1 = LastCount
  BY <1>1, <1>2, <1>6 DEF None, Scheduled, LastCount, InsertStep, Done
<1> QED BY <1>2, <1>3, <1>4, <1>5, <1>7 DEF WrittenTo, LastCount

LEMMA StepInOrder == StatsTyped /\ InOrder /\ [StatsNext]_statsVars => InOrder'
<1> SUFFICES ASSUME StatsTyped, InOrder, [StatsNext]_statsVars, NEW c \in Calls
             PROVE  \E n \in 0..LastCount : WrittenTo(c, n)'
  BY DEF InOrder
<1>1. PICK n \in 0..LastCount : WrittenTo(c, n) BY DEF InOrder
<1>2. CASE at'[c] = at[c] /\ counted'[c] = counted[c]
           /\ \/ pc'[c] = pc[c] \/ pc'[c] = Aborted
              \/ pc[c] = None /\ pc'[c] = Scheduled
              \/ pc[c] \in InsertStep..MaxStep /\ pc'[c] \in InsertStep..Done
  BY <1>1, <1>2, Unmoved
<1>3. CASE UNCHANGED writes \/ UNCHANGED statsVars BY <1>2, <1>3 DEF writes, statsVars
<1>4. ASSUME NEW d \in Calls, Record(d) PROVE \E k \in 0..LastCount : WrittenTo(c, k)'
  <2>1. CASE d # c
    <3>1. at'[c] = at[c] /\ counted'[c] = counted[c] /\ pc'[c] = pc[c]
      BY <1>4, <2>1 DEF Record, Begin, Count, InsertHit, CountWindow, RaisePeak,
                        StatsTyped, StatsTypeOK
    <3> QED BY <1>2, <3>1
  <2>2. CASE d = c
    <3>1. CASE Begin(c)
      <4>1. n = 0 BY <1>1, <3>1 DEF Begin, WrittenTo
      <4> QED BY <1>1, <3>1, <4>1, BeginInOrder
    <3>2. CASE Count(c) BY <1>1, <3>2, CountInOrder
    <3>3. CASE InsertHit(c) \/ CountWindow(c) \/ RaisePeak(c)
      <4>1. at' = at /\ counted' = counted
        BY <3>3 DEF InsertHit, CountWindow, RaisePeak
      <4>2. pc[c] \in InsertStep..MaxStep /\ pc'[c] \in InsertStep..Done
        BY <3>3 DEF InsertHit, CountWindow, RaisePeak, StatsTyped, StatsTypeOK,
                    InsertStep, CountStep, MaxStep, Done
      <4> QED BY <1>2, <4>1, <4>2
    <3> QED BY <1>4, <2>2, <3>1, <3>2, <3>3 DEF Record
  <2> QED BY <2>1, <2>2
<1>5. ASSUME NEW d \in Calls,
             \/ (\E how \in Outcomes[d] : Enqueue(d, how)) \/ Abort(d)
             \/ Expire(d) \/ ExpireFailed(d) \/ ExpireFailure(d)
      PROVE  \E k \in 0..LastCount : WrittenTo(c, k)'
  <2>1. CASE ExpireFailed(d) \/ ExpireFailure(d)
    BY <1>3, <2>1 DEF ExpireFailed, ExpireFailure
  <2>2. CASE ~(ExpireFailed(d) \/ ExpireFailure(d))
    <3>1. at' = at /\ counted' = counted
      BY <1>5, <2>2 DEF Enqueue, Abort, Expire
    <3>2. pc'[c] = pc[c] \/ pc'[c] = Aborted \/ (pc[c] = None /\ pc'[c] = Scheduled)
      BY <1>5, <2>2 DEF Enqueue, Abort, Expire, StatsTyped, StatsTypeOK
    <3> QED BY <1>2, <3>1, <3>2
  <2> QED BY <2>1, <2>2
<1>6. CASE \E i \in Inserts : Insert(i) \/ InsertFails(i) BY <1>3, <1>6 DEF Insert, InsertFails
<1>7. CASE (\E row \in Followed : ReadTotals(row)) \/ ReadHours \/ ReadDays
  BY <1>3, <1>7, ReadsLeave
<1>8. CASE Close \/ Closed \/ Start \/ Tick BY <1>3, <1>8 DEF Close, Closed, Start, Tick
<1>9. CASE Crash
  <2>1. at' = at /\ counted' = counted /\ (pc'[c] = pc[c] \/ pc'[c] = Aborted)
    BY <1>9 DEF Crash
  <2> QED BY <1>2, <2>1
<1> QED BY <1>3, <1>4, <1>5, <1>6, <1>7, <1>8, <1>9, StatsSteps

LEMMA InitInOrder == StatsInit => InOrder
<1> SUFFICES ASSUME StatsInit, NEW c \in Calls PROVE WrittenTo(c, 0)
  BY DEF InOrder, LastCount
<1>1. Written(c, 0) = {} BY DEF Written
<1> QED BY <1>1 DEF StatsInit, WrittenTo, LastCount, None, InsertStep, Done

\* A document that counts c is one of its plan, and the plan's earlier ones count it too.
Reached(c, i) == Plan(c)[i] \in counted[c]

LEMMA PlanTags ==
  ASSUME NEW c \in Calls
  PROVE  /\ \A i \in 1..3 : Plan(c)[i][1] = "hour" /\ Plan(c)[i][2] = at[c]
         /\ \A i \in 4..6 : Plan(c)[i][1] = "day" /\ Plan(c)[i][2] = DayOf(at[c])
         /\ \A i \in 7..10 : Plan(c)[i][1] = "total" /\ Plan(c)[i][2] = 0
         /\ \A i \in {1, 4, 7} : Plan(c)[i][3] = <<"model", Call[c].model>>
         /\ \A i \in {2, 5, 10} : Plan(c)[i][3] = <<"notes", Call[c].note>>
         /\ \A i \in {3, 6} : Plan(c)[i][3] = <<"note_model", <<Call[c].note, Call[c].model>> >>
         /\ Plan(c)[8][3] = <<"provider", ProviderOf[Call[c].model]>>
         /\ Plan(c)[9][3] = <<"capability", CapabilityOf[Call[c].model]>>
<1> DEFINE p == Plan(c)
<1>1. /\ p[1][1] = "hour" /\ p[2][1] = "hour" /\ p[3][1] = "hour"
      /\ p[4][1] = "day" /\ p[5][1] = "day" /\ p[6][1] = "day"
      /\ p[7][1] = "total" /\ p[8][1] = "total" /\ p[9][1] = "total" /\ p[10][1] = "total"
  BY PlanIs
<1>2. /\ p[1][2] = at[c] /\ p[2][2] = at[c] /\ p[3][2] = at[c]
      /\ p[4][2] = DayOf(at[c]) /\ p[5][2] = DayOf(at[c]) /\ p[6][2] = DayOf(at[c])
      /\ p[7][2] = 0 /\ p[8][2] = 0 /\ p[9][2] = 0 /\ p[10][2] = 0
  BY PlanIs
<1>3. /\ p[1][3] = <<"model", Call[c].model>> /\ p[4][3] = <<"model", Call[c].model>>
      /\ p[7][3] = <<"model", Call[c].model>>
      /\ p[2][3] = <<"notes", Call[c].note>> /\ p[5][3] = <<"notes", Call[c].note>>
      /\ p[10][3] = <<"notes", Call[c].note>>
  BY PlanIs
<1>4. /\ p[3][3] = <<"note_model", <<Call[c].note, Call[c].model>> >>
      /\ p[6][3] = <<"note_model", <<Call[c].note, Call[c].model>> >>
      /\ p[8][3] = <<"provider", ProviderOf[Call[c].model]>>
      /\ p[9][3] = <<"capability", CapabilityOf[Call[c].model]>>
  BY PlanIs
<1> HIDE DEF p
<1>5. /\ \A i \in 1..3 : p[i][1] = "hour" /\ p[i][2] = at[c]
      /\ \A i \in 4..6 : p[i][1] = "day" /\ p[i][2] = DayOf(at[c])
      /\ \A i \in 7..10 : p[i][1] = "total" /\ p[i][2] = 0
      /\ \A i \in {1, 4, 7} : p[i][3] = <<"model", Call[c].model>>
      /\ \A i \in {2, 5, 10} : p[i][3] = <<"notes", Call[c].note>>
      /\ \A i \in {3, 6} : p[i][3] = <<"note_model", <<Call[c].note, Call[c].model>> >>
  BY <1>1, <1>2, <1>3, <1>4
<1> QED BY <1>4, <1>5 DEF p

\* Which place a document has in the plan is told by its grain and its kind.
Place(d) ==
  CASE d[1] = "hour"  -> (CASE d[3][1] = "model" -> 1 [] d[3][1] = "notes" -> 2 [] OTHER -> 3)
    [] d[1] = "day"   -> (CASE d[3][1] = "model" -> 4 [] d[3][1] = "notes" -> 5 [] OTHER -> 6)
    [] d[1] = "total" -> (CASE d[3][1] = "model" -> 7 [] d[3][1] = "provider" -> 8
                            [] d[3][1] = "capability" -> 9 [] OTHER -> 10)

LEMMA PlanPlaces ==
  ASSUME NEW c \in Calls, NEW i \in 1..LastCount PROVE Place(Plan(c)[i]) = i
<1> DEFINE p == Plan(c)
<1>1. Place(p[1]) = 1 /\ Place(p[2]) = 2 /\ Place(p[3]) = 3 BY PlanIs DEF Place
<1>2. Place(p[4]) = 4 /\ Place(p[5]) = 5 /\ Place(p[6]) = 6 BY PlanIs DEF Place
<1>3. Place(p[7]) = 7 /\ Place(p[8]) = 8 BY PlanIs DEF Place
<1>4. Place(p[9]) = 9 /\ Place(p[10]) = 10 BY PlanIs DEF Place
<1> HIDE DEF p
<1>5. Place(p[i]) = i BY <1>1, <1>2, <1>3, <1>4 DEF LastCount
<1> QED BY <1>5 DEF p

LEMMA Before ==
  ASSUME InOrder, NEW c \in Calls, NEW j \in 1..LastCount, NEW i \in 1..j, Reached(c, j)
  PROVE  Reached(c, i)
<1>1. PICK n \in 0..LastCount : WrittenTo(c, n) BY DEF InOrder
<1>2. PICK k \in 1..n : Plan(c)[j] = Plan(c)[k] BY <1>1 DEF Reached, WrittenTo, Written
<1>3. j = k
  <2>1. k \in 1..LastCount BY <1>1, <1>2 DEF LastCount
  <2> QED BY <1>2, <2>1, PlanPlaces
<1>4. i \in 1..n BY <1>2, <1>3
<1> QED BY <1>1, <1>4 DEF Reached, WrittenTo, Written

\* A document counts c if c has reached its place and it is the one of c there.
LEMMA DocumentOf ==
  ASSUME InOrder, NEW c \in Calls, NEW d
  PROVE  d \in counted[c] <=> \E i \in 1..LastCount : d = Plan(c)[i] /\ Reached(c, i)
<1>1. PICK n \in 0..LastCount : WrittenTo(c, n) BY DEF InOrder
<1>2. ASSUME d \in counted[c] PROVE \E i \in 1..LastCount : d = Plan(c)[i] /\ Reached(c, i)
  <2>1. PICK i \in 1..n : d = Plan(c)[i] BY <1>1, <1>2 DEF WrittenTo, Written
  <2>2. i \in 1..LastCount BY <2>1 DEF LastCount
  <2> QED BY <1>2, <2>1, <2>2 DEF Reached
<1> QED BY <1>2 DEF Reached

LEMMA BucketCounts ==
  ASSUME InOrder, NEW c \in Calls, NEW b, NEW x
  PROVE  /\ <<"hour", b, <<"model", x>> >> \in counted[c] <=>
              b = at[c] /\ x = Call[c].model /\ Reached(c, 1)
         /\ <<"hour", b, <<"notes", x>> >> \in counted[c] <=>
              b = at[c] /\ x = Call[c].note /\ Reached(c, 2)
         /\ <<"hour", b, <<"note_model", x>> >> \in counted[c] <=>
              b = at[c] /\ x = <<Call[c].note, Call[c].model>> /\ Reached(c, 3)
         /\ <<"day", b, <<"model", x>> >> \in counted[c] <=>
              b = DayOf(at[c]) /\ x = Call[c].model /\ Reached(c, 4)
         /\ <<"day", b, <<"notes", x>> >> \in counted[c] <=>
              b = DayOf(at[c]) /\ x = Call[c].note /\ Reached(c, 5)
         /\ <<"day", b, <<"note_model", x>> >> \in counted[c] <=>
              b = DayOf(at[c]) /\ x = <<Call[c].note, Call[c].model>> /\ Reached(c, 6)
<1>1. ASSUME NEW d, NEW i \in 1..LastCount, Place(d) = i
      PROVE  d \in counted[c] <=> d = Plan(c)[i] /\ Reached(c, i)
  BY <1>1, DocumentOf, PlanPlaces
<1>2. <<"hour", b, <<"model", x>> >> \in counted[c] <=>
        b = at[c] /\ x = Call[c].model /\ Reached(c, 1)
  <2>1. Place(<<"hour", b, <<"model", x>> >>) = 1 BY DEF Place
  <2>2. <<"hour", b, <<"model", x>> >> = Plan(c)[1] <=> b = at[c] /\ x = Call[c].model BY PlanIs
  <2> QED BY <1>1, <2>1, <2>2 DEF LastCount
<1>3. <<"hour", b, <<"notes", x>> >> \in counted[c] <=>
        b = at[c] /\ x = Call[c].note /\ Reached(c, 2)
  <2>1. Place(<<"hour", b, <<"notes", x>> >>) = 2 BY DEF Place
  <2>2. <<"hour", b, <<"notes", x>> >> = Plan(c)[2] <=> b = at[c] /\ x = Call[c].note BY PlanIs
  <2> QED BY <1>1, <2>1, <2>2 DEF LastCount
<1>4. <<"hour", b, <<"note_model", x>> >> \in counted[c] <=>
        b = at[c] /\ x = <<Call[c].note, Call[c].model>> /\ Reached(c, 3)
  <2>1. Place(<<"hour", b, <<"note_model", x>> >>) = 3 BY DEF Place
  <2>2. <<"hour", b, <<"note_model", x>> >> = Plan(c)[3] <=>
          b = at[c] /\ x = <<Call[c].note, Call[c].model>>
    BY PlanIs
  <2> QED BY <1>1, <2>1, <2>2 DEF LastCount
<1>5. <<"day", b, <<"model", x>> >> \in counted[c] <=>
        b = DayOf(at[c]) /\ x = Call[c].model /\ Reached(c, 4)
  <2>1. Place(<<"day", b, <<"model", x>> >>) = 4 BY DEF Place
  <2>2. <<"day", b, <<"model", x>> >> = Plan(c)[4] <=> b = DayOf(at[c]) /\ x = Call[c].model
    BY PlanIs
  <2> QED BY <1>1, <2>1, <2>2 DEF LastCount
<1>6. <<"day", b, <<"notes", x>> >> \in counted[c] <=>
        b = DayOf(at[c]) /\ x = Call[c].note /\ Reached(c, 5)
  <2>1. Place(<<"day", b, <<"notes", x>> >>) = 5 BY DEF Place
  <2>2. <<"day", b, <<"notes", x>> >> = Plan(c)[5] <=> b = DayOf(at[c]) /\ x = Call[c].note
    BY PlanIs
  <2> QED BY <1>1, <2>1, <2>2 DEF LastCount
<1>7. <<"day", b, <<"note_model", x>> >> \in counted[c] <=>
        b = DayOf(at[c]) /\ x = <<Call[c].note, Call[c].model>> /\ Reached(c, 6)
  <2>1. Place(<<"day", b, <<"note_model", x>> >>) = 6 BY DEF Place
  <2>2. <<"day", b, <<"note_model", x>> >> = Plan(c)[6] <=>
          b = DayOf(at[c]) /\ x = <<Call[c].note, Call[c].model>>
    BY PlanIs
  <2> QED BY <1>1, <2>1, <2>2 DEF LastCount
<1> QED BY <1>2, <1>3, <1>4, <1>5, <1>6, <1>7

LEMMA TotalCounts ==
  ASSUME InOrder, NEW c \in Calls, NEW x
  PROVE  /\ c \in Total("model", x) <=> x = Call[c].model /\ Reached(c, 7)
         /\ c \in Total("provider", x) <=> x = ProviderOf[Call[c].model] /\ Reached(c, 8)
         /\ c \in Total("capability", x) <=> x = CapabilityOf[Call[c].model] /\ Reached(c, 9)
         /\ c \in Total("notes", x) <=> x = Call[c].note /\ Reached(c, 10)
<1>1. ASSUME NEW kind, NEW i \in 1..LastCount, Place(<<"total", 0, <<kind, x>> >>) = i
      PROVE  c \in Total(kind, x) <=> <<"total", 0, <<kind, x>> >> = Plan(c)[i] /\ Reached(c, i)
  BY <1>1, DocumentOf, PlanPlaces DEF Total, Doc
<1>2. /\ Place(<<"total", 0, <<"model", x>> >>) = 7 /\ Place(<<"total", 0, <<"provider", x>> >>) = 8
      /\ Place(<<"total", 0, <<"capability", x>> >>) = 9
      /\ Place(<<"total", 0, <<"notes", x>> >>) = 10
  BY DEF Place
<1>3. /\ <<"total", 0, <<"model", x>> >> = Plan(c)[7] <=> x = Call[c].model
      /\ <<"total", 0, <<"provider", x>> >> = Plan(c)[8] <=> x = ProviderOf[Call[c].model]
      /\ <<"total", 0, <<"capability", x>> >> = Plan(c)[9] <=> x = CapabilityOf[Call[c].model]
      /\ <<"total", 0, <<"notes", x>> >> = Plan(c)[10] <=> x = Call[c].note
  BY PlanIs
<1>4. 7 \in 1..LastCount /\ 8 \in 1..LastCount /\ 9 \in 1..LastCount /\ 10 \in 1..LastCount
  BY DEF LastCount
<1>5. c \in Total("model", x) <=> x = Call[c].model /\ Reached(c, 7) BY <1>1, <1>2, <1>3, <1>4
<1>6. c \in Total("provider", x) <=> x = ProviderOf[Call[c].model] /\ Reached(c, 8)
  BY <1>1, <1>2, <1>3, <1>4
<1>7. c \in Total("capability", x) <=> x = CapabilityOf[Call[c].model] /\ Reached(c, 9)
  BY <1>1, <1>2, <1>3, <1>4
<1>8. c \in Total("notes", x) <=> x = Call[c].note /\ Reached(c, 10) BY <1>1, <1>2, <1>3, <1>4
<1> QED BY <1>5, <1>6, <1>7, <1>8

LEMMA SummedCounts ==
  ASSUME StatsTyped, InOrder, NEW c \in Calls, NEW x
  PROVE  /\ c \in Summed("hour", "model", x) <=> x = Call[c].model /\ Reached(c, 1)
         /\ c \in Summed("hour", "notes", x) <=> x = Call[c].note /\ Reached(c, 2)
         /\ c \in Summed("hour", "note_model", x) <=>
              x = <<Call[c].note, Call[c].model>> /\ Reached(c, 3)
         /\ c \in Summed("day", "model", x) <=> x = Call[c].model /\ Reached(c, 4)
         /\ c \in Summed("day", "notes", x) <=> x = Call[c].note /\ Reached(c, 5)
         /\ c \in Summed("day", "note_model", x) <=>
              x = <<Call[c].note, Call[c].model>> /\ Reached(c, 6)
<1>1. at[c] \in Buckets /\ DayOf(at[c]) \in Buckets BY Times DEF StatsTyped, StatsTypeOK
<1>2. ASSUME NEW grain, NEW kind
      PROVE  c \in Summed(grain, kind, x) <=>
               \E b \in Buckets : <<grain, b, <<kind, x>> >> \in counted[c]
  BY DEF Summed, Doc
<1>3. c \in Summed("hour", "model", x) <=> x = Call[c].model /\ Reached(c, 1)
  <2>1. \A b : <<"hour", b, <<"model", x>> >> \in counted[c] <=>
                 b = at[c] /\ x = Call[c].model /\ Reached(c, 1)
    BY BucketCounts
  <2>2. c \in Summed("hour", "model", x) <=>
          \E b \in Buckets : <<"hour", b, <<"model", x>> >> \in counted[c]
    BY <1>2
  <2> QED BY <1>1, <2>1, <2>2
<1>4. c \in Summed("hour", "notes", x) <=> x = Call[c].note /\ Reached(c, 2)
  <2>1. \A b : <<"hour", b, <<"notes", x>> >> \in counted[c] <=>
                 b = at[c] /\ x = Call[c].note /\ Reached(c, 2)
    BY BucketCounts
  <2>2. c \in Summed("hour", "notes", x) <=>
          \E b \in Buckets : <<"hour", b, <<"notes", x>> >> \in counted[c]
    BY <1>2
  <2> QED BY <1>1, <2>1, <2>2
<1>5. c \in Summed("hour", "note_model", x) <=>
        x = <<Call[c].note, Call[c].model>> /\ Reached(c, 3)
  <2>1. \A b : <<"hour", b, <<"note_model", x>> >> \in counted[c] <=>
                 b = at[c] /\ x = <<Call[c].note, Call[c].model>> /\ Reached(c, 3)
    BY BucketCounts
  <2>2. c \in Summed("hour", "note_model", x) <=>
          \E b \in Buckets : <<"hour", b, <<"note_model", x>> >> \in counted[c]
    BY <1>2
  <2> QED BY <1>1, <2>1, <2>2
<1>6. c \in Summed("day", "model", x) <=> x = Call[c].model /\ Reached(c, 4)
  <2>1. \A b : <<"day", b, <<"model", x>> >> \in counted[c] <=>
                 b = DayOf(at[c]) /\ x = Call[c].model /\ Reached(c, 4)
    BY BucketCounts
  <2>2. c \in Summed("day", "model", x) <=>
          \E b \in Buckets : <<"day", b, <<"model", x>> >> \in counted[c]
    BY <1>2
  <2> QED BY <1>1, <2>1, <2>2
<1>7. c \in Summed("day", "notes", x) <=> x = Call[c].note /\ Reached(c, 5)
  <2>1. \A b : <<"day", b, <<"notes", x>> >> \in counted[c] <=>
                 b = DayOf(at[c]) /\ x = Call[c].note /\ Reached(c, 5)
    BY BucketCounts
  <2>2. c \in Summed("day", "notes", x) <=>
          \E b \in Buckets : <<"day", b, <<"notes", x>> >> \in counted[c]
    BY <1>2
  <2> QED BY <1>1, <2>1, <2>2
<1>8. c \in Summed("day", "note_model", x) <=>
        x = <<Call[c].note, Call[c].model>> /\ Reached(c, 6)
  <2>1. \A b : <<"day", b, <<"note_model", x>> >> \in counted[c] <=>
                 b = DayOf(at[c]) /\ x = <<Call[c].note, Call[c].model>> /\ Reached(c, 6)
    BY BucketCounts
  <2>2. c \in Summed("day", "note_model", x) <=>
          \E b \in Buckets : <<"day", b, <<"note_model", x>> >> \in counted[c]
    BY <1>2
  <2> QED BY <1>1, <2>1, <2>2
<1> QED BY <1>3, <1>4, <1>5, <1>6, <1>7, <1>8

LEMMA TheseAreCalls ==
  \A grain, kind, x : Total(kind, x) \subseteq Calls /\ Summed(grain, kind, x) \subseteq Calls
BY DEF Total, Summed, Doc

LEMMA OrderIsNeverAhead == StatsTyped /\ InOrder => NeverAhead
<1> SUFFICES ASSUME StatsTyped, InOrder, NEW m \in Models, NEW c \in Calls
             PROVE  /\ c \in Summed("day", "model", m) => c \in Summed("hour", "model", m)
                    /\ c \in Total("model", m) => c \in Summed("day", "model", m)
                    /\ \A n \in Notes : c \in Total("notes", n) /\ Call[c].model = m =>
                         /\ c \in Total("capability", CapabilityOf[m])
                         /\ c \in Summed("hour", "note_model", <<n, m>>)
                    /\ c \in Total("capability", CapabilityOf[m]) /\ Call[c].model = m =>
                         c \in Total("provider", ProviderOf[m]) /\ c \in Total("model", m)
  BY TheseAreCalls DEF NeverAhead
<1>1. /\ Reached(c, 4) => Reached(c, 1)
      /\ Reached(c, 7) => Reached(c, 4)
      /\ Reached(c, 10) => Reached(c, 9) /\ Reached(c, 3)
      /\ Reached(c, 9) => Reached(c, 8) /\ Reached(c, 7)
  BY Before DEF LastCount
<1>2. c \in Summed("day", "model", m) => c \in Summed("hour", "model", m) BY <1>1, SummedCounts
<1>3. c \in Total("model", m) => c \in Summed("day", "model", m)
  BY <1>1, SummedCounts, TotalCounts
<1>4. ASSUME NEW n \in Notes, c \in Total("notes", n), Call[c].model = m
      PROVE  c \in Total("capability", CapabilityOf[m]) /\ c \in Summed("hour", "note_model", <<n, m>>)
  BY <1>1, <1>4, SummedCounts, TotalCounts
<1>5. ASSUME c \in Total("capability", CapabilityOf[m]), Call[c].model = m
      PROVE  c \in Total("provider", ProviderOf[m]) /\ c \in Total("model", m)
  BY <1>1, <1>5, TotalCounts
<1> QED BY <1>2, <1>3, <1>4, <1>5

-----------------------------------------------------------------------------
(* What failed, and the views of complete counts.                            *)

\* A call has an outcome once it has a task; a failed one is listed, or about to be.
Told ==
  \A c \in Calls :
    /\ outcome[c] = "none" <=> pc[c] = None
    /\ failures[c] # NoTime \/ <<"failures", c>> \in inserts => outcome[c] \in {"failure", "terminal"}
    /\ faults = 0 /\ outcome[c] \in {"failure", "terminal"} =>
         failures[c] # NoTime \/ <<"failures", c>> \in inserts

LEMMA StepTold == StatsTyped /\ Told /\ [StatsNext]_statsVars => Told'
<1> SUFFICES ASSUME StatsTyped, Told, [StatsNext]_statsVars PROVE Told' OBVIOUS
<1> USE DEF StatsTyped, StatsTypeOK
<1>1. CASE UNCHANGED statsVars BY <1>1 DEF Told, statsVars, writes
<1>2. ASSUME NEW d \in Calls, Record(d) PROVE Told'
  <2>1. UNCHANGED <<outcome, inserts, failures, faults>> /\ (\A c \in Calls \ {d} : pc'[c] = pc[c])
    BY <1>2 DEF Record, Begin, Count, InsertHit, CountWindow, RaisePeak
  <2>2. pc[d] # None /\ pc'[d] # None
    BY <1>2 DEF Record, Begin, Count, InsertHit, CountWindow, RaisePeak, None, Scheduled,
                LastCount, InsertStep, CountStep, MaxStep, Done
  <2> QED BY <2>1, <2>2 DEF Told
<1>3. ASSUME NEW d \in Calls, NEW how \in Outcomes[d], Enqueue(d, how) PROVE Told'
  <2>1. how \in {"success", "failure", "terminal"} BY CallAssumption
  <2>2. /\ pc[d] = None /\ pc'[d] = Scheduled /\ outcome'[d] = how
        /\ \A c \in Calls \ {d} : pc'[c] = pc[c] /\ outcome'[c] = outcome[c]
        /\ failures' = failures /\ faults' = faults
    BY <1>3 DEF Enqueue
  <2>3. /\ \A c \in Calls \ {d} : <<"failures", c>> \in inserts' <=> <<"failures", c>> \in inserts
        /\ <<"failures", d>> \in inserts' <=> how # "success" \/ <<"failures", d>> \in inserts
    BY <1>3 DEF Enqueue
  <2>4. failures[d] = NoTime /\ <<"failures", d>> \notin inserts BY <2>2 DEF Told
  <2>5. None # Scheduled BY DEF None, Scheduled
  <2>6. ASSUME NEW c \in Calls \ {d} PROVE
          /\ outcome'[c] = "none" <=> pc'[c] = None
          /\ failures'[c] # NoTime \/ <<"failures", c>> \in inserts' => outcome'[c] \in {"failure", "terminal"}
          /\ faults' = 0 /\ outcome'[c] \in {"failure", "terminal"} =>
               failures'[c] # NoTime \/ <<"failures", c>> \in inserts'
    BY <2>2, <2>3 DEF Told
  <2>7. /\ outcome'[d] = "none" <=> pc'[d] = None
        /\ failures'[d] # NoTime \/ <<"failures", d>> \in inserts' => outcome'[d] \in {"failure", "terminal"}
        /\ faults' = 0 /\ outcome'[d] \in {"failure", "terminal"} =>
             failures'[d] # NoTime \/ <<"failures", d>> \in inserts'
    BY <2>1, <2>2, <2>3, <2>4, <2>5
  <2> QED BY <2>6, <2>7 DEF Told
<1>4. ASSUME NEW d \in Calls, Abort(d) PROVE Told'
  <2>1. pc[d] # None BY <1>4 DEF Abort, Running, None, MaxStep
  <2>2. /\ pc'[d] = Aborted /\ \A c \in Calls \ {d} : pc'[c] = pc[c]
        /\ UNCHANGED <<outcome, inserts, failures>> /\ faults' # 0
    BY <1>4 DEF Abort
  <2>3. Aborted # None BY DEF Aborted, None
  <2> QED BY <2>1, <2>2, <2>3 DEF Told
<1>5. ASSUME NEW d \in Calls, Expire(d) \/ ExpireFailed(d) \/ ExpireFailure(d) PROVE Told'
  <2>1. UNCHANGED <<pc, outcome, inserts, faults>>
    BY <1>5 DEF Expire, ExpireFailed, ExpireFailure, writes
  <2>2. failures' = failures \/ (failures[d] # NoTime /\ failures' = [failures EXCEPT ![d] = Expired])
    <3>1. NoTime \notin Instants BY TimeAssumption DEF NoTime
    <3> QED BY <1>5, <3>1 DEF Expire, ExpireFailed, ExpireFailure
  <2>3. \A c \in Calls : failures'[c] # NoTime <=> failures[c] # NoTime
    <3>1. Expired # NoTime BY DEF Expired, NoTime
    <3> QED BY <2>2, <3>1
  <2> QED BY <2>1, <2>3 DEF Told
<1>6. ASSUME NEW i \in Inserts, Insert(i) \/ InsertFails(i) PROVE Told'
  <2>1. i \in {"failures", "failed_24h"} \X Calls /\ i = <<i[1], i[2]>> BY DEF Inserts
  <2>2. UNCHANGED <<pc, outcome>> BY <1>6 DEF Insert, InsertFails, writes
  <2>3. CASE Insert(i)
    <3>1. /\ i \in inserts /\ inserts' = inserts \ {i} /\ faults' = faults
          /\ failures' = IF i[1] = "failures" THEN [failures EXCEPT ![i[2]] = now] ELSE failures
      BY <2>3 DEF Insert
    <3>2. ASSUME NEW c \in Calls
          PROVE  failures'[c] # NoTime \/ <<"failures", c>> \in inserts' <=>
                   failures[c] # NoTime \/ <<"failures", c>> \in inserts
      <4>0. now # NoTime BY TimeAssumption DEF NoTime
      <4>1. CASE i = <<"failures", c>>
        <5>1. failures'[c] = now BY <3>1, <4>1
        <5> QED BY <3>1, <4>0, <4>1, <5>1
      <4>2. CASE i # <<"failures", c>>
        <5>1. <<"failures", c>> \in inserts' <=> <<"failures", c>> \in inserts BY <3>1, <4>2
        <5>2. failures'[c] = failures[c] BY <2>1, <3>1, <4>2
        <5> QED BY <5>1, <5>2
      <4> QED BY <4>1, <4>2
    <3> QED BY <2>2, <3>1, <3>2 DEF Told
  <2>4. CASE InsertFails(i)
    <3>1. inserts' \subseteq inserts /\ failures' = failures /\ faults' # 0
      BY <2>4 DEF InsertFails
    <3> QED BY <2>2, <3>1 DEF Told
  <2> QED BY <1>6, <2>3, <2>4
<1>7. CASE (\E row \in Followed : ReadTotals(row)) \/ ReadHours \/ ReadDays
  BY <1>7, ReadsLeave DEF writes, Told
<1>8. CASE Close \/ Closed \/ Start \/ Tick BY <1>8 DEF Close, Closed, Start, Tick, writes, Told
<1>9. CASE Crash
  <2>1. \A c \in Calls : pc'[c] = None <=> pc[c] = None
    BY <1>9 DEF Crash, Pending, Running, None, Aborted, Scheduled, MaxStep
  <2>2. inserts' = {} /\ failures' = failures /\ outcome' = outcome /\ faults' # 0
    BY <1>9 DEF Crash
  <2> QED BY <2>1, <2>2 DEF Told
<1> QED BY <1>1, <1>2, <1>3, <1>4, <1>5, <1>6, <1>7, <1>8, <1>9, StatsSteps

LEMMA InitTold == StatsInit => Told
BY DEF StatsInit, Told

LEMMA OrderIsAgreed == StatsTyped /\ InOrder /\ Told => ViewsAgree
<1> SUFFICES ASSUME StatsTyped, InOrder, Told, Complete PROVE ViewsAgree BY DEF ViewsAgree
<1>1. ASSUME NEW c \in Calls
      PROVE  \/ pc[c] = None /\ \A i \in 1..LastCount : ~Reached(c, i)
             \/ pc[c] = Done /\ \A i \in 1..LastCount : Reached(c, i)
  <2>1. PICK n \in 0..LastCount : WrittenTo(c, n) BY DEF InOrder
  <2>2. pc[c] \in None..Aborted /\ ~Pending(c) /\ pc[c] # Aborted
    BY DEF Complete, Drained, StatsTyped, StatsTypeOK
  <2>3. pc[c] = None \/ pc[c] = Done
    BY <2>2 DEF Pending, Running, None, Aborted, Scheduled, MaxStep, Done
  <2>4. CASE pc[c] = None
    <3>1. counted[c] = {} BY <2>1, <2>4 DEF WrittenTo, Written
    <3> QED BY <2>4, <3>1 DEF Reached
  <2>5. CASE pc[c] = Done
    <3>1. n = LastCount BY <2>1, <2>5 DEF WrittenTo, InsertStep, Done
    <3> QED BY <2>1, <2>5, <3>1 DEF WrittenTo, Written, Reached
  <2> QED BY <2>3, <2>4, <2>5
<1>2. ASSUME NEW c \in Calls, NEW i \in 1..LastCount PROVE Reached(c, i) <=> pc[c] = Done
  BY <1>1, <1>2 DEF None, Done
<1>3. \A i \in 1..10 : i \in 1..LastCount BY DEF LastCount
<1>4. ASSUME NEW c \in Calls, NEW x
      PROVE  /\ c \in Total("model", x) <=> x = Call[c].model /\ pc[c] = Done
             /\ c \in Total("provider", x) <=> x = ProviderOf[Call[c].model] /\ pc[c] = Done
             /\ c \in Total("capability", x) <=> x = CapabilityOf[Call[c].model] /\ pc[c] = Done
             /\ c \in Total("notes", x) <=> x = Call[c].note /\ pc[c] = Done
  BY <1>2, <1>3, TotalCounts
<1>5. ASSUME NEW c \in Calls, NEW x
      PROVE  /\ c \in Summed("hour", "model", x) <=> x = Call[c].model /\ pc[c] = Done
             /\ c \in Summed("hour", "notes", x) <=> x = Call[c].note /\ pc[c] = Done
             /\ c \in Summed("day", "model", x) <=> x = Call[c].model /\ pc[c] = Done
             /\ c \in Summed("day", "notes", x) <=> x = Call[c].note /\ pc[c] = Done
             /\ c \in Summed("day", "note_model", x) <=>
                  x = <<Call[c].note, Call[c].model>> /\ pc[c] = Done
  BY <1>2, <1>3, SummedCounts
<1>6. \A c \in Calls : Call[c].model \in Models /\ Call[c].note \in Notes BY CallAssumption
<1>7. ASSUME NEW m \in Models
      PROVE  /\ Total("model", m) = Summed("day", "model", m)
             /\ Total("model", m) = Summed("hour", "model", m)
             /\ Total("model", m) = UNION {Summed("day", "note_model", <<n, m>>) : n \in Notes}
  <2>1. \A c \in Calls : c \in Total("model", m) <=> c \in Summed("day", "model", m)
    BY <1>4, <1>5
  <2>2. \A c \in Calls : c \in Total("model", m) <=> c \in Summed("hour", "model", m)
    BY <1>4, <1>5
  <2>3. ASSUME NEW c \in Calls
        PROVE  c \in Total("model", m) <=> \E n \in Notes : c \in Summed("day", "note_model", <<n, m>>)
    <3>1. c \in Total("model", m) <=> m = Call[c].model /\ pc[c] = Done BY <1>4
    <3>2. \A n : c \in Summed("day", "note_model", <<n, m>>) <=>
                   <<n, m>> = <<Call[c].note, Call[c].model>> /\ pc[c] = Done
      BY <1>5
    <3> QED BY <3>1, <3>2, <1>6
  <2>4. Total("model", m) = UNION {Summed("day", "note_model", <<n, m>>) : n \in Notes}
    BY <2>3, TheseAreCalls
  <2> QED BY <2>1, <2>2, <2>4, TheseAreCalls
<1>8. ASSUME NEW n \in Notes
      PROVE  /\ Total("notes", n) = Summed("day", "notes", n)
             /\ Total("notes", n) = Summed("hour", "notes", n)
  <2>1. \A c \in Calls : c \in Total("notes", n) <=> c \in Summed("day", "notes", n)
    BY <1>4, <1>5
  <2>2. \A c \in Calls : c \in Total("notes", n) <=> c \in Summed("hour", "notes", n)
    BY <1>4, <1>5
  <2> QED BY <2>1, <2>2, TheseAreCalls
<1>9. ASSUME NEW p \in Providers
      PROVE  Total("provider", p) = UNION {Total("model", m) : m \in {x \in Models : ProviderOf[x] = p}}
  <2>1. ASSUME NEW c \in Calls
        PROVE  c \in Total("provider", p) <=>
                 \E m \in {x \in Models : ProviderOf[x] = p} : c \in Total("model", m)
    BY <1>4, <1>6
  <2> QED BY <2>1, TheseAreCalls
<1>10. ASSUME NEW k \in Capabilities
       PROVE  Total("capability", k)
                = UNION {Total("model", m) : m \in {x \in Models : CapabilityOf[x] = k}}
  <2>1. ASSUME NEW c \in Calls
        PROVE  c \in Total("capability", k) <=>
                 \E m \in {x \in Models : CapabilityOf[x] = k} : c \in Total("model", m)
    BY <1>4, <1>6
  <2> QED BY <2>1, TheseAreCalls
<1>11. ASSUME faults = 0, NEW docs \in Returned(RecentFailures, FailuresLength), NEW m \in Models
       PROVE  LET failed == {c \in Total("model", m) : outcome[c] # "success"}
                  listed == FailureSummary(docs).by_model[m]
              IN  /\ listed \subseteq failed
                  /\ ~TooMany(RecentFailures, FailuresLength) =>
                       \A c \in failed \ listed : TooOld(c)
  <2>1. FailureSummary(docs).by_model[m] = {c \in docs : Call[c].model = m} BY DEF FailureSummary
  <2>2. /\ docs \subseteq RecentFailures /\ RecentFailures \subseteq Calls
        /\ ~TooMany(RecentFailures, FailuresLength) => docs = RecentFailures
    BY DEF Returned, RecentFailures
  <2>3. ASSUME NEW c \in Calls PROVE failures[c] # NoTime <=> pc[c] = Done /\ outcome[c] # "success"
    <3>1. inserts = {} BY DEF Complete, Drained
    <3>2. failures[c] # NoTime <=> outcome[c] \in {"failure", "terminal"} BY <1>11, <3>1 DEF Told
    <3>5. pc[c] = None \/ pc[c] = Done BY <1>1
    <3>6. pc[c] = Done <=> pc[c] # None BY <3>5 DEF None, Done
    <3>3. pc[c] = Done <=> outcome[c] # "none" BY <3>6 DEF Told
    <3>4. outcome[c] \in {"none", "success", "failure", "terminal"} BY DEF StatsTyped, StatsTypeOK
    <3> QED BY <3>2, <3>3, <3>4
  <2>4. \A c \in Calls : c \in Total("model", m) <=> m = Call[c].model /\ pc[c] = Done
    BY <1>4
  <2>5. ASSUME NEW c \in Calls
        PROVE  /\ c \in RecentFailures => failures[c] # NoTime
               /\ failures[c] # NoTime => c \in RecentFailures \/ TooOld(c)
    <3>1. failures[c] \in Instants \cup {NoTime, Expired} BY DEF StatsTyped, StatsTypeOK
    <3>2. NoTime \notin Instants BY TimeAssumption DEF NoTime
    <3> QED BY <3>1, <3>2 DEF RecentFailures, Recent, TooOld
  <2>6. Total("model", m) \subseteq Calls BY TheseAreCalls
  <2> DEFINE failed == {c \in Total("model", m) : outcome[c] # "success"}
             listed == {c \in docs : Call[c].model = m}
  <2>7. listed \subseteq failed BY <2>2, <2>3, <2>4, <2>5
  <2>8. ASSUME ~TooMany(RecentFailures, FailuresLength), NEW c \in failed \ listed
        PROVE  TooOld(c)
    <3>1. c \in Calls /\ failures[c] # NoTime /\ Call[c].model = m BY <2>3, <2>4, <2>6
    <3>2. c \notin RecentFailures BY <2>2, <2>8, <3>1
    <3> QED BY <2>5, <3>1, <3>2
  <2> QED BY <2>1, <2>7, <2>8
<1> QED BY <1>7, <1>8, <1>9, <1>10, <1>11 DEF ViewsAgree

-----------------------------------------------------------------------------
(* What a page has read.                                                    *)

\* A call in the page's total was counted in it, so in all its buckets before; its
\* instant is settled.
Booked ==
  report.pc # "idle" =>
    /\ \A c \in report.total : <<"total", 0, report.row>> \in counted[c]
    /\ report.pc = "hours" /\ "hour" \notin report.cut =>
         {c \in report.total : at[c] >= report.hour_from} \subseteq report.hourly

LEMMA CountedStays ==
  ASSUME StatsTyped, InOrder, [StatsNext]_statsVars, NEW c \in Calls
  PROVE  counted[c] \subseteq counted'[c] /\ (counted[c] # {} => at'[c] = at[c])
<1> USE DEF StatsTyped, StatsTypeOK
<1>1. CASE UNCHANGED <<at, counted>> BY <1>1
<1>2. CASE UNCHANGED writes \/ UNCHANGED statsVars BY <1>1, <1>2 DEF writes, statsVars
<1>3. ASSUME NEW d \in Calls, Record(d)
      PROVE  counted[c] \subseteq counted'[c] /\ (counted[c] # {} => at'[c] = at[c])
  <2>1. CASE Begin(d)
    <3>1. CASE d = c
      <4>1. PICK n \in 0..LastCount : WrittenTo(c, n) BY DEF InOrder
      <4>2. n = 0 BY <2>1, <3>1, <4>1 DEF Begin, WrittenTo
      <4>3. counted[c] = {} BY <4>1, <4>2 DEF WrittenTo, Written
      <4> QED BY <4>3
    <3>2. CASE d # c BY <2>1, <3>2 DEF Begin
    <3> QED BY <3>1, <3>2
  <2>2. CASE Count(d) BY <2>2 DEF Count
  <2>3. CASE InsertHit(d) \/ CountWindow(d) \/ RaisePeak(d)
    BY <1>1, <2>3 DEF InsertHit, CountWindow, RaisePeak
  <2> QED BY <1>3, <2>1, <2>2, <2>3 DEF Record
<1>4. ASSUME NEW d \in Calls,
             \/ (\E how \in Outcomes[d] : Enqueue(d, how)) \/ Abort(d)
             \/ Expire(d) \/ ExpireFailed(d) \/ ExpireFailure(d)
      PROVE  UNCHANGED <<at, counted>>
  BY <1>4 DEF Enqueue, Abort, Expire, ExpireFailed, ExpireFailure, writes
<1>5. CASE \E i \in Inserts : Insert(i) \/ InsertFails(i) BY <1>2, <1>5 DEF Insert, InsertFails
<1>6. CASE (\E row \in Followed : ReadTotals(row)) \/ ReadHours \/ ReadDays
  BY <1>2, <1>6, ReadsLeave
<1>7. CASE Close \/ Closed \/ Start \/ Tick BY <1>2, <1>7 DEF Close, Closed, Start, Tick
<1>8. CASE Crash BY <1>1, <1>8 DEF Crash
<1> QED BY <1>1, <1>2, <1>3, <1>4, <1>5, <1>6, <1>7, <1>8, StatsSteps

\* A call that a row's total counts is counted by documents of its hour and of its day
\* that a series takes for the row.
LEMMA SeriesShow ==
  ASSUME StatsTyped, InOrder, NEW c \in Calls, NEW row, <<"total", 0, row>> \in counted[c]
  PROVE  /\ \E r : /\ <<"hour", at[c], r>> \in counted[c]
                   /\ \A docs : <<"hour", at[c], r>> \in docs => c \in Series(docs, row)
         /\ \E r : /\ <<"day", DayOf(at[c]), r>> \in counted[c]
                   /\ \A docs : <<"day", DayOf(at[c]), r>> \in docs => c \in Series(docs, row)
<1>1. PICK i \in 1..LastCount : <<"total", 0, row>> = Plan(c)[i] /\ Reached(c, i) BY DocumentOf
<1>2. i \in 7..10 /\ row = Plan(c)[i][3]
  <2>1. Plan(c)[i][1] = "total" BY <1>1
  <2>2. i \notin 1..3 /\ i \notin 4..6 BY <2>1, PlanTags
  <2> QED BY <1>1, <2>2 DEF LastCount
<1>3. \A j \in 1..6 : Reached(c, j)
  <2>1. ASSUME NEW j \in 1..6 PROVE j \in 1..i BY <1>2
  <2> QED BY <1>1, <2>1, Before
<1>4. Call[c].model \in Models BY CallAssumption
<1>5. at[c] \in Buckets /\ DayOf(at[c]) \in Buckets BY Times DEF StatsTyped, StatsTypeOK
<1> DEFINE r0 == IF i = 10 THEN <<"notes", Call[c].note>> ELSE <<"model", Call[c].model>>
<1>6. ASSUME NEW grain, NEW b, NEW docs, <<grain, b, r0>> \in docs, <<grain, b, r0>> \in counted[c]
      PROVE  c \in Series(docs, row)
  <2> DEFINE d == <<grain, b, r0>>
  <2>1. d \in Grouped(docs, row)
    <3>1. d \in docs /\ d[3] = r0 BY <1>6
    <3>2. CASE i = 7
      <4>1. row = <<"model", Call[c].model>> /\ r0 = row BY <1>2, <3>2, PlanIs
      <4> QED BY <3>1, <4>1 DEF Grouped
    <3>3. CASE i = 8
      <4>1. row = <<"provider", ProviderOf[Call[c].model]>> BY <1>2, <3>3, PlanIs
      <4>2. r0 = <<"model", Call[c].model>> BY <3>3
      <4> QED BY <3>1, <4>1, <4>2 DEF Grouped
    <3>4. CASE i = 9
      <4>1. row = <<"capability", CapabilityOf[Call[c].model]>> BY <1>2, <3>4, PlanIs
      <4>2. r0 = <<"model", Call[c].model>> BY <3>4
      <4> QED BY <3>1, <4>1, <4>2 DEF Grouped
    <3>5. CASE i = 10
      <4>1. row = <<"notes", Call[c].note>> /\ r0 = row BY <1>2, <3>5, PlanIs
      <4> QED BY <3>1, <4>1 DEF Grouped
    <3> QED BY <1>2, <3>2, <3>3, <3>4, <3>5
  <2>2. c \in Doc(d) BY <1>6 DEF Doc
  <2> QED BY <2>1, <2>2 DEF Series
<1>7. <<"hour", at[c], r0>> \in counted[c]
  <2>1. Reached(c, 1) /\ Reached(c, 2) BY <1>3
  <2> QED BY <2>1, PlanIs DEF Reached
<1>8. <<"day", DayOf(at[c]), r0>> \in counted[c]
  <2>1. Reached(c, 4) /\ Reached(c, 5) BY <1>3
  <2> QED BY <2>1, PlanIs DEF Reached
<1> HIDE DEF r0
<1> QED BY <1>6, <1>7, <1>8

LEMMA BookedAddsUp == StatsTyped /\ InOrder /\ Booked => PagesAddUp
<1> SUFFICES ASSUME StatsTyped, InOrder, Booked, report.pc = "hours",
                    NEW docs \in Returned(FoundDays, DaysLength)
             PROVE  /\ "hour" \notin Page(docs).cut =>
                         {c \in Page(docs).total : at[c] >= report.hour_from} \subseteq Page(docs).hourly
                    /\ "day" \notin Page(docs).cut =>
                         {c \in Page(docs).total : DayOf(at[c]) >= report.day_from}
                           \subseteq Page(docs).daily
  BY DEF PagesAddUp
<1>1. /\ Page(docs).total = report.total /\ Page(docs).hourly = report.hourly
      /\ Page(docs).daily = Series(docs, report.row)
      /\ Page(docs).cut = Cut("day", FoundDays, DaysLength)
  BY DEF Page
<1>2. report \in Reports BY DEF StatsTyped, ReportTyped, NoReport
<1>3. "hour" \notin Page(docs).cut => "hour" \notin report.cut BY <1>1 DEF Cut
<1>4. ASSUME "day" \notin Page(docs).cut, NEW c \in report.total, DayOf(at[c]) >= report.day_from
      PROVE  c \in Series(docs, report.row)
  <2>1. ~TooMany(FoundDays, DaysLength) BY <1>1, <1>4 DEF Cut
  <2>2. docs = FoundDays BY <2>1 DEF Returned
  <2>3. c \in Calls /\ <<"total", 0, report.row>> \in counted[c] BY <1>2, <1>4 DEF Booked, Reports
  <2>4. PICK r : /\ <<"day", DayOf(at[c]), r>> \in counted[c]
                 /\ <<"day", DayOf(at[c]), r>> \in docs => c \in Series(docs, report.row)
    BY <2>3, SeriesShow
  <2>5. <<"day", DayOf(at[c]), r>> \in FoundDays BY <1>4, <2>3, <2>4 DEF FoundDays, Stored
  <2> QED BY <2>2, <2>4, <2>5
<1>5. "hour" \notin report.cut =>
         {c \in report.total : at[c] >= report.hour_from} \subseteq report.hourly
  BY DEF Booked
<1> QED BY <1>1, <1>3, <1>4, <1>5

LEMMA StepBooked == StatsTyped /\ InOrder /\ Booked /\ [StatsNext]_statsVars => Booked'
<1> SUFFICES ASSUME StatsTyped, InOrder, Booked, [StatsNext]_statsVars PROVE Booked' OBVIOUS
<1>1. ASSUME report' = report PROVE Booked'
  <2> SUFFICES ASSUME report.pc # "idle" PROVE Booked' BY <1>1 DEF Booked
  <2>1. report.total \subseteq Calls BY DEF StatsTyped, ReportTyped, Reports, NoReport
  <2>2. ASSUME NEW c \in report.total
        PROVE  <<"total", 0, report.row>> \in counted'[c] /\ at'[c] = at[c]
    <3>1. c \in Calls /\ <<"total", 0, report.row>> \in counted[c] BY <2>1, <2>2 DEF Booked
    <3> QED BY <3>1, CountedStays
  <2> QED BY <1>1, <2>2 DEF Booked, DayOf
<1>2. CASE \E row \in Followed : ReadTotals(row)
  <2>1. PICK row \in Followed : ReadTotals(row) BY <1>2
  <2>2. PICK docs : report' = TotalsRead(row, docs) BY <2>1, Zenon DEF ReadTotals
  <2>3. /\ report'.pc = "totals" /\ report'.row = row
        /\ report'.total = {c \in Calls : <<"total", 0, row>> \in docs \cap counted[c]}
    BY <2>2 DEF TotalsRead
  <2>4. counted' = counted BY <1>2, ReadsLeave DEF writes
  <2> QED BY <2>3, <2>4 DEF Booked
<1>3. CASE ReadHours
  <2>0. report.pc = "totals" BY <1>3, Zenon DEF ReadHours
  <2>1. report \in Reports /\ UNCHANGED <<at, counted>>
    BY <1>3, <2>0, ReadsLeave DEF StatsTyped, ReportTyped, NoReport, writes
  <2>2. \A c \in report.total : c \in Calls /\ <<"total", 0, report.row>> \in counted[c]
    BY <2>0, <2>1 DEF Booked, Reports
  <2>3. PICK docs \in Returned(FoundHours, HoursLength) : report' = HoursRead(docs)
    BY <1>3, Zenon DEF ReadHours
  <2>4. /\ report'.pc = "hours" /\ report'.row = report.row /\ report'.total = report.total
        /\ report'.hour_from = report.hour_from /\ report'.hourly = Series(docs, report.row)
        /\ report'.cut = Cut("hour", FoundHours, HoursLength)
    BY <2>1, <2>3 DEF HoursRead, Reports
  <2>5. ASSUME "hour" \notin report'.cut, NEW c \in report.total, at[c] >= report.hour_from
        PROVE  c \in Series(docs, report.row)
    <3>1. ~TooMany(FoundHours, HoursLength) BY <2>4, <2>5 DEF Cut
    <3>2. docs = FoundHours BY <2>3, <3>1 DEF Returned
    <3>3. PICK r : /\ <<"hour", at[c], r>> \in counted[c]
                   /\ <<"hour", at[c], r>> \in docs => c \in Series(docs, report.row)
      BY <2>2, <2>5, SeriesShow
    <3>4. <<"hour", at[c], r>> \in FoundHours BY <2>2, <2>5, <3>3 DEF FoundHours, Stored
    <3> QED BY <3>2, <3>3, <3>4
  <2> QED BY <2>1, <2>2, <2>4, <2>5 DEF Booked
<1>4. CASE Close \/ Crash \/ ReadDays
  <2>1. report'.pc = "idle" BY <1>4 DEF Close, Crash, ReadDays, NoReport
  <2> QED BY <2>1 DEF Booked
<1>5. ASSUME NEW d \in Calls, Record(d) PROVE report' = report
  BY <1>5 DEF Record, Begin, Count, InsertHit, CountWindow, RaisePeak
<1>6. ASSUME NEW d \in Calls,
             \/ (\E how \in Outcomes[d] : Enqueue(d, how)) \/ Abort(d)
             \/ Expire(d) \/ ExpireFailed(d) \/ ExpireFailure(d)
      PROVE  report' = report
  BY <1>6 DEF Enqueue, Abort, Expire, ExpireFailed, ExpireFailure
<1>7. CASE UNCHANGED statsVars \/ (\E i \in Inserts : Insert(i) \/ InsertFails(i))
           \/ Closed \/ Start \/ Tick
  BY <1>1, <1>7 DEF statsVars, Insert, InsertFails, Closed, Start, Tick
<1> QED BY <1>1, <1>2, <1>3, <1>4, <1>5, <1>6, <1>7, StatsSteps

LEMMA InitBooked == StatsInit => Booked
BY DEF StatsInit, Booked

-----------------------------------------------------------------------------
(* The peak.                                                                *)

\* A hit is dated when its call began, and no call is ahead of the clock.
Dates ==
  \A c \in Calls :
    /\ at[c] <= now /\ req24h[c] \in {NoTime, at[c]}
    /\ pc[c] \in {None, Scheduled} => req24h[c] = NoTime

\* The present window exceeds the peak only while a task of the capability has its
\* counting or its update to do, or was cut short.
Counting(c, k) ==
  /\ CapabilityOf[Call[c].model] = k
  /\ \/ pc[c] \in {CountStep, Aborted}
     \/ pc[c] = MaxStep /\ Cardinality(InWindow(req24h, k, now)) <= window[c]

Covered ==
  \A k \in Capabilities :
    Cardinality(InWindow(req24h, k, now)) <= peak[k] \/ \E c \in Calls : Counting(c, k)

LEMMA CoveredIsKept == StatsTyped /\ Covered => PeakIsKept
<1> SUFFICES ASSUME StatsTyped, Covered, NEW k \in Capabilities,
                    \A c \in Calls : CapabilityOf[Call[c].model] = k => ~Pending(c) /\ pc[c] # Aborted
             PROVE  Peak24h(k).peak = peak[k]
  BY DEF PeakIsKept
<1>1. \A c \in Calls : ~Counting(c, k)
  BY DEF Counting, Pending, Running, CountStep, MaxStep, Aborted
<1>2. Cardinality(InWindow(req24h, k, now)) <= peak[k] BY <1>1 DEF Covered
<1>3. Cardinality(InWindow(req24h, k, now)) \in Nat /\ peak[k] \in Nat
  BY CountedTyped DEF StatsTyped, StatsTypeOK
<1> QED BY <1>2, <1>3 DEF Peak24h

LEMMA StepDates == StatsTyped /\ Dates /\ [StatsNext]_statsVars => Dates'
<1> SUFFICES ASSUME StatsTyped, Dates, [StatsNext]_statsVars, NEW c \in Calls
             PROVE  /\ at'[c] <= now' /\ req24h'[c] \in {NoTime, at'[c]}
                    /\ pc'[c] \in {None, Scheduled} => req24h'[c] = NoTime
  BY DEF Dates
<1> USE DEF StatsTyped, StatsTypeOK
<1>0. /\ at[c] \in Int /\ now \in Int /\ at[c] <= now /\ req24h[c] \in {NoTime, at[c]}
      /\ pc[c] \in {None, Scheduled} => req24h[c] = NoTime
  BY Times DEF Dates
<1>1. ASSUME at'[c] = at[c], now <= now', now' \in Int, req24h'[c] \in {req24h[c], NoTime},
             pc'[c] \in {None, Scheduled} => pc[c] \in {None, Scheduled}
      PROVE  /\ at'[c] <= now' /\ req24h'[c] \in {NoTime, at'[c]}
             /\ pc'[c] \in {None, Scheduled} => req24h'[c] = NoTime
  BY <1>0, <1>1
<1>2. now <= now' /\ now' \in Int
  <2>1. CASE UNCHANGED now BY <1>0, <2>1
  <2>2. CASE Tick BY <1>0, <2>2, Times DEF Tick
  <2> QED
    BY <2>1, <2>2, ReadsLeave DEF StatsNext, statsVars, Enqueue, Record, Begin, Count, InsertHit,
       CountWindow, RaisePeak, Abort, Expire, ExpireFailed, ExpireFailure, Insert, InsertFails,
       Close, Closed, Start, Crash
<1>3. CASE UNCHANGED writes \/ UNCHANGED statsVars BY <1>1, <1>2, <1>3 DEF writes, statsVars
<1>4. ASSUME NEW d \in Calls, Record(d)
      PROVE  /\ at'[c] <= now' /\ req24h'[c] \in {NoTime, at'[c]}
             /\ pc'[c] \in {None, Scheduled} => req24h'[c] = NoTime
  <2>1. CASE Begin(d)
    <3>1. CASE d = c
      <4>1. at'[c] = now /\ now' = now /\ req24h'[c] = NoTime
        BY <1>0, <2>1, <3>1 DEF Begin
      <4> QED BY <4>1, <1>0
    <3>2. CASE d # c BY <1>1, <1>2, <2>1, <3>2 DEF Begin
    <3> QED BY <3>1, <3>2
  <2>2. CASE InsertHit(d)
    <3>1. CASE d = c
      <4>1. req24h'[c] = at[c] /\ at' = at /\ pc'[c] \notin {None, Scheduled}
        BY <2>2, <3>1 DEF InsertHit, CountStep, None, Scheduled
      <4> QED BY <4>1, <1>0, <1>2
    <3>2. CASE d # c BY <1>1, <1>2, <2>2, <3>2 DEF InsertHit
    <3> QED BY <3>1, <3>2
  <2>3. CASE Count(d) \/ CountWindow(d) \/ RaisePeak(d)
    <3>1. at' = at /\ req24h' = req24h BY <2>3 DEF Count, CountWindow, RaisePeak
    <3>2. pc'[c] = pc[c] \/ pc'[c] \notin {None, Scheduled}
      BY <2>3 DEF Count, CountWindow, RaisePeak, None, Scheduled, LastCount, MaxStep, Done
    <3> QED BY <1>1, <1>2, <3>1, <3>2
  <2> QED BY <1>4, <2>1, <2>2, <2>3 DEF Record
<1>5. ASSUME NEW d \in Calls,
             \/ (\E how \in Outcomes[d] : Enqueue(d, how)) \/ Abort(d)
             \/ Expire(d) \/ ExpireFailed(d) \/ ExpireFailure(d)
      PROVE  /\ at'[c] <= now' /\ req24h'[c] \in {NoTime, at'[c]}
             /\ pc'[c] \in {None, Scheduled} => req24h'[c] = NoTime
  <2>1. CASE \E how \in Outcomes[d] : Enqueue(d, how)
    <3>1. at' = at /\ req24h' = req24h BY <2>1 DEF Enqueue
    <3>2. pc'[c] = pc[c] \/ (pc[c] = None /\ pc'[c] = Scheduled) BY <2>1 DEF Enqueue
    <3> QED BY <1>1, <1>2, <3>1, <3>2
  <2>2. CASE Abort(d)
    <3>1. at' = at /\ req24h' = req24h BY <2>2 DEF Abort
    <3>2. pc'[c] = pc[c] \/ pc'[c] \notin {None, Scheduled}
      BY <2>2 DEF Abort, Aborted, None, Scheduled
    <3> QED BY <1>1, <1>2, <3>1, <3>2
  <2>3. CASE Expire(d) BY <1>1, <1>2, <2>3 DEF Expire
  <2>4. CASE ExpireFailed(d) \/ ExpireFailure(d)
    BY <1>3, <2>4 DEF ExpireFailed, ExpireFailure
  <2> QED BY <1>5, <2>1, <2>2, <2>3, <2>4
<1>6. CASE \E i \in Inserts : Insert(i) \/ InsertFails(i) BY <1>3, <1>6 DEF Insert, InsertFails
<1>7. CASE (\E row \in Followed : ReadTotals(row)) \/ ReadHours \/ ReadDays
  BY <1>3, <1>7, ReadsLeave
<1>8. CASE Close \/ Closed \/ Start \/ Tick BY <1>3, <1>8 DEF Close, Closed, Start, Tick
<1>9. CASE Crash
  <2>1. at' = at /\ req24h' = req24h BY <1>9 DEF Crash
  <2>2. pc'[c] = pc[c] \/ pc'[c] \notin {None, Scheduled}
    BY <1>9 DEF Crash, Aborted, None, Scheduled
  <2> QED BY <1>1, <1>2, <2>1, <2>2
<1> QED BY <1>3, <1>4, <1>5, <1>6, <1>7, <1>8, <1>9, StatsSteps

\* A window that starts no earlier, over no more hits, holds no more.
LEMMA WindowShrinks ==
  ASSUME NEW times \in [Calls -> Instants \cup {NoTime}], NEW k, NEW t,
         NEW S \in SUBSET InWindow(times, k, t)
  PROVE  IsFiniteSet(S) /\ Cardinality(S) \in Nat
         /\ Cardinality(S) <= Cardinality(InWindow(times, k, t))
BY CountedTyped, FS_Subset, FS_CardinalityType

\* A step leaves a capability covered if it adds no hit to it, lowers no peak and moves
\* none of its tasks that have their counting or update to do, unless it cuts them short.
LEMMA CoveredStays ==
  ASSUME StatsTyped, StatsTyped', Covered, NEW k \in Capabilities,
         InWindow(req24h, k, now)' \subseteq InWindow(req24h, k, now),
         peak[k] <= peak'[k],
         \A c \in Calls : CapabilityOf[Call[c].model] = k =>
           \/ pc'[c] = pc[c] /\ window'[c] = window[c]
           \/ pc[c] \notin {CountStep, MaxStep, Aborted}
           \/ pc'[c] = Aborted
  PROVE  \/ Cardinality(InWindow(req24h, k, now)') <= peak'[k]
         \/ \E c \in Calls : Counting(c, k)'
<1> DEFINE old == Cardinality(InWindow(req24h, k, now))
           new == Cardinality(InWindow(req24h, k, now)')
<1>1. old \in Nat /\ new \in Nat /\ new <= old
  BY WindowShrinks, CountedTyped DEF StatsTyped, StatsTypeOK
<1>2. peak[k] \in Nat /\ peak'[k] \in Nat BY DEF StatsTyped, StatsTypeOK
<1>3. CASE old <= peak[k]
  <2> HIDE DEF old
  <2>1. new <= peak'[k]
    <3> HIDE DEF new
    <3> QED BY <1>1, <1>2, <1>3
  <2> QED BY <2>1
<1>4. CASE \E c \in Calls : Counting(c, k)
  <2>1. PICK c \in Calls : Counting(c, k) BY <1>4
  <2>2. CapabilityOf[Call[c].model] = k /\ pc[c] \in {CountStep, MaxStep, Aborted}
    BY <2>1 DEF Counting
  <2>3. CASE pc'[c] = Aborted BY <2>2, <2>3 DEF Counting
  <2>4. CASE pc'[c] = pc[c] /\ window'[c] = window[c]
    <3>1. CASE pc[c] \in {CountStep, Aborted} BY <2>2, <2>4, <3>1 DEF Counting
    <3>2. CASE pc[c] \notin {CountStep, Aborted}
      <4>1. pc[c] = MaxStep /\ old <= window[c] BY <2>1, <3>2 DEF Counting
      <4>2. window[c] \in Nat BY DEF StatsTyped, StatsTypeOK
      <4>3. new <= window'[c]
        <5> HIDE DEF old, new
        <5> QED BY <1>1, <2>4, <4>1, <4>2
      <4> QED BY <2>2, <2>4, <4>1, <4>3 DEF Counting
    <3> QED BY <3>1, <3>2
  <2> QED BY <2>2, <2>3, <2>4
<1> QED BY <1>3, <1>4 DEF Covered

LEMMA StepCovered == StatsTyped /\ Dates /\ Covered /\ [StatsNext]_statsVars => Covered'
<1> SUFFICES ASSUME StatsTyped, Dates, Covered, [StatsNext]_statsVars, NEW k \in Capabilities
             PROVE  \/ Cardinality(InWindow(req24h, k, now)') <= peak'[k]
                    \/ \E c \in Calls : Counting(c, k)'
  BY DEF Covered
<1> DEFINE Goal == \/ Cardinality(InWindow(req24h, k, now)') <= peak'[k]
                   \/ \E c \in Calls : Counting(c, k)'
<1>0. StatsTyped' BY StatsStepTyped
<1>1. peak[k] \in Nat BY DEF StatsTyped, StatsTypeOK
<1>2. ASSUME peak' = peak, InWindow(req24h, k, now)' \subseteq InWindow(req24h, k, now),
             \A c \in Calls : CapabilityOf[Call[c].model] = k =>
               \/ pc'[c] = pc[c] /\ window'[c] = window[c]
               \/ pc[c] \notin {CountStep, MaxStep, Aborted}
               \/ pc'[c] = Aborted
      PROVE  Goal
  BY <1>0, <1>1, <1>2, CoveredStays
<1>3. ASSUME now' = now, req24h' = req24h
      PROVE  InWindow(req24h, k, now)' \subseteq InWindow(req24h, k, now)
  BY <1>3 DEF InWindow
<1>4. CASE UNCHANGED <<now, writes>> BY <1>2, <1>3, <1>4 DEF writes
<1>5. ASSUME NEW d \in Calls, Record(d) PROVE Goal
  <2>1. CASE Begin(d) \/ Count(d)
    <3>1. peak' = peak /\ now' = now /\ req24h' = req24h /\ window' = window
      BY <2>1 DEF Begin, Count
    <3>2. \A c \in Calls : pc'[c] = pc[c] \/ pc[c] \notin {CountStep, MaxStep, Aborted}
      BY <2>1 DEF Begin, Count, StatsTyped, StatsTypeOK, Scheduled, LastCount, CountStep,
                  MaxStep, Aborted
    <3> QED BY <1>2, <1>3, <3>1, <3>2
  <2>2. CASE InsertHit(d)
    <3>1. CASE CapabilityOf[Call[d].model] = k
      <4>1. pc'[d] = CountStep BY <2>2 DEF InsertHit, StatsTyped, StatsTypeOK
      <4> QED BY <3>1, <4>1 DEF Counting
    <3>2. CASE CapabilityOf[Call[d].model] # k
      <4>1. InWindow(req24h, k, now)' \subseteq InWindow(req24h, k, now)
        BY <2>2, <3>2 DEF InWindow, InsertHit
      <4>2. peak' = peak /\ window' = window BY <2>2 DEF InsertHit
      <4>3. \A c \in Calls : CapabilityOf[Call[c].model] = k => pc'[c] = pc[c]
        BY <2>2, <3>2 DEF InsertHit
      <4> QED BY <1>2, <4>1, <4>2, <4>3
    <3> QED BY <3>1, <3>2
  <2>3. CASE CountWindow(d)
    <3>1. CASE CapabilityOf[Call[d].model] = k
      <4>1. pc'[d] = MaxStep /\ window'[d] = Cardinality(InWindow(req24h, k, at[d]))
            /\ now' = now /\ req24h' = req24h
        BY <2>3, <3>1 DEF CountWindow, StatsTyped, StatsTypeOK
      <4>2. InWindow(req24h, k, now) \subseteq InWindow(req24h, k, at[d])
        <5>1. at[d] \in Int /\ now \in Int /\ at[d] <= now /\ Day \in Int
          BY Times, TimeAssumption DEF Dates, StatsTyped, StatsTypeOK
        <5>2. \A c \in Calls : req24h[c] \in Int BY Times DEF StatsTyped, StatsTypeOK
        <5> QED BY <5>1, <5>2 DEF InWindow
      <4>3. Cardinality(InWindow(req24h, k, now)) <= Cardinality(InWindow(req24h, k, at[d]))
        BY <4>2, WindowShrinks DEF StatsTyped, StatsTypeOK
      <4>4. InWindow(req24h, k, now)' = InWindow(req24h, k, now) BY <4>1 DEF InWindow
      <4> QED BY <3>1, <4>1, <4>3, <4>4 DEF Counting
    <3>2. CASE CapabilityOf[Call[d].model] # k
      BY <1>2, <1>3, <2>3, <3>2 DEF CountWindow
    <3> QED BY <3>1, <3>2
  <2>4. CASE RaisePeak(d)
    <3>1. now' = now /\ req24h' = req24h /\ window' = window
      BY <2>4 DEF RaisePeak
    <3>2. InWindow(req24h, k, now)' = InWindow(req24h, k, now) BY <3>1 DEF InWindow
    <3>3. CASE CapabilityOf[Call[d].model] # k
      <4>1. peak'[k] = peak[k] BY <2>4, <3>3 DEF RaisePeak, StatsTyped, StatsTypeOK
      <4>2. \A c \in Calls : CapabilityOf[Call[c].model] = k => pc'[c] = pc[c]
        BY <2>4, <3>3 DEF RaisePeak
      <4> QED BY <1>0, <1>1, <3>1, <3>2, <4>1, <4>2, CoveredStays
    <3>4. CASE CapabilityOf[Call[d].model] = k
      <4>1. /\ peak'[k] = IF window[d] > peak[k] THEN window[d] ELSE peak[k]
            /\ window[d] \in Nat /\ pc[d] = MaxStep
            /\ \A c \in Calls : c # d => pc'[c] = pc[c]
        BY <2>4, <3>4 DEF RaisePeak, StatsTyped, StatsTypeOK
      <4>2. peak[k] <= peak'[k] /\ window[d] <= peak'[k] /\ peak'[k] \in Nat BY <1>1, <4>1
      <4> DEFINE old == Cardinality(InWindow(req24h, k, now))
      <4>3. old \in Nat BY CountedTyped DEF StatsTyped, StatsTypeOK
      <4>4. CASE old <= peak[k] \/ Counting(d, k)
        <5>1. old <= peak[k] \/ old <= window[d]
          BY <4>1, <4>4 DEF Counting, MaxStep, CountStep, Aborted
        <5>2. old <= peak'[k]
          <6> HIDE DEF old
          <6> QED BY <1>1, <4>1, <4>2, <4>3, <5>1
        <5> QED BY <3>2, <5>2
      <4>5. CASE ~(old <= peak[k] \/ Counting(d, k))
        <5>1. PICK c \in Calls : Counting(c, k) BY <4>5 DEF Covered
        <5>2. Counting(c, k)' BY <3>1, <3>2, <4>1, <4>5, <5>1 DEF Counting
        <5> QED BY <5>2
      <4> QED BY <4>4, <4>5
    <3> QED BY <3>3, <3>4
  <2> QED BY <1>5, <2>1, <2>2, <2>3, <2>4 DEF Record
<1>6. ASSUME NEW d \in Calls,
             \/ (\E how \in Outcomes[d] : Enqueue(d, how)) \/ Abort(d)
             \/ Expire(d) \/ ExpireFailed(d) \/ ExpireFailure(d)
      PROVE  Goal
  <2>1. CASE \E how \in Outcomes[d] : Enqueue(d, how)
    <3>1. peak' = peak /\ now' = now /\ req24h' = req24h /\ window' = window
      BY <2>1 DEF Enqueue
    <3>2. \A c \in Calls : pc'[c] = pc[c] \/ pc[c] \notin {CountStep, MaxStep, Aborted}
      BY <2>1 DEF Enqueue, None, CountStep, MaxStep, Aborted
    <3> QED BY <1>2, <1>3, <3>1, <3>2
  <2>2. CASE Abort(d)
    <3>1. peak' = peak /\ now' = now /\ req24h' = req24h /\ window' = window
      BY <2>2 DEF Abort
    <3>2. \A c \in Calls : pc'[c] = pc[c] \/ pc'[c] = Aborted
      BY <2>2 DEF Abort, StatsTyped, StatsTypeOK
    <3> QED BY <1>2, <1>3, <3>1, <3>2
  <2>3. CASE Expire(d)
    <3>1. InWindow(req24h, k, now)' \subseteq InWindow(req24h, k, now)
      BY <2>3 DEF InWindow, Expire, StatsTyped, StatsTypeOK
    <3> QED BY <1>2, <2>3, <3>1 DEF Expire
  <2>4. CASE ExpireFailed(d) \/ ExpireFailure(d)
    BY <1>4, <2>4 DEF ExpireFailed, ExpireFailure
  <2> QED BY <1>6, <2>1, <2>2, <2>3, <2>4
<1>7. CASE UNCHANGED statsVars \/ (\E i \in Inserts : Insert(i) \/ InsertFails(i))
           \/ (\E row \in Followed : ReadTotals(row)) \/ ReadHours \/ ReadDays
           \/ Close \/ Closed \/ Start
  BY <1>4, <1>7, ReadsLeave DEF statsVars, writes, Insert, InsertFails, Close, Closed, Start
<1>8. CASE Crash
  <2>1. peak' = peak /\ now' = now /\ req24h' = req24h /\ window' = window
    BY <1>8 DEF Crash
  <2>2. \A c \in Calls : pc'[c] = pc[c] \/ pc'[c] = Aborted BY <1>8 DEF Crash
  <2> QED BY <1>2, <1>3, <2>1, <2>2
<1>9. CASE Tick
  <2>1. now' > now /\ now \in Int /\ now' \in Int /\ UNCHANGED writes
    BY <1>9, Times DEF Tick, StatsTyped, StatsTypeOK
  <2>2. InWindow(req24h, k, now)' \subseteq InWindow(req24h, k, now)
    <3>1. \A c \in Calls : req24h[c] \in Int BY Times DEF StatsTyped, StatsTypeOK
    <3>2. Day \in Int BY TimeAssumption
    <3> QED BY <2>1, <3>1, <3>2 DEF InWindow, writes
  <2> QED BY <1>2, <2>1, <2>2 DEF writes
<1> QED BY <1>5, <1>6, <1>7, <1>8, <1>9, StatsSteps

LEMMA InitCovered == StatsInit => Dates /\ Covered
<1> SUFFICES ASSUME StatsInit PROVE Dates /\ Covered OBVIOUS
<1>1. Dates
  <2>1. now \in Int BY Times DEF StatsInit
  <2> QED BY <2>1 DEF StatsInit, Dates
<1>2. ASSUME NEW k \in Capabilities PROVE Cardinality(InWindow(req24h, k, now)) <= peak[k]
  <2>1. InWindow(req24h, k, now) = {} BY DEF StatsInit, InWindow
  <2>2. peak[k] = 0 BY DEF StatsInit
  <2> QED BY <2>1, <2>2, FS_EmptySet
<1> QED BY <1>1, <1>2 DEF Covered

-----------------------------------------------------------------------------
(* The theorems.                                                            *)

\* The inductive invariant.
Accounted == StatsTyped /\ InOrder /\ Told /\ Booked /\ Dates /\ Covered

LEMMA StatsInvariant == StatsSpec => []Accounted
<1>1. StatsInit => Accounted
  BY StatsInitTyped, InitInOrder, InitTold, InitBooked, InitCovered DEF Accounted
<1>2. Accounted /\ [StatsNext]_statsVars => Accounted'
  BY StatsStepTyped, StepInOrder, StepTold, StepBooked, StepDates, StepCovered DEF Accounted
<1> QED BY <1>1, <1>2, PTL DEF StatsSpec

\* When no task is left and none was cut short, every view of the calls adds up.
THEOREM StatsViewsAgree == StatsSpec => []ViewsAgree
<1>1. Accounted => ViewsAgree BY OrderIsAgreed DEF Accounted
<1> QED BY <1>1, StatsInvariant, PTL

\* Failures and crashes leave a call counted in part, always the same way round.
THEOREM StatsNeverAhead == StatsSpec => []NeverAhead
<1>1. Accounted => NeverAhead BY OrderIsNeverAhead DEF Accounted
<1> QED BY <1>1, StatsInvariant, PTL

\* A page never shows more in a total than in its own series.
THEOREM StatsPagesAddUp == StatsSpec => []PagesAddUp
<1>1. Accounted => PagesAddUp BY BookedAddsUp DEF Accounted
<1> QED BY <1>1, StatsInvariant, PTL

\* Once a capability's calls are through, no present window exceeds the stored peak.
THEOREM StatsPeakIsKept == StatsSpec => []PeakIsKept
<1>1. Accounted => PeakIsKept BY CoveredIsKept DEF Accounted
<1> QED BY <1>1, StatsInvariant, PTL
===============================================================================
