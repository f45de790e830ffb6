------------------------ MODULE StreamDispatchProofs ------------------------
(***************************************************************************)
(* TypeOK, OneVoice, NoneLeftOut and progress of StreamDispatch for any    *)
(* requests and models.                                                    *)
(***************************************************************************)
EXTENDS StreamDispatchProps, FiniteSetTheorems, FunctionTheorems, TLAPS

\* Only a request whose stream has begun has a text to hold on to.
Voiced ==
  \A r \in Requests : heard[r] # NoModel => pc[r] \in {"streaming", "done", "broken", "dropped"}

Searching(r) == pc[r] \in {"trying", "calling"}

\* While a request searches, what it is entitled to is either behind it or ahead.
Covered ==
  \A r \in Requests : Searching(r) => steady[r] \subseteq tried[r] \cup Range(left[r])

IInv == TypeOK /\ Voiced /\ Covered /\ NoneLeftOut

USE StreamAssumption
-----------------------------------------------------------------------------
(* The list of candidates. *)

\* An ordering of a finite set is a sequence of exactly its members.
LEMMA OrderingHasAll ==
  ASSUME NEW S, IsFiniteSet(S), NEW s \in SetToSeqs(S)
  PROVE  s \in Seq(S) /\ Range(s) = S
<1> DEFINE n == Cardinality(S)
<1>1. n \in Nat BY FS_CardinalityType
<1>2. s \in [1..n -> S] /\ (\A i, j \in 1..n : i # j => s[i] # s[j]) BY DEF SetToSeqs
<1>3. s \in Seq(S) BY <1>1, <1>2
<1>4. IsFiniteSet(1..n) /\ Cardinality(1..n) = n BY <1>1, FS_Interval
<1>5. s \in Injection(1..n, S) BY <1>2 DEF Injection, IsInjective
<1>6. s \in Surjection(1..n, S) BY <1>4, <1>5, FS_Injection
<1>7. \A x \in S : \E i \in 1..n : s[i] = x BY <1>6 DEF Surjection
<1>8. Range(s) = S BY <1>2, <1>7 DEF Range
<1> QED BY <1>3, <1>8

\* What stands in a concatenation stands in one of its parts.
LEMMA RangeOfConcat ==
  ASSUME NEW S, NEW s \in Seq(S), NEW t \in Seq(S)
  PROVE  s \o t \in Seq(S) /\ Range(s \o t) = Range(s) \cup Range(t)
<1>1. /\ s \o t \in Seq(S) /\ DOMAIN (s \o t) = 1..Len(s \o t)
      /\ DOMAIN s = 1..Len(s) /\ DOMAIN t = 1..Len(t)
  OBVIOUS
<1>2. Range(s) \subseteq Range(s \o t)
  <2> SUFFICES ASSUME NEW i \in 1..Len(s) PROVE \E k \in 1..Len(s \o t) : (s \o t)[k] = s[i]
    BY <1>1 DEF Range
  <2> QED BY i \in 1..Len(s \o t), (s \o t)[i] = s[i]
<1>3. Range(t) \subseteq Range(s \o t)
  <2> SUFFICES ASSUME NEW i \in 1..Len(t) PROVE \E k \in 1..Len(s \o t) : (s \o t)[k] = t[i]
    BY <1>1 DEF Range
  <2> QED BY Len(s) + i \in 1..Len(s \o t), (s \o t)[Len(s) + i] = t[i]
<1>4. Range(s \o t) \subseteq Range(s) \cup Range(t)
  <2> SUFFICES ASSUME NEW k \in 1..Len(s \o t)
               PROVE  (s \o t)[k] \in Range(s) \cup Range(t)
    BY <1>1 DEF Range
  <2>1. CASE k <= Len(s) BY <2>1 DEF Range
  <2>2. CASE k > Len(s) BY <2>2, k - Len(s) \in 1..Len(t), (s \o t)[k] = t[k - Len(s)] DEF Range
  <2> QED BY <2>1, <2>2
<1> QED BY <1>1, <1>2, <1>3, <1>4

\* The list of candidates holds every model the request is entitled to.
LEMMA CandidatesHoldEntitled ==
  ASSUME TypeOK, NEW r \in Requests, NEW list \in Candidates(r)
  PROVE  list \in Seq(Models) /\ Entitled(r) \subseteq Range(list)
<1> DEFINE named == Range(Named[r]) \cap registry
           rest == IF IncludeFree(r) THEN Eligible \ Range(Named[r]) ELSE {}
<1>1. IsFiniteSet(named) /\ IsFiniteSet(rest) /\ named \subseteq Models /\ rest \subseteq Models
  BY FS_Subset DEF TypeOK, Eligible
<1>2. PICK names \in Names(r), order \in Picks(r) : list = names \o order
  BY DEF Candidates
<1>3. names \in Seq(named) /\ Range(names) = named BY <1>1, <1>2, OrderingHasAll DEF Names
<1>4. order \in Seq(rest) /\ Range(order) = rest
  <2>1. CASE IncludeFree(r) BY <1>1, <1>2, <2>1, OrderingHasAll DEF Picks
  <2>2. CASE ~IncludeFree(r) BY <1>2, <2>2 DEF Range, Picks
  <2> QED BY <2>1, <2>2
<1>5. names \in Seq(Models) /\ order \in Seq(Models) BY <1>1, <1>3, <1>4
<1>6. list \in Seq(Models) /\ Range(list) = named \cup rest BY <1>2, <1>3, <1>4, <1>5, RangeOfConcat
<1>7. Entitled(r) \subseteq named \cup rest BY DEF Entitled, CanReserve, Eligible
<1> QED BY <1>6, <1>7

\* Taking the head off a list leaves all but the head.
LEMMA RangeOfTail ==
  ASSUME NEW S, NEW s \in Seq(S), s # <<>>
  PROVE  Head(s) \in S /\ Tail(s) \in Seq(S) /\ Range(s) \subseteq {Head(s)} \cup Range(Tail(s))
<1>1. Head(s) \in S /\ Tail(s) \in Seq(S) OBVIOUS
<1>2. ASSUME NEW i \in 1..Len(s) PROVE s[i] \in {Head(s)} \cup Range(Tail(s))
  <2>1. CASE i = 1 BY <2>1
  <2>2. CASE i # 1
    <3>1. i - 1 \in 1..Len(Tail(s)) /\ Tail(s)[i - 1] = s[i] BY <2>2
    <3>2. DOMAIN Tail(s) = 1..Len(Tail(s)) BY <1>1
    <3> QED BY <3>1, <3>2 DEF Range
  <2> QED BY <2>1, <2>2
<1> QED BY <1>1, <1>2 DEF Range
-----------------------------------------------------------------------------
(* What each group of actions does to the invariant. *)

\* Remember keeps the record within what it was, except where a request begins.
LEMMA SteadyShrinks ==
  ASSUME TypeOK, Remember, NEW r \in Requests, pc[r] # "new"
  PROVE  /\ steady'[r] \subseteq steady[r]
         /\ \A m \in steady'[r] : CanReserve(m)'
         /\ ~Searching(r) => steady'[r] = {}
BY DEF Remember, Searching, TypeOK

LEMMA SteadyTyped == ASSUME TypeOK, Remember PROVE steady' \in [Requests -> SUBSET Models]
BY DEF Remember, TypeOK, Entitled

\* A request that is beyond its search, or has not begun, has nothing to cover.
LEMMA OthersKeep ==
  ASSUME TypeOK, Covered, NoneLeftOut, Remember, NEW r \in Requests,
         r \in late => r \in late', pc'[r] = pc[r], tried'[r] = tried[r], left'[r] = left[r]
  PROVE  /\ Searching(r)' => steady'[r] \subseteq tried'[r] \cup Range(left'[r])
         /\ pc'[r] = "failed" /\ r \notin late' => steady'[r] \subseteq tried'[r]
<1>1. CASE pc[r] = "new" BY <1>1 DEF Searching
<1>2. CASE pc[r] # "new" BY <1>2, SteadyShrinks DEF Searching, Covered, NoneLeftOut
<1> QED BY <1>1, <1>2

LEMMA BeginKeeps ==
  ASSUME IInv, Remember, NEW r \in Requests, Begin(r)
  PROVE  IInv'
<1> USE DEF IInv
<1>1. PICK list \in Candidates(r) : left' = [left EXCEPT ![r] = list] BY DEF Begin
<1>2. list \in Seq(Models) /\ Entitled(r) \subseteq Range(list) BY <1>1, CandidatesHoldEntitled
<1>3. TypeOK' BY <1>1, <1>2, SteadyTyped DEF TypeOK, Begin, Steps, worldVars
<1>4. Voiced' BY DEF Voiced, Begin, TypeOK
<1>5. steady'[r] \subseteq Range(left'[r])
  <2>1. steady'[r] = Entitled(r) BY DEF Begin, Remember, TypeOK
  <2>2. left'[r] = list BY <1>1 DEF TypeOK
  <2> QED BY <1>2, <2>1, <2>2
<1>6. \A q \in Requests \ {r} : pc'[q] = pc[q] /\ tried'[q] = tried[q] /\ left'[q] = left[q]
  BY <1>1 DEF Begin, TypeOK
<1>7. late' = late /\ pc'[r] = "trying" BY DEF Begin, TypeOK
<1>8. Covered' BY <1>5, <1>6, <1>7, OthersKeep DEF Covered
<1>9. NoneLeftOut' BY <1>6, <1>7, OthersKeep DEF NoneLeftOut
<1> QED BY <1>3, <1>4, <1>8, <1>9

LEMMA SkipKeeps ==
  ASSUME IInv, Remember, NEW r \in Requests, Skip(r)
  PROVE  IInv'
<1> USE DEF IInv
<1>1. left[r] \in Seq(Models) /\ left[r] # <<>> BY DEF TypeOK, Skip
<1>2. TypeOK' BY <1>1, RangeOfTail, SteadyTyped DEF TypeOK, Skip, worldVars
<1>3. Voiced' BY DEF Voiced, Skip
<1>4. \A q \in Requests : pc'[q] = pc[q] /\ tried'[q] = tried[q] BY DEF Skip
<1>5. \A q \in Requests \ {r} : left'[q] = left[q] BY DEF Skip, TypeOK
<1>6. late' = late /\ pc[r] = "trying" /\ left'[r] = Tail(left[r]) BY DEF Skip, Has, TypeOK
<1>7. steady'[r] \subseteq tried'[r] \cup Range(left'[r])
  <2>1. Head(left[r]) \notin steady'[r]
    <3>1. PICK m \in Models : m = Head(left[r]) BY <1>1, RangeOfTail
    <3>2. ~CanReserve(m)' BY <3>1 DEF Skip, CanReserve, worldVars
    <3> QED BY <1>6, <3>1, <3>2, SteadyShrinks
  <2>2. steady'[r] \subseteq tried[r] \cup Range(left[r])
    BY <1>6, SteadyShrinks DEF Covered, Searching
  <2>3. Range(left[r]) \subseteq {Head(left[r])} \cup Range(left'[r]) BY <1>1, <1>6, RangeOfTail
  <2> QED BY <1>4, <2>1, <2>2, <2>3
<1>8. Covered' BY <1>4, <1>5, <1>6, <1>7, OthersKeep DEF Covered
<1>9. NoneLeftOut' BY <1>4, <1>5, <1>6, OthersKeep DEF NoneLeftOut
<1> QED BY <1>2, <1>3, <1>8, <1>9

LEMMA TryKeeps ==
  ASSUME IInv, Remember, NEW r \in Requests, Try(r)
  PROVE  IInv'
<1> USE DEF IInv
<1> DEFINE m == Head(left[r])
<1>1. left[r] \in Seq(Models) /\ left[r] # <<>> BY DEF TypeOK, Try
<1>2. m \in Models BY <1>1, RangeOfTail
<1>3. TypeOK'
  <2>1. reserved[m] + 1 \in 0..Budget BY <1>2 DEF TypeOK, Try, CanReserve
  <2>2. reserved' \in [Models -> 0..Budget] BY <2>1 DEF TypeOK, Try
  <2>3. left' \in [Requests -> Seq(Models)] BY <1>1, RangeOfTail DEF TypeOK, Try
  <2> QED BY <1>2, <2>2, <2>3, SteadyTyped DEF TypeOK, Try, Steps, worldVars
<1>4. Voiced' BY DEF Voiced, Try, Has, TypeOK
<1>5. \A q \in Requests \ {r} : pc'[q] = pc[q] /\ tried'[q] = tried[q] /\ left'[q] = left[q]
  BY DEF Try, TypeOK
<1>6. /\ late' = late /\ pc[r] = "trying" /\ pc'[r] = "calling"
      /\ left'[r] = Tail(left[r]) /\ tried'[r] = tried[r] \cup {m}
  BY DEF Try, Has, TypeOK
<1>7. steady'[r] \subseteq tried'[r] \cup Range(left'[r])
  <2>1. steady'[r] \subseteq tried[r] \cup Range(left[r])
    BY <1>6, SteadyShrinks DEF Covered, Searching
  <2>2. Range(left[r]) \subseteq {m} \cup Range(left'[r]) BY <1>1, <1>6, RangeOfTail
  <2> QED BY <1>6, <2>1, <2>2
<1>8. Covered' BY <1>5, <1>6, <1>7, OthersKeep DEF Covered
<1>9. NoneLeftOut' BY <1>5, <1>6, OthersKeep DEF NoneLeftOut
<1> QED BY <1>3, <1>4, <1>8, <1>9

LEMMA GiveUpKeeps ==
  ASSUME IInv, Remember, NEW r \in Requests, GiveUp(r)
  PROVE  IInv'
<1> USE DEF IInv
<1>1. TypeOK'
  <2>1. left' \in [Requests -> Seq(Models)]
    <3>1. <<>> \in Seq(Models) OBVIOUS
    <3> QED BY <3>1 DEF GiveUp, Returns, TypeOK
  <2>2. model' \in [Requests -> Models \cup {NoModel}] BY DEF GiveUp, Returns, TypeOK
  <2>3. pc' \in [Requests -> Steps] BY DEF GiveUp, Steps, Ended, TypeOK
  <2> QED BY <2>1, <2>2, <2>3, SteadyTyped DEF TypeOK, GiveUp, Returns, worldVars
<1>2. Voiced' BY DEF Voiced, GiveUp, Has, TypeOK
<1>3. \A q \in Requests \ {r} : pc'[q] = pc[q] /\ tried'[q] = tried[q] /\ left'[q] = left[q]
  BY DEF GiveUp, Returns, TypeOK
<1>4. late' = late /\ pc[r] = "trying" /\ pc'[r] = "failed" /\ tried'[r] = tried[r]
  BY DEF GiveUp, Has, TypeOK
<1>5. r \notin late' => steady'[r] \subseteq tried'[r]
  <2> HAVE r \notin late'
  <2>1. left[r] = <<>> BY <1>4 DEF GiveUp
  <2>2. Range(left[r]) = {} BY <2>1 DEF Range
  <2> QED BY <1>4, <2>2, SteadyShrinks DEF Covered, Searching
<1>6. Covered' BY <1>3, <1>4, OthersKeep DEF Covered, Searching
<1>7. NoneLeftOut' BY <1>3, <1>4, <1>5, OthersKeep DEF NoneLeftOut
<1> QED BY <1>1, <1>2, <1>6, <1>7

\* A stream that begins or a foreign exception: the request is over with its search.
LEMMA LeavingKeeps ==
  ASSUME IInv, Remember, NEW r \in Requests, FirstChunk(r) \/ Escape(r)
  PROVE  IInv'
<1> USE DEF IInv
<1>1. pc[r] = "calling" BY DEF FirstChunk, Escape, Answers
<1>2. TypeOK'
  <2>1. left' \in [Requests -> Seq(Models)]
    <3>1. <<>> \in Seq(Models) OBVIOUS
    <3>2. left' = [left EXCEPT ![r] = <<>>] BY DEF FirstChunk, Escape, Returns
    <3> QED BY <3>1, <3>2 DEF TypeOK
  <2>2. model' \in [Requests -> Models \cup {NoModel}] /\ heard' \in [Requests -> Models \cup {NoModel}]
    BY DEF FirstChunk, Escape, Returns, TypeOK
  <2>3. pc' \in [Requests -> Steps] BY DEF FirstChunk, Escape, Steps, Ended, TypeOK
  <2>4. late' \subseteq Requests /\ gone' \subseteq Requests
    BY DEF FirstChunk, Escape, Returns, TypeOK
  <2> QED BY <2>1, <2>2, <2>3, <2>4, SteadyTyped DEF TypeOK, FirstChunk, Escape, worldVars
<1>3. Voiced' BY <1>1 DEF Voiced, FirstChunk, Escape, TypeOK
<1>4. \A q \in Requests \ {r} :
        pc'[q] = pc[q] /\ tried'[q] = tried[q] /\ left'[q] = left[q] /\ (q \in late' <=> q \in late)
  BY DEF FirstChunk, Escape, Returns, TypeOK
<1>5. pc'[r] \in {"dropped", "streaming", "escaped"} BY DEF FirstChunk, Escape, TypeOK
<1>6. Covered' BY <1>4, <1>5, OthersKeep DEF Covered, Searching
<1>7. NoneLeftOut' BY <1>4, <1>5, OthersKeep DEF NoneLeftOut
<1> QED BY <1>2, <1>3, <1>6, <1>7

LEMMA FailKeeps ==
  ASSUME IInv, Remember, NEW r \in Requests, NEW kind \in Failures, Fail(r, kind)
  PROVE  IInv'
<1> USE DEF IInv
<1>1. PICK row \in Filed(pool[model[r]], kind) : pool' = [pool EXCEPT ![model[r]] = row] BY DEF Fail
<1>2. pool' \in [Models -> PoolStates]
  <2>1. CASE model[r] \in Models
    <3>1. pool[model[r]] \in PoolStates BY <2>1 DEF TypeOK
    <3>2. kind = "transient" \/ kind \in PoolStates BY DEF PoolStates
    <3>3. row \in PoolStates BY <1>1, <3>1, <3>2 DEF Filed
    <3> QED BY <1>1, <3>3 DEF TypeOK
  <2>2. CASE model[r] \notin Models BY <1>1, <2>2 DEF TypeOK
  <2> QED BY <2>1, <2>2
<1>3. TypeOK' BY <1>2, SteadyTyped DEF TypeOK, Fail, Steps, worldVars
<1>4. Voiced' BY DEF Voiced, Fail, Answers, TypeOK
<1>5. \A q \in Requests \ {r} : pc'[q] = pc[q] BY DEF Fail, TypeOK
<1>6. late' = late /\ tried' = tried /\ left' = left /\ pc[r] = "calling" /\ pc'[r] = "trying"
  BY DEF Fail, Answers, TypeOK
<1>7. steady'[r] \subseteq tried'[r] \cup Range(left'[r])
  BY <1>6, SteadyShrinks DEF Covered, Searching
<1>8. Covered' BY <1>5, <1>6, <1>7, OthersKeep DEF Covered
<1>9. NoneLeftOut' BY <1>5, <1>6, OthersKeep DEF NoneLeftOut
<1> QED BY <1>3, <1>4, <1>8, <1>9

\* What happens to a stream after its first chunk.
LEMMA StreamingKeeps ==
  ASSUME IInv, Remember, NEW r \in Requests, Streaming(r)
  PROVE  IInv'
<1> USE DEF IInv, Streaming, StreamEnds, StreamBreaks, CallerLeaves
<1>1. TypeOK'
  <2>1. pc' \in [Requests -> Steps] /\ gone' \subseteq Requests BY DEF TypeOK, Steps, Ended
  <2> QED BY <2>1, SteadyTyped DEF TypeOK, worldVars
<1>2. Voiced' BY DEF Voiced, TypeOK
<1>3. \A q \in Requests \ {r} : pc'[q] = pc[q] BY DEF TypeOK
<1>4. late' = late /\ tried' = tried /\ left' = left OBVIOUS
<1>5. pc'[r] = pc[r] \/ pc'[r] \in {"done", "broken", "dropped"} BY DEF TypeOK
<1>6. Covered' BY <1>3, <1>4, <1>5, OthersKeep DEF Covered, Searching
<1>7. NoneLeftOut' BY <1>3, <1>4, <1>5, OthersKeep DEF NoneLeftOut
<1> QED BY <1>1, <1>2, <1>6, <1>7

LEMMA WorldKeeps ==
  ASSUME IInv, Remember, World \/ \E r \in Requests : DeadlinePasses(r)
  PROVE  IInv'
<1> USE DEF IInv
<1>1. pc' = pc /\ left' = left /\ tried' = tried /\ heard' = heard /\ turn' = turn /\ model' = model
  BY DEF World, DeadlinePasses, WindowSlides, Probed, Verdict, Reload, requestVars
<1>2. late \subseteq late' /\ late' \subseteq Requests /\ gone' = gone
  BY DEF World, DeadlinePasses, WindowSlides, Probed, Verdict, Reload, TypeOK
<1>3. registry' \subseteq Models /\ sick' \subseteq Models /\ events' \in 0..MaxEvents
  BY DEF World, DeadlinePasses, WindowSlides, Probed, Verdict, Reload, Event, worldVars, TypeOK
<1>4. pool' \in [Models -> PoolStates]
  <2>1. "available" \in PoolStates BY DEF PoolStates
  <2>2. ASSUME NEW names \in SUBSET Models, Reload(names) PROVE pool' \in [Models -> PoolStates]
    BY <2>1, <2>2 DEF Reload, TypeOK
  <2>3. ASSUME NEW m \in Models, Probed(m) PROVE pool' \in [Models -> PoolStates]
    BY <2>3 DEF Probed, TypeOK
  <2>4. CASE UNCHANGED pool BY <2>4 DEF TypeOK
  <2> QED BY <2>2, <2>3, <2>4 DEF World, DeadlinePasses, WindowSlides, Verdict
<1>5. reserved' \in [Models -> 0..Budget]
  BY DEF World, DeadlinePasses, WindowSlides, Probed, Verdict, Reload, TypeOK
<1>6. TypeOK' BY <1>1, <1>2, <1>3, <1>4, <1>5, SteadyTyped DEF TypeOK
<1>7. Voiced' BY <1>1 DEF Voiced
<1>8. Covered' BY <1>1, <1>2, OthersKeep DEF Covered
<1>9. NoneLeftOut' BY <1>1, <1>2, OthersKeep DEF NoneLeftOut
<1> QED BY <1>6, <1>7, <1>8, <1>9

LEMMA StepKeeps == IInv /\ [Next]_vars => IInv'
<1> SUFFICES ASSUME IInv, [Next]_vars PROVE IInv' OBVIOUS
<1>1. CASE Next
  <2>1. ASSUME NEW r \in Requests, Begin(r), Remember PROVE IInv' BY <2>1, BeginKeeps
  <2>2. ASSUME NEW r \in Requests, Running(r), Remember PROVE IInv'
    BY <2>2, SkipKeeps, TryKeeps, GiveUpKeeps DEF Running
  <2>3. ASSUME NEW r \in Requests, CallEnds(r), Remember PROVE IInv'
    BY <2>3, LeavingKeeps, FailKeeps DEF CallEnds
  <2>4. ASSUME NEW r \in Requests, Streaming(r), Remember PROVE IInv' BY <2>4, StreamingKeeps
  <2> QED BY <1>1, <2>1, <2>2, <2>3, <2>4, WorldKeeps DEF Next, Step
<1>2. CASE UNCHANGED vars
  BY <1>2 DEF IInv, TypeOK, Voiced, Covered, Searching, NoneLeftOut, vars, requestVars, worldVars
<1> QED BY <1>1, <1>2

LEMMA InitHolds == Init => IInv
BY DEF Init, IInv, TypeOK, Voiced, Covered, Searching, NoneLeftOut, Steps
-----------------------------------------------------------------------------
\* The invariant in full.
LEMMA Inductive == Spec => []IInv
BY InitHolds, StepKeeps, PTL DEF Spec

\* The state keeps its types; no model is reserved beyond its budget.
THEOREM TypesHold == Spec => []TypeOK
BY Inductive, PTL DEF IInv

\* The list of candidates leaves out no model that stays good while it is gone through.
THEOREM NoneLeftOutHolds == Spec => []NoneLeftOut
BY Inductive, PTL DEF IInv

\* Once a caller hears a model, it goes on hearing that one or none.
THEOREM OneVoiceHolds == Spec => OneVoice
<1> DEFINE Steady(r) == heard[r] # NoModel => heard'[r] = heard[r] /\ tried'[r] = tried[r]
<1>1. IInv /\ [Next]_vars => [\A r \in Requests : Steady(r)]_vars
  <2> SUFFICES ASSUME IInv, Next, NEW r \in Requests, heard[r] # NoModel
               PROVE  heard'[r] = heard[r] /\ tried'[r] = tried[r]
    OBVIOUS
  <2>1. pc[r] \notin {"new", "trying", "calling"} BY DEF IInv, Voiced
  <2>2. CASE World
    BY <2>2 DEF World, WindowSlides, Probed, Verdict, Reload, requestVars
  <2>3. ASSUME NEW q \in Requests,
               Begin(q) \/ Running(q) \/ CallEnds(q) \/ Streaming(q) \/ DeadlinePasses(q)
        PROVE  heard'[r] = heard[r] /\ tried'[r] = tried[r]
    <3>1. CASE q = r
      BY <2>1, <2>3, <3>1 DEF Begin, Running, Skip, Try, GiveUp, Has, CallEnds, FirstChunk, Fail,
        Escape, Answers, Streaming, StreamEnds, StreamBreaks, CallerLeaves, DeadlinePasses, requestVars
    <3>2. CASE q # r
      BY <2>3, <3>2 DEF Begin, Running, Skip, Try, GiveUp, CallEnds, FirstChunk, Fail, Escape,
        Streaming, StreamEnds, StreamBreaks, CallerLeaves, DeadlinePasses, requestVars, IInv, TypeOK
    <3> QED BY <3>1, <3>2
  <2> QED BY <2>2, <2>3 DEF Next, Step
<1> QED BY <1>1, Inductive, PTL DEF Spec, OneVoice

-----------------------------------------------------------------------------
(* The safety half of StreamsEnd. *)

\* A step of a request that searches goes on along its list, or leaves it as it is when a
\* call fails, or ends the search.
Advances(r) ==
  \/ Len(left'[r]) < Len(left[r])
  \/ pc[r] = "calling" /\ pc'[r] = "trying" /\ left'[r] = left[r]
  \/ pc'[r] \in {"streaming"} \cup Ended

\* The list a request draws up when it begins is all it ever visits, and each entry once: a
\* failure, a verdict or a reload gives it nothing to go back to (selector.py:755-806).
THEOREM StreamsAdvance ==
  Spec => [][\A r \in Requests : Searching(r) /\ <<pc[r], left[r]>>' # <<pc[r], left[r]>>
               => Advances(r)]_vars
<1> DEFINE Goes == \A r \in Requests :
             Searching(r) /\ <<pc[r], left[r]>>' # <<pc[r], left[r]>> => Advances(r)
<1>1. IInv /\ [Next]_vars => [Goes]_vars
  <2> SUFFICES ASSUME IInv, Next, NEW r \in Requests, Searching(r),
                      <<pc[r], left[r]>>' # <<pc[r], left[r]>>
               PROVE  Advances(r)
    OBVIOUS
  <2>1. ~World
    BY DEF World, WindowSlides, Probed, Verdict, Reload, requestVars
  <2>2. ASSUME NEW q \in Requests,
               Begin(q) \/ Running(q) \/ CallEnds(q) \/ Streaming(q) \/ DeadlinePasses(q)
        PROVE  Advances(r)
    <3>1. q = r
      BY <2>2 DEF Begin, Running, Skip, Try, GiveUp, CallEnds, FirstChunk, Fail, Escape, Returns,
        Streaming, StreamEnds, StreamBreaks, CallerLeaves, DeadlinePasses, requestVars, IInv, TypeOK
    <3>2. CASE Skip(r) \/ Try(r)
      <4>1. left[r] \in Seq(Models) /\ left[r] # <<>> /\ left'[r] = Tail(left[r])
        BY <3>2 DEF Skip, Try, IInv, TypeOK
      <4>2. Len(left'[r]) < Len(left[r]) BY <4>1
      <4> QED BY <4>2 DEF Advances
    <3>3. CASE GiveUp(r) BY <3>3 DEF GiveUp, Advances, Ended, IInv, TypeOK
    <3>4. CASE CallEnds(r)
      BY <3>4 DEF CallEnds, FirstChunk, Fail, Escape, Answers, Advances, Ended, IInv, TypeOK
    <3>5. CASE Streaming(r)
      BY <3>5 DEF Streaming, StreamEnds, StreamBreaks, CallerLeaves, Searching, Advances, Ended,
        IInv, TypeOK
    <3>6. ~Begin(r) /\ ~DeadlinePasses(r)
      BY DEF Begin, Searching, DeadlinePasses, requestVars
    <3> QED BY <2>2, <3>1, <3>2, <3>3, <3>4, <3>5, <3>6 DEF Running
  <2> QED BY <2>1, <2>2 DEF Next, Step
<1> QED BY <1>1, Inductive, PTL DEF Spec
=============================================================================
