------------------------------ MODULE LimitProofs ------------------------------
(***************************************************************************)
(* Theorems about the limits of a model.  First about Limiter, for any number *)
(* of requests, any windows, any quota and any caps learned before: types, the *)
(* per-second window, the bound on the learned cap, and that the cap binds the *)
(* requests in flight.  Then about QuotaStore, for any models, backends, days  *)
(* and writes in flight: types, that no copy of a row counts more than         *)
(* happened or has learned more than some day showed, and that the store holds *)
(* what memory holds once the writes are done.                                 *)
(***************************************************************************)
EXTENDS LimiterProps, QuotaStoreProps, FiniteSetTheorems, SequenceTheorems, TLAPS

(***************************************************************************)
(* The successes of the last minute.                                        *)
(***************************************************************************)
Within(events, from) == {i \in 1..Len(events) : events[i] >= from}

LEMMA WithinFinite ==
  ASSUME NEW events \in Seq(Nat), NEW from \in Int
  PROVE  /\ IsFiniteSet(Within(events, from))
         /\ Cardinality(Within(events, from)) \in Nat
  <1>1. IsFiniteSet(1..Len(events))
    BY FS_Interval
  <1>2. Within(events, from) \in SUBSET (1..Len(events))
    BY DEF Within
  <1> QED BY <1>1, <1>2, FS_Subset, FS_CardinalityType

\* A later beginning leaves no more events in the window.
LEMMA WithinLater ==
  ASSUME NEW events \in Seq(Nat), NEW from \in Int
  PROVE  Cardinality(Within(events, from + 1)) <= Cardinality(Within(events, from))
  <1>1. Within(events, from + 1) \in SUBSET Within(events, from)
    BY DEF Within
  <1> QED BY <1>1, WithinFinite, FS_Subset

LEMMA OkCountNat ==
  ASSUME TypeOK, NEW events \in Seq(Nat)
  PROVE  OkCount(events) \in Nat
  <1>1. now - Minute \in Int
    BY LimiterAssumption DEF TypeOK
  <1>2. OkCount(events) = Cardinality(Within(events, now - Minute))
    BY DEF OkCount, Within
  <1> QED BY <1>1, <1>2, WithinFinite

(***************************************************************************)
(* Types.                                                                   *)
(***************************************************************************)
\* The learner keeps the cap a natural number.
LEMMA CapTypes ==
  ASSUME cap \in Nat, NEW ok \in Nat
  PROVE  Raised(ok) \in Nat /\ Lowered(ok) \in Nat
  BY DEF Raised, Lowered

LEMMA CallTypes ==
  ASSUME TypeOK, NEW r \in Requests, NEW pc \in {"idle", "sent", "accepted", "refused"},
         NEW header \in Figures
  PROVE  /\ Idle \in [pc : {"idle", "sent", "accepted", "refused"}, index : Nat, header : Figures]
         /\ [call EXCEPT ![r].pc = pc] \in
              [Requests -> [pc : {"idle", "sent", "accepted", "refused"}, index : Nat, header : Figures]]
         /\ [call EXCEPT ![r].pc = pc, ![r].header = header] \in
              [Requests -> [pc : {"idle", "sent", "accepted", "refused"}, index : Nat, header : Figures]]
         /\ [call EXCEPT ![r] = Idle] \in
              [Requests -> [pc : {"idle", "sent", "accepted", "refused"}, index : Nat, header : Figures]]
  BY DEF TypeOK, Idle, Figures

LEMMA TypeInit == Init => TypeOK
  <1> SUFFICES ASSUME Init PROVE TypeOK
    OBVIOUS
  <1>1. call \in [Requests -> [pc : {"idle", "sent", "accepted", "refused"}, index : Nat, header : Figures]]
    BY DEF Init, Idle, Figures
  <1>2. live \in [left : Figures, at : Nat]
    BY DEF Init, Figures
  <1>3. cap \in Nat /\ best \in Nat /\ quota \in 0..Quota
    BY LimiterAssumption DEF Init
  <1>4. attempts \in Seq(Nat) /\ successes \in Seq(Nat)
    BY DEF Init
  <1> QED BY <1>1, <1>2, <1>3, <1>4 DEF Init, TypeOK

LEMMA TypeStep == TypeOK /\ [Next]_vars => TypeOK'
  <1> SUFFICES ASSUME TypeOK, [Next]_vars PROVE TypeOK'
    OBVIOUS
  <1> USE LimiterAssumption
  <1> DEFINE CallType == [Requests -> [pc : {"idle", "sent", "accepted", "refused"},
                                       index : Nat, header : Figures]]
  <1>1. ASSUME NEW r \in Requests, Reserve(r) PROVE TypeOK'
    <2>1. attempts' \in Seq(Nat) /\ Len(attempts') \in Nat
      BY <1>1 DEF Reserve, TypeOK
    <2>2. call' \in CallType
      BY <1>1, <2>1 DEF Reserve, TypeOK, Idle, Figures
    <2> QED BY <1>1, <2>1, <2>2 DEF Reserve, TypeOK
  <1>2. ASSUME NEW r \in Requests, Accept(r) PROVE TypeOK'
    <2>1. quota' \in 0..Quota
      BY <1>2 DEF Accept, TypeOK
    <2>2. PICK header \in {quota', Unknown} :
            call' = [call EXCEPT ![r].pc = "accepted", ![r].header = header]
      BY <1>2 DEF Accept
    <2>3. header \in Figures
      BY <2>1, <2>2 DEF Figures
    <2>4. call' \in CallType
      BY <2>2, <2>3, CallTypes
    <2> QED BY <1>2, <2>1, <2>4 DEF Accept, TypeOK
  <1>3. ASSUME NEW r \in Requests, Refuse(r) PROVE TypeOK'
    <2>1. call' \in CallType
      BY <1>3, CallTypes DEF Refuse, TypeOK
    <2> QED BY <1>3, <2>1 DEF Refuse, TypeOK
  <1>4. ASSUME NEW r \in Requests, Succeed(r) PROVE TypeOK'
    <2>1. successes' \in Seq(Nat)
      BY <1>4 DEF Succeed, TypeOK
    <2>2. OkCount(successes') \in Nat
      BY <2>1, OkCountNat
    <2>3. cap' \in Nat /\ best' \in Nat
      BY <1>4, <2>2, CapTypes DEF Succeed, TypeOK
    <2>4. call' \in CallType
      BY <1>4, CallTypes DEF Succeed, TypeOK, Figures
    <2>5. Spent(live.left) \in Figures
      BY DEF TypeOK, Spent, Figures
    <2>6. live' \in [left : Figures, at : Nat]
      BY <1>4, <2>5 DEF Succeed, TypeOK
    <2> QED BY <1>4, <2>1, <2>3, <2>4, <2>6 DEF Succeed, TypeOK
  <1>5. ASSUME NEW r \in Requests, LearnLimit(r) PROVE TypeOK'
    <2>1. cap' \in Nat
      BY <1>5, OkCountNat, CapTypes DEF LearnLimit, TypeOK
    <2>2. call' \in CallType
      BY <1>5, CallTypes DEF LearnLimit, TypeOK, Figures
    <2> QED BY <1>5, <2>1, <2>2 DEF LearnLimit, TypeOK
  <1>6. ASSUME NEW r \in Requests, Break(r) PROVE TypeOK'
    <2>1. call' \in CallType
      BY <1>6, CallTypes DEF Break, TypeOK, Figures
    <2> QED BY <1>6, <2>1 DEF Break, TypeOK
  <1>7. CASE Refill
    BY <1>7 DEF Refill, TypeOK
  <1>8. CASE Promote
    BY <1>8 DEF Promote, TypeOK
  <1>9. CASE Tick
    BY <1>9 DEF Tick, TypeOK
  <1>10. ASSUME NEW left \in 0..Quota, Report(left) PROVE TypeOK'
    <2>1. live' \in [left : Figures, at : Nat]
      BY <1>10 DEF Report, TypeOK, Figures
    <2> QED BY <1>10, <2>1 DEF Report, TypeOK
  <1>11. CASE UNCHANGED vars
    BY <1>11 DEF vars, TypeOK
  <1> QED BY <1>1, <1>2, <1>3, <1>4, <1>5, <1>6, <1>7, <1>8, <1>9, <1>10, <1>11 DEF Next, Answered

\* The limiter keeps its types; no live figure falls below zero, whatever
\* answers arrive together.
THEOREM TypeCorrect == Spec => []TypeOK
  BY TypeInit, TypeStep, PTL DEF Spec

(***************************************************************************)
(* The per-second window.  A reservation is made only when the Rps-th last    *)
(* one has left it.                                                         *)
(***************************************************************************)
LEMMA WindowStep == TypeOK /\ WindowHonoured /\ [Next]_vars => WindowHonoured'
  <1> SUFFICES ASSUME TypeOK, WindowHonoured, [Next]_vars PROVE WindowHonoured'
    OBVIOUS
  <1> USE LimiterAssumption
  <1>1. ASSUME NEW r \in Requests, Reserve(r) PROVE WindowHonoured'
    <2> DEFINE L == Len(attempts)
    <2>1. /\ attempts \in Seq(Nat) /\ now \in Nat /\ L \in Nat
          /\ attempts' = Append(attempts, now) /\ Len(attempts') = L + 1
          /\ attempts'[L + 1] = now
          /\ \A i \in 1..L : attempts'[i] = attempts[i]
      BY <1>1 DEF TypeOK, Reserve
    <2>2. ~Full(attempts, Rps, RpsWindow)
      BY <1>1 DEF Reserve, CanReserve
    <2> SUFFICES ASSUME NEW i \in 1..(L + 1), i + Rps <= L + 1
                 PROVE  attempts'[i + Rps] > attempts'[i] + RpsWindow
      BY <2>1 DEF WindowHonoured
    <2> i \in 1..L
      BY <2>1
    <2>3. CASE i + Rps <= L
      BY <2>1, <2>3 DEF WindowHonoured
    <2>4. CASE i + Rps = L + 1
      <3>1. L >= Rps /\ L - Rps + 1 = i
        BY <2>1, <2>4
      <3>2. ~(attempts[i] >= now - RpsWindow)
        BY <2>1, <2>2, <3>1 DEF Full
      <3>3. attempts[i] \in Nat
        BY <2>1
      <3>4. attempts'[i + Rps] = now /\ attempts'[i] = attempts[i]
        BY <2>1, <2>4
      <3> QED BY <2>1, <3>2, <3>3, <3>4
    <2>5. i + Rps <= L \/ i + Rps = L + 1
      <3>1. i + Rps \in Int /\ L \in Int
        BY <2>1
      <3> QED BY <3>1
    <2> QED BY <2>3, <2>4, <2>5
  <1>2. CASE \A r \in Requests : ~Reserve(r)
    <2>1. attempts' = attempts
      BY <1>2 DEF Next, Answered, Accept, Refuse, Succeed, LearnLimit, Break, Refill, Promote,
                  Tick, Report, vars
    <2> QED BY <2>1 DEF WindowHonoured
  <1> QED BY <1>1, <1>2

\* No stretch of RpsWindow holds more than Rps reservations.
THEOREM WindowsHonoured == Spec => []WindowHonoured
  <1>1. Init => WindowHonoured
    BY DEF Init, WindowHonoured
  <1> QED BY <1>1, WindowStep, TypeCorrect, PTL DEF Spec

(***************************************************************************)
(* The learned cap.  CapNotAboveEvidence is not inductive: a refusal sets the  *)
(* cap to the successes counted now, which must not exceed the most ever       *)
(* counted when a success was handled.  They do not, for time only takes       *)
(* successes out of the window.                                              *)
(***************************************************************************)
CapInv == CapNotAboveEvidence /\ OkCount(successes) <= best

LEMMA RaisedBound ==
  ASSUME cap \in Nat, best \in Nat, CapNotAboveEvidence,
         NEW ok \in Nat, NEW most \in Nat, ok <= most, best <= most
  PROVE  Raised(ok) > 0 => Raised(ok) <= most + 1
  <1>1. CASE cap > 0 /\ ok >= cap
    BY <1>1 DEF Raised
  <1>2. CASE ~(cap > 0 /\ ok >= cap)
    <2>1. Raised(ok) = cap
      BY <1>2 DEF Raised
    <2> QED BY <2>1 DEF CapNotAboveEvidence
  <1> QED BY <1>1, <1>2

LEMMA CapStep == TypeOK /\ CapInv /\ [Next]_vars => CapInv'
  <1> SUFFICES ASSUME TypeOK, CapInv, [Next]_vars PROVE CapInv'
    OBVIOUS
  <1> USE LimiterAssumption
  <1>0. cap \in Nat /\ best \in Nat /\ OkCount(successes) \in Nat
    BY OkCountNat DEF TypeOK
  <1>1. ASSUME NEW r \in Requests, Succeed(r) PROVE CapInv'
    <2> DEFINE ok == OkCount(successes')
    <2>1. successes' \in Seq(Nat)
      BY <1>1 DEF Succeed, TypeOK
    <2>2. ok \in Nat
      BY <2>1, OkCountNat
    <2>3. best' \in Nat /\ ok <= best' /\ best <= best'
      BY <1>0, <1>1, <2>2 DEF Succeed
    <2>4. OkCount(successes)' = ok
      BY <1>1 DEF Succeed, OkCount
    <2>5. cap' = Raised(ok)
      BY <1>1 DEF Succeed
    <2> HIDE DEF ok
    <2>6. CapNotAboveEvidence'
      <3>1. Raised(ok) > 0 => Raised(ok) <= best' + 1
        BY <1>0, <2>2, <2>3, RaisedBound DEF CapInv
      <3> QED BY <2>5, <3>1 DEF CapNotAboveEvidence
    <2> QED BY <2>3, <2>4, <2>6 DEF CapInv
  <1>2. ASSUME NEW r \in Requests, LearnLimit(r) PROVE CapInv'
    <2>1. OkCount(successes)' = OkCount(successes) /\ best' = best
      BY <1>2 DEF LearnLimit, OkCount
    <2>2. cap' = Lowered(OkCount(successes))
      BY <1>2 DEF LearnLimit
    <2>3. CapNotAboveEvidence'
      BY <1>0, <2>1, <2>2 DEF Lowered, CapInv, CapNotAboveEvidence
    <2> QED BY <2>1, <2>3 DEF CapInv
  <1>3. CASE Tick
    <2>1. successes \in Seq(Nat) /\ now - Minute \in Int /\ now' = now + 1
      BY <1>3 DEF Tick, TypeOK
    <2>2. OkCount(successes) = Cardinality(Within(successes, now - Minute))
      BY DEF OkCount, Within
    <2>3. (now - Minute) + 1 = now' - Minute
      BY <2>1 DEF TypeOK
    <2>4. OkCount(successes)' = Cardinality(Within(successes, (now - Minute) + 1))
      BY <1>3, <2>3 DEF Tick, OkCount, Within
    <2>5. OkCount(successes)' <= OkCount(successes) /\ OkCount(successes)' \in Nat
      BY <2>1, <2>2, <2>4, WithinLater, WithinFinite
    <2>6. cap' = cap /\ best' = best
      BY <1>3 DEF Tick
    <2> QED BY <1>0, <2>5, <2>6 DEF CapInv, CapNotAboveEvidence
  <1>4. CASE (\A r \in Requests : ~Succeed(r) /\ ~LearnLimit(r)) /\ ~Tick
    <2>1. UNCHANGED <<now, successes, cap, best>>
      BY <1>4 DEF Next, Answered, Reserve, Accept, Refuse, Break, Refill, Promote, Report, vars
    <2> QED BY <2>1 DEF CapInv, CapNotAboveEvidence, OkCount
  <1> QED BY <1>1, <1>2, <1>3, <1>4

\* The learned cap is at most one more than what the provider was once seen to
\* accept in a minute, in this process or the one that learned it.
THEOREM CapFollowsEvidence == Spec => []CapNotAboveEvidence
  <1>1. Init => CapInv
    <2> SUFFICES ASSUME Init PROVE CapInv
      OBVIOUS
    <2>1. cap \in Nat /\ best = cap /\ successes = <<>>
      BY LimiterAssumption DEF Init
    <2>2. {i \in 1..Len(successes) : successes[i] >= now - Minute} = {}
      BY <2>1
    <2>3. OkCount(successes) = 0
      BY <2>2, FS_EmptySet DEF OkCount
    <2> QED BY <2>1, <2>3 DEF CapInv, CapNotAboveEvidence
  <1>2. CapInv => CapNotAboveEvidence
    BY DEF CapInv
  <1> QED BY <1>1, <1>2, CapStep, TypeCorrect, PTL DEF Spec

(***************************************************************************)
(* The cap binds what is in flight.  Each request under way holds a           *)
(* reservation of its own, and reservations are in the order of time.         *)
(***************************************************************************)
Held ==
  /\ \A r \in Requests : call[r].pc # "idle" => call[r].index \in 1..Len(attempts)
  /\ \A q, r \in Requests :
       call[q].pc # "idle" /\ call[r].pc # "idle" /\ call[q].index = call[r].index => q = r

Ordered ==
  /\ \A i \in 1..Len(attempts) : attempts[i] <= now
  /\ \A i, j \in 1..Len(attempts) : i <= j => attempts[i] <= attempts[j]

LEMMA HeldStep == TypeOK /\ Held /\ [Next]_vars => Held'
  <1> SUFFICES ASSUME TypeOK, Held, [Next]_vars PROVE Held'
    OBVIOUS
  <1>1. ASSUME NEW r \in Requests, Reserve(r) PROVE Held'
    <2>1. /\ Len(attempts) \in Nat /\ Len(attempts') = Len(attempts) + 1
          /\ call'[r].index = Len(attempts) + 1
          /\ \A q \in Requests \ {r} : call'[q] = call[q]
      BY <1>1 DEF Reserve, TypeOK, Idle
    <2>2. \A q \in Requests \ {r} : call[q].pc # "idle" => call[q].index \in 1..Len(attempts)
      BY DEF Held
    <2>3. \A q \in Requests : call'[q].pc # "idle" => call'[q].index \in 1..Len(attempts')
      BY <2>1, <2>2
    <2>4. ASSUME NEW q \in Requests, NEW s \in Requests, call'[q].pc # "idle",
                 call'[s].pc # "idle", call'[q].index = call'[s].index
          PROVE  q = s
      <3>1. CASE q # r /\ s # r
        BY <2>1, <2>4, <3>1 DEF Held
      <3>2. CASE (q = r \/ s = r) /\ q # s
        BY <2>1, <2>2, <2>4, <3>2
      <3> QED BY <3>1, <3>2
    <2> QED BY <2>3, <2>4 DEF Held
  <1>2. CASE \A r \in Requests : ~Reserve(r)
    <2>1. attempts' = attempts
      BY <1>2 DEF Next, Answered, Accept, Refuse, Succeed, LearnLimit, Break, Refill, Promote,
                  Tick, Report, vars
    <2>2. \A q \in Requests : call'[q].pc # "idle" =>
            call[q].pc # "idle" /\ call'[q].index = call[q].index
      <3>1. ASSUME NEW r \in Requests, Accept(r) PROVE <2>2
        BY <3>1 DEF Accept, TypeOK
      <3>2. ASSUME NEW r \in Requests, Refuse(r) PROVE <2>2
        BY <3>2 DEF Refuse, TypeOK
      <3>3. ASSUME NEW r \in Requests, Answered(r) PROVE <2>2
        <4>1. call' = [call EXCEPT ![r] = Idle]
          BY <3>3 DEF Answered, Succeed, LearnLimit, Break
        <4> QED BY <4>1 DEF TypeOK, Idle
      <3>4. CASE UNCHANGED call
        BY <3>4
      <3> QED
        BY <1>2, <3>1, <3>2, <3>3, <3>4 DEF Next, Refill, Promote, Tick, Report, vars
    <2> QED BY <2>1, <2>2 DEF Held
  <1> QED BY <1>1, <1>2

LEMMA OrderedStep == TypeOK /\ Ordered /\ [Next]_vars => Ordered'
  <1> SUFFICES ASSUME TypeOK, Ordered, [Next]_vars PROVE Ordered'
    OBVIOUS
  <1>1. ASSUME NEW r \in Requests, Reserve(r) PROVE Ordered'
    <2>1. /\ Len(attempts) \in Nat /\ Len(attempts') = Len(attempts) + 1
          /\ attempts'[Len(attempts) + 1] = now /\ now' = now /\ now \in Nat
          /\ \A i \in 1..Len(attempts) : attempts'[i] = attempts[i] /\ attempts[i] \in Nat
      BY <1>1 DEF Reserve, TypeOK
    <2>2. \A i \in 1..Len(attempts') : attempts'[i] <= now'
      BY <2>1 DEF Ordered
    <2>3. ASSUME NEW i \in 1..Len(attempts'), NEW j \in 1..Len(attempts'), i <= j
          PROVE  attempts'[i] <= attempts'[j]
      <3>1. CASE j = Len(attempts) + 1
        BY <2>1, <2>2, <3>1
      <3>2. CASE j # Len(attempts) + 1
        BY <2>1, <2>3, <3>2 DEF Ordered
      <3> QED BY <3>1, <3>2
    <2> QED BY <2>2, <2>3 DEF Ordered
  <1>2. CASE \A r \in Requests : ~Reserve(r)
    <2>1. attempts' = attempts
      BY <1>2 DEF Next, Answered, Accept, Refuse, Succeed, LearnLimit, Break, Refill, Promote,
                  Tick, Report, vars
    <2>2. now' \in {now, now + 1}
      BY <1>2 DEF Next, Answered, Accept, Refuse, Succeed, LearnLimit, Break, Refill, Promote,
                  Tick, Report, vars
    <2>3. now' \in Nat /\ now <= now' /\ \A i \in 1..Len(attempts) : attempts[i] \in Nat
      BY <2>2 DEF TypeOK
    <2>4. \A i \in 1..Len(attempts) : attempts[i] <= now'
      BY <2>3 DEF Ordered, TypeOK
    <2> QED BY <2>1, <2>4 DEF Ordered
  <1> QED BY <1>1, <1>2

\* So many distinct members of an interval make a small set.
LEMMA Pigeons ==
  ASSUME NEW CONSTANT S, NEW CONSTANT a \in Int, NEW CONSTANT b \in Int, a <= b + 1,
         NEW CONSTANT f \in [S -> a..b], \A x, y \in S : f[x] = f[y] => x = y
  PROVE  Cardinality(S) \in Nat /\ Cardinality(S) <= b - a + 1
  <1>1. f \in Injection(S, a..b)
    BY DEF Injection, IsInjective
  <1>2. IsFiniteSet(a..b) /\ Cardinality(a..b) = IF a > b THEN 0 ELSE b - a + 1
    BY FS_Interval
  <1>3. IsFiniteSet(S) /\ Cardinality(S) <= Cardinality(a..b)
    BY <1>1, <1>2, FS_Injection
  <1> QED BY <1>2, <1>3, FS_CardinalityType

LEMMA CapBinds ==
  ASSUME TypeOK, Held', Ordered', NEW r \in Requests, Reserve(r), cap > 0, TypeOK'
  PROVE  Cardinality({q \in Requests : Recent(q)'}) <= cap
  <1> USE LimiterAssumption
  <1> DEFINE S == {q \in Requests : Recent(q)'}
             L == Len(attempts)
             first == IF L < cap THEN 1 ELSE L - cap + 2
             f == [q \in S |-> call'[q].index]
  <1>1. /\ L \in Nat /\ cap \in Nat /\ now \in Nat /\ Len(attempts') = L + 1 /\ now' = now
        /\ \A i \in 1..L : attempts'[i] = attempts[i] /\ attempts[i] \in Nat
    <2>1. attempts \in Seq(Nat) /\ now \in Nat /\ cap \in Nat
      BY DEF TypeOK
    <2>2. attempts' = Append(attempts, now) /\ now' = now
      BY DEF Reserve
    <2> QED BY <2>1, <2>2
  <1>2. \A q \in S : /\ call'[q].index \in 1..(L + 1)
                     /\ attempts'[call'[q].index] >= now - Minute
    BY <1>1 DEF Held, Recent
  <1>3. ~Full(attempts, cap, Minute)
    BY DEF Reserve, CanReserve, CapReached
  <1>4. ASSUME NEW q \in S PROVE call'[q].index \in first..(L + 1)
    <2>1. CASE L < cap
      BY <1>1, <1>2, <2>1
    <2>2. CASE L >= cap
      <3> DEFINE k == L - cap + 1
      <3>1. k \in 1..L /\ ~(attempts[k] >= now - Minute)
        BY <1>1, <1>3, <2>2 DEF Full
      <3>2. attempts'[k] = attempts[k] /\ attempts[k] \in Nat /\ attempts[k] < now - Minute
        BY <1>1, <3>1
      <3>3. ASSUME call'[q].index <= k PROVE FALSE
        <4>1. attempts'[call'[q].index] <= attempts'[k]
          BY <1>1, <1>2, <3>1, <3>3 DEF Ordered
        <4>2. attempts'[call'[q].index] \in Nat
          BY <1>1, <1>2 DEF TypeOK
        <4> QED BY <1>1, <1>2, <3>2, <4>1, <4>2
      <3> QED BY <1>1, <1>2, <2>2, <3>1, <3>3
    <2> QED BY <1>1, <2>1, <2>2
  <1>5. first \in Int /\ L + 1 \in Int /\ first <= (L + 1) + 1
    BY <1>1
  <1>6. f \in [S -> first..(L + 1)]
    BY <1>4
  <1>7. \A x, y \in S : f[x] = f[y] => x = y
    BY DEF Held, Recent
  <1>8. (L + 1) - first + 1 <= cap
    BY <1>1
  <1> HIDE DEF S, f, first, L
  <1>9. Cardinality(S) \in Nat /\ Cardinality(S) <= (L + 1) - first + 1
    BY <1>5, <1>6, <1>7, Pigeons
  <1>10. Cardinality(S) <= cap
    BY <1>1, <1>5, <1>8, <1>9
  <1> QED BY <1>10 DEF S

\* When a request is sent while a cap is learned, the requests under way that
\* were sent within the last minute are no more than the cap.
THEOREM CapBindsInFlight == Spec => InFlightWithinCap
  <1> DEFINE Inv == TypeOK /\ Held /\ Ordered
  <1>1. Init => Inv
    <2>1. Init => Held /\ Ordered
      BY DEF Init, Held, Ordered, Idle
    <2> QED BY <2>1, TypeInit
  <1>2. Inv /\ [Next]_vars => Inv'
    BY TypeStep, HeldStep, OrderedStep
  <1>3. Inv /\ Inv' /\ [Next]_vars =>
          [\A r \in Requests :
             call[r].pc = "idle" /\ call'[r].pc = "sent" /\ cap > 0 =>
               Cardinality({q \in Requests : Recent(q)'}) <= cap]_vars
    <2> SUFFICES ASSUME Inv, Inv', [Next]_vars, NEW r \in Requests, call[r].pc = "idle",
                        call'[r].pc = "sent", cap > 0
                 PROVE  Cardinality({q \in Requests : Recent(q)'}) <= cap
      OBVIOUS
    <2>1. PICK q \in Requests : Reserve(q)
      <3>1. \A q \in Requests : ~Accept(q) /\ ~Refuse(q) /\ ~Answered(q)
        BY DEF Accept, Refuse, Answered, Succeed, LearnLimit, Break, TypeOK, Idle
      <3>2. call' # call
        OBVIOUS
      <3> QED BY <3>1, <3>2 DEF Next, Refill, Promote, Tick, Report, vars
    <2> QED BY <2>1, CapBinds
  <1> QED BY <1>1, <1>2, <1>3, PTL DEF Spec, InFlightWithinCap

-----------------------------------------------------------------------------
(***************************************************************************)
(* The learned quotas and their stores (QuotaStore).                        *)
(***************************************************************************)

\* Writes that may be in flight.
Flights == [kind : Backends, snapshot : [Models -> Rows], applied : BOOLEAN, ops : SUBSET Models]

\* QuotaTypeOK, and flights form a sequence.
QuotaTyped ==
  /\ day \in 0..MaxDay
  /\ succeeded \in [Models -> [0..MaxDay -> Nat]]
  /\ phase \in {"up", "attaching", "stopping", "stopped", "crashed"}
  /\ backend \in Backends
  /\ mem \in [Models -> Rows] /\ file \in [Models -> Rows]
  /\ docs \in [Models -> Rows] /\ saved \in [Models -> Rows]
  /\ timer \in {"off", "armed", "due"}
  /\ flights \in Seq(Flights)
  /\ disturbed \in BOOLEAN
  /\ stops \in 0..MaxStops

LEMMA QuotaTypedIsTypeOK == QuotaTyped => QuotaTypeOK
<1> SUFFICES ASSUME QuotaTyped PROVE QuotaTypeOK OBVIOUS
<1>1. \A i \in DOMAIN flights : flights[i] \in Flights BY DEF QuotaTyped
<1> QED BY <1>1 DEF QuotaTyped, QuotaTypeOK, Flights

\* Removing from a sequence keeps the rest of it.
LEMMA RemoveAtKeeps ==
  ASSUME NEW S, NEW s \in Seq(S), NEW i \in DOMAIN s
  PROVE  /\ RemoveAt(s, i) \in Seq(S)
         /\ Len(RemoveAt(s, i)) = Len(s) - 1
         /\ \A j \in DOMAIN RemoveAt(s, i) : \E k \in DOMAIN s : RemoveAt(s, i)[j] = s[k]
<1> DEFINE a == SubSeq(s, 1, i - 1)
           b == SubSeq(s, i + 1, Len(s))
<1>1. Len(s) \in Nat /\ i \in 1..Len(s) /\ DOMAIN s = 1..Len(s) BY LenProperties
<1>2. a \in Seq(S) /\ Len(a) = i - 1 /\ \A j \in 1..(i - 1) : a[j] = s[j]
  BY <1>1, SubSeqProperties
<1>3. b \in Seq(S) /\ Len(b) = Len(s) - i /\ \A j \in 1..(Len(s) - i) : b[j] = s[i + j]
  BY <1>1, SubSeqProperties
<1>4. RemoveAt(s, i) = a \o b BY DEF RemoveAt
<1> HIDE DEF a, b
<1>5. /\ a \o b \in Seq(S) /\ Len(a \o b) = Len(a) + Len(b)
      /\ \A j \in 1..(Len(a) + Len(b)) :
           (a \o b)[j] = IF j <= Len(a) THEN a[j] ELSE b[j - Len(a)]
  BY <1>2, <1>3, ConcatProperties
<1> DEFINE c == a \o b
<1> HIDE DEF c
<1>6. c \in Seq(S) /\ Len(c) = Len(s) - 1
      /\ \A j \in 1..(Len(s) - 1) : c[j] = IF j <= i - 1 THEN a[j] ELSE b[j - (i - 1)]
  BY <1>1, <1>2, <1>3, <1>5 DEF c
<1>7. ASSUME NEW j \in 1..(Len(s) - 1)
      PROVE  \E k \in 1..Len(s) : c[j] = s[k]
  <2>1. CASE j <= i - 1
    <3>1. c[j] = s[j] /\ j \in 1..Len(s) BY <2>1, <1>1, <1>2, <1>6
    <3> QED BY <3>1
  <2>2. CASE ~(j <= i - 1)
    <3> DEFINE k == j - (i - 1)
    <3>1. k \in 1..(Len(s) - i) /\ i + k \in 1..Len(s) BY <2>2, <1>1
    <3>2. c[j] = b[k] BY <2>2, <1>6
    <3> HIDE DEF k
    <3> QED BY <3>1, <3>2, <1>3
  <2> QED BY <2>1, <2>2
<1>8. DOMAIN c = 1..(Len(s) - 1) BY <1>6, LenProperties
<1> QED BY <1>1, <1>4, <1>6, <1>7, <1>8 DEF c

-----------------------------------------------------------------------------
(* Types. *)

USE BoundAssumption

LEMMA NoRowType == NoRow \in Rows /\ Nothing \in [Models -> Rows]
BY DEF NoRow, Rows, Nothing, None

LEMMA RollType == ASSUME QuotaTyped, NEW row \in Rows PROVE Roll(row) \in Rows
BY DEF QuotaTyped, Roll, Rows, None

LEMMA Counted ==
  ASSUME NEW row \in Rows, NEW ok, NEW remaining
  PROVE  [row EXCEPT !.ok = ok, !.remaining = remaining] =
           [day |-> row.day, ok |-> ok, learned |-> row.learned, remaining |-> remaining]
<1> DEFINE mid == [row EXCEPT !.ok = ok]
           end == [mid EXCEPT !.remaining = remaining]
<1>1. row = [day |-> row.day, ok |-> row.ok, learned |-> row.learned, remaining |-> row.remaining]
  BY DEF Rows
<1>2. mid = [day |-> row.day, ok |-> ok, learned |-> row.learned, remaining |-> row.remaining]
  BY <1>1
<1>3. end = [day |-> row.day, ok |-> ok, learned |-> row.learned, remaining |-> remaining]
  <2> HIDE DEF mid
  <2> QED BY <1>2
<1> QED BY <1>3

LEMMA Limited ==
  ASSUME NEW row \in Rows, NEW learned, NEW remaining
  PROVE  [row EXCEPT !.learned = learned, !.remaining = remaining] =
           [day |-> row.day, ok |-> row.ok, learned |-> learned, remaining |-> remaining]
<1> DEFINE mid == [row EXCEPT !.learned = learned]
           end == [mid EXCEPT !.remaining = remaining]
<1>1. row = [day |-> row.day, ok |-> row.ok, learned |-> row.learned, remaining |-> row.remaining]
  BY DEF Rows
<1>2. mid = [day |-> row.day, ok |-> row.ok, learned |-> learned, remaining |-> row.remaining]
  BY <1>1
<1>3. end = [day |-> row.day, ok |-> row.ok, learned |-> learned, remaining |-> remaining]
  <2> HIDE DEF mid
  <2> QED BY <1>2
<1> QED BY <1>3

LEMMA PrunedType ==
  ASSUME NEW rows \in [Models -> Rows] PROVE Pruned(rows) \in [Models -> Rows]
BY NoRowType DEF Pruned

LEMMA InitTyped == QuotaInit => QuotaTyped
<1> SUFFICES ASSUME QuotaInit PROVE QuotaTyped OBVIOUS
<1>1. succeeded \in [Models -> [0..MaxDay -> Nat]] BY DEF QuotaInit
<1>2. flights \in Seq(Flights) BY DEF QuotaInit
<1>3. day \in 0..MaxDay /\ stops \in 0..MaxStops BY DEF QuotaInit
<1>4. timer \in {"off", "armed", "due"} /\ disturbed \in BOOLEAN BY DEF QuotaInit
<1> QED BY <1>1, <1>2, <1>3, <1>4, NoRowType DEF QuotaInit, QuotaTyped

\* A write keeps the types, given those of the memory it takes.
LEMMA WriteTyped ==
  ASSUME NEW kind \in Backends, NEW old \in [Models -> Rows], Write(kind, old),
         mem' \in [Models -> Rows], flights \in Seq(Flights), disturbed \in BOOLEAN
  PROVE  /\ flights' \in Seq(Flights)
         /\ saved' \in [Models -> Rows] /\ disturbed' \in BOOLEAN
<1>1. Flight(kind, old) \in Flights BY DEF Flight, Flights
<1>2. Append(flights, Flight(kind, old)) \in Seq(Flights) BY <1>1, AppendProperties
<1> QED BY <1>2 DEF Write

LEMMA RowChangeTyped ==
  ASSUME QuotaTyped, NEW m \in Models, RecordSuccess(m) \/ RecordLimit(m) \/ RecordOther(m) \/ Read(m)
  PROVE  QuotaTyped'
<1>1. mem[m] \in Rows /\ Roll(mem[m]) \in Rows BY RollType DEF QuotaTyped
<1>2. CASE RecordSuccess(m)
  <2> DEFINE row == Roll(mem[m])
             new == [row EXCEPT !.ok = row.ok + 1,
                       !.remaining = IF row.learned = None THEN row.remaining
                                     ELSE Larger(0, row.learned - (row.ok + 1))]
  <2>0. row \in Rows BY <1>1
  <2> HIDE DEF row
  <2>1. new \in Rows
    <3>1. row.ok \in Nat /\ (row.learned = None \/ row.learned \in Nat) BY <2>0 DEF Rows
    <3>2. row.learned # None => Larger(0, row.learned - (row.ok + 1)) \in Nat BY <3>1 DEF Larger
    <3>3. new = [day |-> row.day, ok |-> row.ok + 1, learned |-> row.learned,
                 remaining |-> IF row.learned = None THEN row.remaining
                               ELSE Larger(0, row.learned - (row.ok + 1))]
      BY <2>0, Counted
    <3> QED BY <2>0, <3>1, <3>2, <3>3 DEF Rows
  <2> USE DEF row
  <2>2. mem' = [mem EXCEPT ![m] = new] /\ timer' = "armed" BY <1>2 DEF RecordSuccess, Change
  <2>3. succeeded' \in [Models -> [0..MaxDay -> Nat]] BY <1>2 DEF RecordSuccess, QuotaTyped
  <2> HIDE DEF new
  <2> QED BY <1>2, <2>1, <2>2, <2>3 DEF RecordSuccess, QuotaTyped, control
<1>3. CASE RecordLimit(m)
  <2> DEFINE row == Roll(mem[m])
             new == [row EXCEPT !.learned = Learned(row), !.remaining = 0]
  <2>0. row \in Rows BY <1>1
  <2> HIDE DEF row
  <2>1. new \in Rows BY <2>0 DEF Rows, Larger, Learned, None
  <2> USE DEF row
  <2>2. mem' = [mem EXCEPT ![m] = new] /\ timer' = "armed" BY <1>3 DEF RecordLimit, Change
  <2> HIDE DEF new
  <2> QED BY <1>3, <2>1, <2>2 DEF RecordLimit, QuotaTyped, control, ledger
<1>4. CASE RecordOther(m) \/ Read(m)
  BY <1>1, <1>4 DEF RecordOther, Read, Change, QuotaTyped, control, ledger
<1> QED BY <1>2, <1>3, <1>4

LEMMA LandingTyped ==
  ASSUME QuotaTyped, NEW i \in DOMAIN flights, Landing(i) \/ WriteFails(i)
  PROVE  QuotaTyped'
<1>1. flights \in Seq(Flights) /\ flights[i] \in Flights BY DEF QuotaTyped
<1>2. RemoveAt(flights, i) \in Seq(Flights) BY <1>1, RemoveAtKeeps
<1>3. flights[i].snapshot \in [Models -> Rows] BY <1>1 DEF Flights
<1>4. CASE WriteFile(i)
  BY <1>2, <1>3, <1>4 DEF WriteFile, QuotaTyped, control, ledger
<1>5. CASE ApplyBulk(i)
  <2>1. flights' \in Seq(Flights)
    <3>1. [flights[i] EXCEPT !.applied = TRUE] \in Flights BY <1>1 DEF Flights
    <3> QED BY <3>1, <1>1, <1>5 DEF ApplyBulk
  <2> QED BY <2>1, <1>3, <1>5 DEF ApplyBulk, QuotaTyped, control, ledger
<1>6. CASE BulkReturns(i)
  BY <1>2, <1>3, <1>6 DEF BulkReturns, QuotaTyped, control, ledger
<1>7. CASE WriteFails(i)
  BY <1>2, <1>3, <1>7 DEF WriteFails, QuotaTyped, ledger
<1> QED BY <1>4, <1>5, <1>6, <1>7 DEF Landing

\* The steps that begin or end the process and the timer.
Other ==
  NextDay \/ Elapse \/ TimerFires \/ Shutdown \/ Stopped \/ Crash \/ StartOnFile \/ StartOnMongo \/ Attached

LEMMA OtherTyped == ASSUME QuotaTyped, Other PROVE QuotaTyped'
<1>1. CASE NextDay \/ Elapse BY <1>1 DEF NextDay, Elapse, QuotaTyped, control, ledger
<1>2. CASE TimerFires
  BY <1>2, WriteTyped DEF TimerFires, QuotaTyped, ledger
<1>3. CASE Shutdown
  <2>1. stops' \in 0..MaxStops BY <1>3 DEF Shutdown, QuotaTyped
  <2>2. backend \in Backends /\ ("mongo" = backend \/ "json" = backend) BY DEF QuotaTyped
  <2>3. CASE backend = "json"
    <3>1. disturbed' \in BOOLEAN BY <1>3, <2>3 DEF Shutdown
    <3> QED BY <1>3, <2>1, <2>3, <3>1 DEF Shutdown, QuotaTyped, ledger
  <2>4. CASE backend = "mongo"
    <3>1. Write("mongo", saved) /\ mem' = mem /\ file' = file BY <1>3, <2>4 DEF Shutdown
    <3>2. /\ flights' \in Seq(Flights)
          /\ saved' \in [Models -> Rows] /\ disturbed' \in BOOLEAN
      BY <3>1, <2>2, <2>4, WriteTyped DEF QuotaTyped
    <3> QED BY <1>3, <2>1, <3>1, <3>2 DEF Shutdown, QuotaTyped, ledger
  <2> QED BY <2>2, <2>3, <2>4
<1>4. CASE Stopped BY <1>4 DEF Stopped, QuotaTyped, ledger
<1>5. CASE Crash
  <2>1. stops' \in 0..MaxStops BY <1>5 DEF Crash, QuotaTyped
  <2>2. flights' \in Seq(Flights) /\ mem' = Nothing /\ saved' = Nothing /\ timer' = "off"
    BY <1>5 DEF Crash
  <2> QED BY <1>5, <2>1, <2>2, NoRowType DEF Crash, QuotaTyped, ledger
<1>6. CASE StartOnFile BY <1>6, NoRowType, PrunedType DEF StartOnFile, QuotaTyped, ledger
<1>7. CASE StartOnMongo
  <2>1. Pruned(file) \in [Models -> Rows] /\ Pruned(docs) \in [Models -> Rows]
        /\ Pruned(Pruned(file)) \in [Models -> Rows]
    BY PrunedType DEF QuotaTyped
  <2>2. mem' \in [Models -> Rows] BY <1>7, <2>1 DEF StartOnMongo
  <2> QED BY <1>7, <2>2, WriteTyped DEF StartOnMongo, QuotaTyped, ledger
<1>8. CASE Attached BY <1>8 DEF Attached, QuotaTyped, ledger
<1> QED BY <1>1, <1>2, <1>3, <1>4, <1>5, <1>6, <1>7, <1>8 DEF Other

LEMMA Steps ==
  QuotaNext =>
    \/ \E m \in Models : RecordSuccess(m) \/ RecordLimit(m) \/ RecordOther(m) \/ Read(m)
    \/ \E i \in DOMAIN flights : Landing(i) \/ WriteFails(i)
    \/ Other
BY DEF QuotaNext, Other

LEMMA StepTyped == QuotaTyped /\ [QuotaNext]_quotaVars => QuotaTyped'
<1>1. CASE UNCHANGED quotaVars BY <1>1 DEF QuotaTyped, quotaVars, ledger, control
<1> QED BY <1>1, Steps, RowChangeTyped, LandingTyped, OtherTyped

LEMMA QuotaTypes == QuotaSpec => []QuotaTyped
BY InitTyped, StepTyped, PTL DEF QuotaSpec

\* The learner, its stores and the writes in flight keep their types.
THEOREM QuotaTypeCorrect == QuotaSpec => []QuotaTypeOK
BY QuotaTypes, QuotaTypedIsTypeOK, PTL
-----------------------------------------------------------------------------
(* Every copy of a row is lawful.                                           *)

\* What every copy of a row of m satisfies: it is of no later day, counts no more than
\* happened, learned no more than some day showed, and its rest fits its quota.
Dated(row) == row.day <= day
Counts(m, row) == row.day # None => row.ok <= succeeded[m][row.day]
Shown(m, row) == row.learned # None => \E d \in 0..MaxDay : row.learned <= succeeded[m][d]
Fits(row) == row.learned # None => row.remaining \in {0, Larger(0, row.learned - row.ok)}
Lawful(m, row) == Dated(row) /\ Counts(m, row) /\ Shown(m, row) /\ Fits(row)

\* The tables of lawful rows; all there are of them, in memory, stored and in flight.
LawfulTables == {table \in [Models -> Rows] : \A m \in Models : Lawful(m, table[m])}
AllLawful ==
  /\ mem \in LawfulTables /\ file \in LawfulTables
  /\ docs \in LawfulTables /\ saved \in LawfulTables
  /\ \A i \in DOMAIN flights : flights[i].snapshot \in LawfulTables

LEMMA LawfulCopies == QuotaTyped /\ AllLawful => CountsAreReal /\ RestFitsQuota
<1> SUFFICES ASSUME QuotaTyped, AllLawful, NEW m \in Models, NEW row \in Copies(m)
             PROVE  Lawful(m, row)
  BY DEF CountsAreReal, RestFitsQuota, Lawful, Counts, Shown, Fits
<1> QED BY DEF Copies, AllLawful, LawfulTables

LEMMA NothingLawful == QuotaTyped => Nothing \in LawfulTables
<1> SUFFICES ASSUME QuotaTyped, NEW m \in Models PROVE Lawful(m, NoRow)
  BY NoRowType DEF LawfulTables, Nothing
<1> QED BY DEF QuotaTyped, Lawful, Dated, Counts, Shown, Fits, NoRow, None

LEMMA RollLawful ==
  ASSUME QuotaTyped, NEW m \in Models, NEW row \in Rows, Lawful(m, row)
  PROVE  Lawful(m, Roll(row))
<1>1. CASE row.day = day BY <1>1 DEF Roll
<1>2. CASE row.day # day
  <2> DEFINE new == [day |-> day, ok |-> 0, learned |-> row.learned, remaining |-> row.learned]
  <2>1. Roll(row) = new BY <1>2 DEF Roll
  <2>2. Dated(new) BY DEF QuotaTyped, Dated
  <2>3. Counts(m, new)
    <3>1. succeeded[m][day] \in Nat BY DEF QuotaTyped
    <3> QED BY <3>1 DEF Counts
  <2>4. Shown(m, new) BY DEF Shown, Lawful
  <2>5. Fits(new) BY DEF Fits, Larger, Rows, None
  <2> HIDE DEF new
  <2> QED BY <2>1, <2>2, <2>3, <2>4, <2>5 DEF Lawful
<1> QED BY <1>1, <1>2

LEMMA MixLawful ==
  ASSUME NEW f \in LawfulTables, NEW g \in LawfulTables, NEW D
  PROVE  [m \in Models |-> IF m \in D THEN f[m] ELSE g[m]] \in LawfulTables
BY DEF LawfulTables

LEMMA PrunedLawful ==
  ASSUME QuotaTyped, NEW f \in LawfulTables PROVE Pruned(f) \in LawfulTables
<1>1. Nothing \in LawfulTables BY NothingLawful
<1>2. Pruned(f) \in [Models -> Rows] BY PrunedType DEF LawfulTables
<1>3. \A m \in Models : Pruned(f)[m] \in {f[m], Nothing[m]} BY DEF Pruned, Nothing
<1> QED BY <1>1, <1>2, <1>3 DEF LawfulTables

LEMMA LedgerChanges ==
  [QuotaNext]_quotaVars =>
    UNCHANGED ledger \/ NextDay \/ \E m \in Models : RecordSuccess(m)
<1>1. CASE UNCHANGED quotaVars BY <1>1 DEF quotaVars
<1>2. ASSUME NEW m \in Models, RecordLimit(m) \/ RecordOther(m) \/ Read(m)
      PROVE  UNCHANGED ledger
  BY <1>2 DEF RecordLimit, RecordOther, Read
<1>3. ASSUME NEW i \in DOMAIN flights, Landing(i) \/ WriteFails(i)
      PROVE  UNCHANGED ledger
  BY <1>3 DEF Landing, WriteFile, ApplyBulk, BulkReturns, WriteFails
<1>4. CASE Other
  BY <1>4 DEF Other, Elapse, TimerFires, Shutdown, Stopped, Crash, StartOnFile, StartOnMongo, Attached
<1> QED BY <1>1, <1>2, <1>3, <1>4, Steps

\* What happened only grows, and so do the lawful tables.
LEMMA LawfulStays ==
  ASSUME QuotaTyped, [QuotaNext]_quotaVars PROVE LawfulTables \subseteq LawfulTables'
<1>0. QuotaTyped' BY StepTyped
<1>1. day' \in {day, day + 1} /\ day \in Int
  <2>1. day \in Int BY DEF QuotaTyped
  <2>2. CASE UNCHANGED ledger BY <2>1, <2>2 DEF ledger
  <2>3. CASE NextDay BY <2>1, <2>3 DEF NextDay
  <2>4. CASE \E m \in Models : RecordSuccess(m) BY <2>1, <2>4 DEF RecordSuccess
  <2> QED BY <2>2, <2>3, <2>4, LedgerChanges
<1>2. \A m \in Models : \A d \in 0..MaxDay : succeeded[m][d] <= succeeded'[m][d]
  <2>1. CASE succeeded' = succeeded BY <2>1 DEF QuotaTyped
  <2>2. CASE \E m \in Models : RecordSuccess(m) BY <2>2 DEF QuotaTyped, RecordSuccess
  <2> QED BY <2>1, <2>2, LedgerChanges DEF NextDay, ledger
<1>3. ASSUME NEW m \in Models, NEW row \in Rows, Lawful(m, row) PROVE Lawful(m, row)'
  <2>1. row.day <= day' BY <1>1, <1>3 DEF Lawful, Dated, Rows, None
  <2>2. row.day # None => row.ok <= succeeded'[m][row.day]
    <3> SUFFICES ASSUME row.day # None PROVE row.ok <= succeeded'[m][row.day] OBVIOUS
    <3>1. row.day \in 0..MaxDay /\ row.ok \in Nat BY DEF Rows
    <3>2. succeeded[m][row.day] \in Nat /\ succeeded'[m][row.day] \in Nat
      BY <3>1, <1>0 DEF QuotaTyped
    <3>3. row.ok <= succeeded[m][row.day] BY <1>3 DEF Lawful, Counts
    <3> QED BY <3>1, <3>2, <3>3, <1>2
  <2>3. row.learned # None => \E d \in 0..MaxDay : row.learned <= succeeded'[m][d]
    <3> SUFFICES ASSUME row.learned # None
                 PROVE  \E d \in 0..MaxDay : row.learned <= succeeded'[m][d] OBVIOUS
    <3>1. PICK d \in 0..MaxDay : row.learned <= succeeded[m][d] BY <1>3 DEF Lawful, Shown
    <3>2. row.learned \in Nat BY DEF Rows
    <3>3. succeeded[m][d] \in Nat /\ succeeded'[m][d] \in Nat BY <1>0 DEF QuotaTyped
    <3> QED BY <3>1, <3>2, <3>3, <1>2
  <2>4. Fits(row) BY <1>3 DEF Lawful
  <2> QED BY <2>1, <2>2, <2>3, <2>4 DEF Lawful, Dated, Counts, Shown, Fits
<1> QED BY <1>3 DEF LawfulTables

LEMMA RowChangeLawful ==
  ASSUME QuotaTyped, AllLawful, NEW m \in Models,
         RecordSuccess(m) \/ RecordLimit(m) \/ RecordOther(m) \/ Read(m)
  PROVE  mem' \in LawfulTables'
<1>1. LawfulTables \subseteq LawfulTables' /\ QuotaTyped'
  BY LawfulStays, StepTyped DEF QuotaNext
<1>0. mem[m] \in Rows /\ Roll(mem[m]) \in Rows /\ Lawful(m, Roll(mem[m]))
  BY RollType, RollLawful DEF QuotaTyped, AllLawful, LawfulTables
<1>10. PICK old \in [Models -> Rows] : old = mem /\ old \in LawfulTables'
  BY <1>1 DEF AllLawful, QuotaTyped
<1>2. PICK row \in Rows : row = Roll(mem[m]) /\ Lawful(m, row) BY <1>0
<1>3. row.day = day /\ day \in 0..MaxDay /\ day # None BY <1>2 DEF Roll, QuotaTyped, None
<1>4. row.ok \in Nat /\ (row.learned = None \/ row.learned \in Nat) /\ day' \in Int
  BY <1>1, <1>2 DEF Rows, QuotaTyped
<1>5. succeeded[m][day] \in Nat /\ row.ok <= succeeded[m][day]
  BY <1>2, <1>3 DEF QuotaTyped, Lawful, Counts
<1>6. ASSUME NEW new \in Rows, mem' = [mem EXCEPT ![m] = new], Lawful(m, new)'
      PROVE  mem' \in LawfulTables'
  BY <1>1, <1>6, <1>10 DEF LawfulTables
<1>7. CASE RecordSuccess(m)
  <2> DEFINE rest == IF row.learned = None THEN row.remaining
                     ELSE Larger(0, row.learned - (row.ok + 1))
             new == [day |-> row.day, ok |-> row.ok + 1, learned |-> row.learned,
                     remaining |-> rest]
  <2>1. mem' = [mem EXCEPT ![m] = new]
    <3>1. mem' = [mem EXCEPT ![m] = [row EXCEPT !.ok = row.ok + 1, !.remaining = rest]]
      BY <1>2, <1>7 DEF RecordSuccess, Change
    <3> HIDE DEF rest
    <3>2. [row EXCEPT !.ok = row.ok + 1, !.remaining = rest] = new BY <1>2, Counted
    <3> QED BY <3>1, <3>2
  <2>2. new \in Rows
    <3>1. row.learned # None => Larger(0, row.learned - (row.ok + 1)) \in Nat
      BY <1>4 DEF Larger
    <3> QED BY <3>1, <1>2, <1>4 DEF Rows
  <2>3. day' = day /\ succeeded'[m][day] = succeeded[m][day] + 1
    BY <1>3, <1>7 DEF RecordSuccess, QuotaTyped
  <2>4. Dated(new)' BY <2>3, <1>3 DEF Dated
  <2>5. Counts(m, new)' BY <2>3, <1>3, <1>4, <1>5 DEF Counts
  <2>6. Shown(m, new)'
    <3>1. old[m].learned = row.learned BY <1>2, <1>10 DEF Roll
    <3>3. Shown(m, old[m])' BY <1>10 DEF LawfulTables, Lawful
    <3> QED BY <3>1, <3>3 DEF Shown
  <2>7. Fits(new)' BY DEF Fits
  <2> HIDE DEF new
  <2>8. Lawful(m, new)' BY <2>4, <2>5, <2>6, <2>7 DEF Lawful
  <2> QED BY <1>6, <2>1, <2>2, <2>8
<1>8. CASE RecordLimit(m)
  <2> DEFINE new == [day |-> row.day, ok |-> row.ok, learned |-> Learned(row), remaining |-> 0]
  <2>1. mem' = [mem EXCEPT ![m] = new]
    <3>1. mem' = [mem EXCEPT ![m] = [row EXCEPT !.learned = Learned(row), !.remaining = 0]]
      BY <1>2, <1>8 DEF RecordLimit, Change
    <3>2. [row EXCEPT !.learned = Learned(row), !.remaining = 0] = new
      BY <1>2, Limited
    <3> QED BY <3>1, <3>2
  <2>2. new \in Rows BY <1>2, <1>4 DEF Rows, Learned, Larger, None
  <2>3. day' = day /\ succeeded' = succeeded BY <1>8 DEF RecordLimit, ledger
  <2>4. Dated(new)' BY <2>3, <1>3 DEF Dated
  <2>5. Counts(m, new)' BY <2>3, <1>3, <1>5 DEF Counts
  <2>6. Shown(m, new)'
    <3>1. CASE Learned(row) = row.learned BY <1>2, <2>3, <3>1 DEF Shown, Lawful
    <3>2. CASE Learned(row) = row.ok BY <1>3, <1>5, <2>3, <3>2 DEF Shown
    <3> QED BY <3>1, <3>2 DEF Learned, Larger
  <2>7. Fits(new)' BY DEF Fits
  <2> HIDE DEF new
  <2>8. Lawful(m, new)' BY <2>4, <2>5, <2>6, <2>7 DEF Lawful
  <2> QED BY <1>6, <2>1, <2>2, <2>8
<1>9. CASE RecordOther(m) \/ Read(m)
  <2>1. mem' = [mem EXCEPT ![m] = row] BY <1>2, <1>9 DEF RecordOther, Read, Change
  <2>2. day' = day /\ succeeded' = succeeded BY <1>9 DEF RecordOther, Read, ledger
  <2>3. Lawful(m, row)' BY <1>2, <2>2 DEF Lawful, Dated, Counts, Shown, Fits
  <2> QED BY <1>2, <1>6, <2>1, <2>3
<1> QED BY <1>7, <1>8, <1>9

\* What is in flight after a step was there before or is what memory now holds.
LEMMA SnapshotsTravel ==
  ASSUME QuotaTyped, QuotaNext, QuotaTyped'
  PROVE  \A i \in DOMAIN flights' :
           \/ flights'[i].snapshot = mem'
           \/ \E j \in DOMAIN flights : flights'[i].snapshot = flights[j].snapshot
<1> DEFINE Old == \A i \in DOMAIN flights' : \E j \in DOMAIN flights :
                    flights'[i].snapshot = flights[j].snapshot
<1>1. flights \in Seq(Flights) BY DEF QuotaTyped
<1>2. ASSUME NEW kind \in Backends, NEW old, Write(kind, old)
      PROVE  \A i \in DOMAIN flights' :
               \/ flights'[i].snapshot = mem'
               \/ \E j \in DOMAIN flights : flights'[i].snapshot = flights[j].snapshot
  <2>1. CASE UNCHANGED flights BY <2>1
  <2>2. CASE flights' = Append(flights, Flight(kind, old))
    <3>1. Flight(kind, old) \in Flights BY DEF Flight, Flights, QuotaTyped
    <3>2. ASSUME NEW i \in DOMAIN flights'
          PROVE  flights'[i] = Flight(kind, old) \/ (i \in DOMAIN flights /\ flights'[i] = flights[i])
      <4>1. i \in 1..(Len(flights) + 1) /\ DOMAIN flights = 1..Len(flights) /\ Len(flights) \in Nat
        BY <1>1, <2>2, <3>1, AppendProperties, LenProperties
      <4> QED BY <4>1, <1>1, <2>2, <3>1, AppendProperties
    <3>3. Flight(kind, old).snapshot = mem' BY DEF Flight
    <3> QED BY <3>2, <3>3
  <2> QED BY <1>2, <2>1, <2>2 DEF Write
<1>3. CASE \E m \in Models : RecordSuccess(m) \/ RecordLimit(m) \/ RecordOther(m) \/ Read(m)
  BY <1>3 DEF RecordSuccess, RecordLimit, RecordOther, Read
<1>4. ASSUME NEW i \in DOMAIN flights, Landing(i) \/ WriteFails(i) PROVE Old
  <2>1. CASE flights' = RemoveAt(flights, i)
    <3>1. \A j \in DOMAIN flights' : \E k \in DOMAIN flights : flights'[j] = flights[k]
      BY <1>1, <2>1, RemoveAtKeeps
    <3> QED BY <3>1
  <2>2. CASE ApplyBulk(i)
    <3>1. flights' = [flights EXCEPT ![i].applied = TRUE] BY <2>2 DEF ApplyBulk
    <3>2. flights[i] \in Flights BY <1>1
    <3>3. [flights[i] EXCEPT !.applied = TRUE].snapshot = flights[i].snapshot BY <3>2 DEF Flights
    <3> QED BY <3>1, <3>3
  <2> QED BY <1>4, <2>1, <2>2 DEF Landing, WriteFile, BulkReturns, WriteFails
<1>5. CASE TimerFires \/ Shutdown \/ StartOnMongo
  <2>1. "mongo" \in Backends /\ StartOnMongo => Write("mongo", docs) BY DEF StartOnMongo
  <2>2. backend \in Backends BY DEF QuotaTyped
  <2>3. TimerFires => Write(backend, saved) BY DEF TimerFires
  <2>4. StartOnMongo => "mongo" \in Backends BY DEF StartOnMongo
  <2>5. Shutdown => flights' = flights \/ (backend = "mongo" /\ Write("mongo", saved))
    BY <2>2, BoundAssumption DEF Shutdown
  <2> QED BY <1>2, <1>5, <2>1, <2>2, <2>3, <2>4, <2>5
<1>6. CASE NextDay \/ Elapse \/ Stopped \/ Crash \/ StartOnFile \/ Attached
  BY <1>6 DEF NextDay, Elapse, Stopped, Crash, StartOnFile, Attached
<1> QED BY <1>3, <1>4, <1>5, <1>6, Steps DEF Other

LEMMA MemLawful == QuotaTyped /\ AllLawful /\ QuotaNext => mem' \in LawfulTables'
<1> SUFFICES ASSUME QuotaTyped, AllLawful, QuotaNext PROVE mem' \in LawfulTables' OBVIOUS
<1>1. LawfulTables \subseteq LawfulTables' BY LawfulStays
<1>2. CASE \E m \in Models : RecordSuccess(m) \/ RecordLimit(m) \/ RecordOther(m) \/ Read(m)
  BY <1>2, RowChangeLawful
<1>3. CASE \E i \in DOMAIN flights : Landing(i) \/ WriteFails(i)
  BY <1>1, <1>3 DEF Landing, WriteFile, ApplyBulk, BulkReturns, WriteFails, AllLawful
<1>4. CASE NextDay \/ Elapse \/ TimerFires \/ Shutdown \/ Stopped \/ Attached
  BY <1>1, <1>4 DEF NextDay, Elapse, TimerFires, Shutdown, Stopped, Attached, AllLawful
<1>5. CASE Crash BY <1>1, <1>5, NothingLawful DEF Crash
<1>6. CASE StartOnFile \/ StartOnMongo
  <2>1. /\ Pruned(file) \in LawfulTables /\ Pruned(docs) \in LawfulTables
        /\ Pruned(Pruned(file)) \in LawfulTables
    BY PrunedLawful DEF AllLawful
  <2>2. mem' \in LawfulTables BY <1>6, <2>1 DEF StartOnFile, StartOnMongo
  <2> QED BY <1>1, <2>2
<1> QED BY <1>2, <1>3, <1>4, <1>5, <1>6, Steps DEF Other

LEMMA StepLawful == QuotaTyped /\ AllLawful /\ [QuotaNext]_quotaVars => AllLawful'
<1> SUFFICES ASSUME QuotaTyped, AllLawful, [QuotaNext]_quotaVars PROVE AllLawful' OBVIOUS
<1>1. LawfulTables \subseteq LawfulTables' /\ QuotaTyped' BY LawfulStays, StepTyped
<1>2. CASE UNCHANGED quotaVars
  BY <1>1, <1>2 DEF AllLawful, quotaVars
<1>3. CASE QuotaNext
  <2>1. mem' \in LawfulTables' BY <1>3, MemLawful
  <2>2. \A i \in DOMAIN flights' : flights'[i].snapshot \in LawfulTables'
    BY <1>1, <1>3, <2>1, SnapshotsTravel DEF AllLawful
  <2>3. file' \in LawfulTables' /\ docs' \in LawfulTables' /\ saved' \in LawfulTables'
    <3>1. CASE \E m \in Models : RecordSuccess(m) \/ RecordLimit(m) \/ RecordOther(m) \/ Read(m)
      BY <1>1, <3>1 DEF RecordSuccess, RecordLimit, RecordOther, Read, AllLawful
    <3>2. ASSUME NEW i \in DOMAIN flights, Landing(i) \/ WriteFails(i)
          PROVE  file' \in LawfulTables' /\ docs' \in LawfulTables' /\ saved' \in LawfulTables'
      <4>1. flights[i].snapshot \in LawfulTables /\ docs \in LawfulTables BY DEF AllLawful
      <4>2. docs' = docs \/ \E D : docs' = [m \in Models |-> IF m \in D THEN flights[i].snapshot[m]
                                                            ELSE docs[m]]
        BY <3>2 DEF Landing, WriteFile, ApplyBulk, BulkReturns, WriteFails
      <4>3. docs' \in LawfulTables BY <4>1, <4>2, MixLawful
      <4> QED BY <1>1, <3>2, <4>1, <4>3
            DEF Landing, WriteFile, ApplyBulk, BulkReturns, WriteFails, AllLawful
    <3>3. CASE NextDay \/ Elapse \/ Stopped \/ Attached
      BY <1>1, <3>3 DEF NextDay, Elapse, Stopped, Attached, AllLawful
    <3>4. CASE TimerFires \/ Shutdown \/ StartOnMongo
      BY <1>1, <2>1, <3>4 DEF TimerFires, Shutdown, StartOnMongo, Write, AllLawful
    <3>5. CASE Crash \/ StartOnFile
      <4>1. Nothing \in LawfulTables BY NothingLawful
      <4> QED BY <1>1, <3>5, <4>1 DEF Crash, StartOnFile, AllLawful
    <3> QED BY <1>3, <3>1, <3>2, <3>3, <3>4, <3>5, Steps DEF Other
  <2> QED BY <2>1, <2>2, <2>3 DEF AllLawful
<1> QED BY <1>2, <1>3

LEMMA InitLawful == QuotaInit => AllLawful
BY InitTyped, NothingLawful DEF QuotaInit, AllLawful

LEMMA LawfulAlways == QuotaSpec => [](QuotaTyped /\ AllLawful)
BY InitTyped, InitLawful, StepTyped, StepLawful, PTL DEF QuotaSpec

\* No copy of a row, in memory, stored or on its way, counts a success twice or has
\* learned a quota that no day showed.
THEOREM QuotaCountsAreReal == QuotaSpec => []CountsAreReal
BY LawfulAlways, LawfulCopies, PTL

\* What a row says remains is what its quota leaves, or nothing.
THEOREM QuotaRestFits == QuotaSpec => []RestFitsQuota
BY LawfulAlways, LawfulCopies, PTL

-----------------------------------------------------------------------------
(* What is stored and what memory holds.                                    *)

\* Only while the process is up does the timer run, and at rest nothing is in flight.
Resting ==
  /\ phase # "up" => timer = "off"
  /\ phase \in {"stopped", "crashed"} => flights = <<>>

\* Writes in flight are the present backend's.
OwnFlights ==
  \A i \in DOMAIN flights :
    flights[i].kind = backend /\ (flights[i].applied => backend = "mongo")

OneAtATime == ~disturbed => Len(flights) <= 1

\* A stored row stands for the row in memory.
Agree(s, r) == Roll(s) = Roll(r) \/ (r = NoRow /\ s.day < day - PruneDays)

\* What the store will hold when the one write in flight is done.
Latest == IF flights = <<>> THEN Stored ELSE flights[1].snapshot

\* MongoState knows what the collection holds, or writes all that differs from it.
MongoKnown ==
  IF flights = <<>> THEN saved = docs
  ELSE IF flights[1].applied THEN docs = flights[1].snapshot
  ELSE saved = docs /\ flights[1].ops = {m \in Models : flights[1].snapshot[m] # docs[m]}

Undisturbed == ~disturbed

CaughtUp ==
  Undisturbed /\ phase # "crashed" =>
    /\ backend = "mongo" => MongoKnown
    /\ timer = "off" => \A m \in Models : Agree(Latest[m], mem[m])

\* A row never returns to what it was: its day, then its count, then its quota grows, or
\* its rest is gone.
Past(r, s) ==
  \/ r.day < s.day
  \/ r.day = s.day /\ r.ok < s.ok
  \/ r.day = s.day /\ r.ok = s.ok /\ r.learned < s.learned
  \/ r.day = s.day /\ r.ok = s.ok /\ r.learned = s.learned /\ r.remaining # 0 /\ s.remaining = 0

Onward(f, g) == \A m \in Models : f[m] = g[m] \/ Past(f[m], g[m])

\* So memory cannot come back to what was last saved while a write of something else is
\* in flight, and a timer that finds nothing to write finds nothing in flight.
Forward ==
  Undisturbed /\ backend = "mongo" =>
    /\ phase = "up" =>
         /\ Onward(saved, mem)
         /\ flights # <<>> =>
              Onward(flights[1].snapshot, mem) /\ \E m \in Models : Past(saved[m], mem[m])
    /\ phase = "attaching" => mem = IF flights = <<>> THEN saved ELSE flights[1].snapshot

Kept ==
  /\ QuotaTyped /\ AllLawful
  /\ Resting /\ OwnFlights /\ OneAtATime /\ CaughtUp /\ Forward

LEMMA KeptIsStored == Kept => StoredWhenQuiet
BY DEF Kept, CaughtUp, Undisturbed, Latest, Agree, StoredWhenQuiet, Quiet, HoldsMemory

LEMMA PastGoesOn ==
  ASSUME NEW r \in Rows, NEW s \in Rows, NEW t \in Rows
  PROVE  ~Past(r, r) /\ (Past(r, s) /\ Past(s, t) => Past(r, t))
<1>1. r.day \in Int /\ s.day \in Int /\ t.day \in Int BY DEF Rows, None
<1>2. r.ok \in Int /\ s.ok \in Int /\ t.ok \in Int BY DEF Rows
<1>3. r.learned \in Int /\ s.learned \in Int /\ t.learned \in Int BY DEF Rows, None
<1> QED BY <1>1, <1>2, <1>3 DEF Past

LEMMA OnwardGoesOn ==
  ASSUME NEW f \in [Models -> Rows], NEW g \in [Models -> Rows], NEW h \in [Models -> Rows],
         Onward(f, g), Onward(g, h)
  PROVE  Onward(f, h) /\ \A m \in Models : Past(f[m], g[m]) => Past(f[m], h[m])
<1> SUFFICES ASSUME NEW m \in Models
             PROVE  /\ f[m] = h[m] \/ Past(f[m], h[m])
                    /\ Past(f[m], g[m]) => Past(f[m], h[m])
  BY DEF Onward
<1>1. f[m] \in Rows /\ g[m] \in Rows /\ h[m] \in Rows OBVIOUS
<1>2. Past(f[m], g[m]) /\ Past(g[m], h[m]) => Past(f[m], h[m]) BY <1>1, PastGoesOn
<1>3. (f[m] = g[m] \/ Past(f[m], g[m])) /\ (g[m] = h[m] \/ Past(g[m], h[m])) BY DEF Onward
<1> QED BY <1>2, <1>3

LEMMA OnwardSame == ASSUME NEW f PROVE Onward(f, f)
BY DEF Onward

\* The learner moves a row onward.
LEMMA RowOnward ==
  ASSUME QuotaTyped, AllLawful, NEW m \in Models,
         RecordSuccess(m) \/ RecordLimit(m) \/ RecordOther(m) \/ Read(m)
  PROVE  Onward(mem, mem')
<1>1. mem[m] \in Rows /\ Roll(mem[m]) \in Rows /\ mem[m].day <= day
  BY RollType DEF QuotaTyped, AllLawful, LawfulTables, Lawful, Dated
<1>2. PICK row \in Rows : row = Roll(mem[m]) BY <1>1
<1>3. mem[m] = row \/ Past(mem[m], row)
  BY <1>1, <1>2 DEF Roll, Past, Rows, None, QuotaTyped
<1>4. ASSUME NEW new \in Rows, mem' = [mem EXCEPT ![m] = new], row = new \/ Past(row, new)
      PROVE  Onward(mem, mem')
  <2>1. mem[m] = new \/ Past(mem[m], new) BY <1>1, <1>3, <1>4, PastGoesOn
  <2> QED BY <1>4, <2>1 DEF Onward, QuotaTyped
<1>5. row.ok \in Nat /\ row.day \in Int /\ row.learned \in Int BY DEF Rows, None
<1>6. CASE RecordSuccess(m)
  <2> DEFINE rest == IF row.learned = None THEN row.remaining
                     ELSE Larger(0, row.learned - (row.ok + 1))
             new == [day |-> row.day, ok |-> row.ok + 1, learned |-> row.learned,
                     remaining |-> rest]
  <2>1. mem' = [mem EXCEPT ![m] = new]
    <3>1. mem' = [mem EXCEPT ![m] = [row EXCEPT !.ok = row.ok + 1, !.remaining = rest]]
      BY <1>2, <1>6 DEF RecordSuccess, Change
    <3> HIDE DEF rest
    <3>2. [row EXCEPT !.ok = row.ok + 1, !.remaining = rest] = new BY <1>2, Counted
    <3> QED BY <3>1, <3>2
  <2>2. new \in Rows
    <3>1. row.learned # None => Larger(0, row.learned - (row.ok + 1)) \in Nat
      BY <1>5 DEF Larger
    <3> QED BY <3>1, <1>2, <1>5 DEF Rows
  <2>3. Past(row, new) BY <1>5 DEF Past
  <2> HIDE DEF new
  <2> QED BY <1>4, <2>1, <2>2, <2>3
<1>7. CASE RecordLimit(m)
  <2> DEFINE new == [day |-> row.day, ok |-> row.ok, learned |-> Learned(row), remaining |-> 0]
  <2>1. mem' = [mem EXCEPT ![m] = new]
    <3>1. mem' = [mem EXCEPT ![m] = [row EXCEPT !.learned = Learned(row), !.remaining = 0]]
      BY <1>2, <1>7 DEF RecordLimit, Change
    <3>2. [row EXCEPT !.learned = Learned(row), !.remaining = 0] = new
      BY <1>2, Limited
    <3> QED BY <3>1, <3>2
  <2>2. new \in Rows BY <1>2, <1>5 DEF Rows, Learned, Larger, None
  <2>3. row = new \/ Past(row, new)
    <3>1. row = [day |-> row.day, ok |-> row.ok, learned |-> row.learned,
                 remaining |-> row.remaining]
      BY DEF Rows
    <3>2. row.learned <= Learned(row) /\ Learned(row) \in Int BY <1>5 DEF Learned, Larger
    <3>3. CASE row.learned < Learned(row) BY <3>3 DEF Past
    <3>4. CASE row.learned = Learned(row) /\ row.remaining # 0 BY <3>4 DEF Past
    <3>5. CASE row.learned = Learned(row) /\ row.remaining = 0 BY <3>1, <3>5
    <3> QED BY <1>5, <3>2, <3>3, <3>4, <3>5
  <2> HIDE DEF new
  <2> QED BY <1>4, <2>1, <2>2, <2>3
<1>8. CASE RecordOther(m) \/ Read(m)
  <2>1. mem' = [mem EXCEPT ![m] = row] BY <1>2, <1>8 DEF RecordOther, Read, Change
  <2> QED BY <1>4, <2>1
<1> QED BY <1>6, <1>7, <1>8

\* A write that does not overlap another finds nothing to do, or is the only one.
LEMMA WriteAlone ==
  ASSUME QuotaTyped, QuotaTyped', NEW kind \in Backends, NEW old \in [Models -> Rows],
         Write(kind, old), ~disturbed'
  PROVE  \/ /\ kind = "mongo" /\ mem' = old /\ saved' = mem'
            /\ flights' = flights /\ disturbed' = disturbed
         \/ /\ ~disturbed /\ flights = <<>> /\ saved' = old
            /\ flights' # <<>> /\ Len(flights') = 1
            /\ flights'[1].kind = kind /\ flights'[1].snapshot = mem' /\ ~flights'[1].applied
            /\ flights'[1].ops = {m \in Models : kind = "mongo" /\ mem'[m] # old[m]}
            /\ kind = "mongo" => \E m \in Models : mem'[m] # old[m]
<1>1. mem' \in [Models -> Rows] BY DEF QuotaTyped
<1>2. Flight(kind, old).ops = {m \in Models : kind = "mongo" /\ mem'[m] # old[m]} BY DEF Flight
<1>3. CASE kind = "mongo" /\ Flight(kind, old).ops = {}
  <2>1. \A m \in Models : mem'[m] = old[m] BY <1>2, <1>3
  <2>2. mem' = old BY <1>1, <2>1
  <2> QED BY <1>3, <2>2 DEF Write
<1>4. CASE ~(kind = "mongo" /\ Flight(kind, old).ops = {})
  <2>1. /\ flights' = Append(flights, Flight(kind, old)) /\ saved' = old
        /\ disturbed' = (disturbed \/ flights # <<>>)
    BY <1>4 DEF Write
  <2>2. flights = <<>> /\ ~disturbed BY <2>1
  <2>3. flights' = <<Flight(kind, old)>> BY <2>1, <2>2
  <2>4. flights' # <<>> /\ Len(flights') = 1 /\ flights'[1] = Flight(kind, old) BY <2>3
  <2>5. kind = "mongo" => \E m \in Models : mem'[m] # old[m] BY <1>2, <1>4
  <2>6. /\ Flight(kind, old).kind = kind /\ Flight(kind, old).snapshot = mem'
        /\ ~Flight(kind, old).applied
    BY DEF Flight
  <2> QED BY <1>2, <2>1, <2>2, <2>4, <2>5, <2>6
<1> QED BY <1>3, <1>4

LEMMA OnlyFlight ==
  ASSUME QuotaTyped, OneAtATime, ~disturbed, NEW i \in DOMAIN flights
  PROVE  /\ i = 1 /\ flights # <<>> /\ Len(flights) = 1 /\ DOMAIN flights = {1}
         /\ RemoveAt(flights, i) = <<>>
<1>1. flights \in Seq(Flights) BY DEF QuotaTyped
<1>2. Len(flights) \in Nat /\ DOMAIN flights = 1..Len(flights) BY <1>1, LenProperties
<1>3. Len(flights) <= 1 BY DEF OneAtATime
<1>4. i = 1 /\ Len(flights) = 1 BY <1>2, <1>3
<1>5. RemoveAt(flights, i) \in Seq(Flights) /\ Len(RemoveAt(flights, i)) = 0
  BY <1>1, <1>4, RemoveAtKeeps
<1>6. RemoveAt(flights, i) = <<>> BY <1>5, EmptySeq
<1> QED BY <1>2, <1>4, <1>6

LEMMA RollAgain ==
  ASSUME NEW s, NEW r, Agree(s, r), r.learned # None PROVE Agree(s, Roll(r))
BY DEF Agree, Roll, NoRow

\* A change of a row in memory: the stores and what is in flight stay as they were.
LEMMA RowKept ==
  ASSUME Kept, QuotaTyped', AllLawful', NEW m \in Models,
         RecordSuccess(m) \/ RecordLimit(m) \/ RecordOther(m) \/ Read(m)
  PROVE  Kept'
<1>1. /\ UNCHANGED <<phase, backend, disturbed, file, docs, saved, flights, day>>
      /\ phase = "up"
  BY DEF RecordSuccess, RecordLimit, RecordOther, Read, control, ledger
<1>2. timer' = "armed" \/ (Read(m) /\ timer' = timer)
  BY DEF RecordSuccess, RecordLimit, RecordOther, Read, Change
<1>3. Resting' /\ OwnFlights' /\ OneAtATime'
  BY <1>1 DEF Kept, Resting, OwnFlights, OneAtATime
<1>4. CaughtUp'
  <2>1. Undisturbed' /\ phase' # "crashed" /\ backend' = "mongo" => MongoKnown'
    BY <1>1 DEF Kept, CaughtUp, Undisturbed, MongoKnown
  <2>2. ASSUME Undisturbed', phase' # "crashed", timer' = "off", NEW k \in Models
        PROVE  Agree(Latest[k], mem[k])'
    <3>1. Read(m) /\ timer' = timer BY <1>2, <2>2
    <3>2. Agree(Latest[k], mem[k])
      BY <1>1, <2>2, <3>1 DEF Kept, CaughtUp, Undisturbed
    <3>3. mem[k].learned # None => Agree(Latest[k], Roll(mem[k])) BY <3>2, RollAgain
    <3>4. mem'[k] = mem[k] \/ (mem'[k] = Roll(mem[k]) /\ mem[k].learned # None)
      BY <3>1 DEF Read, Kept, QuotaTyped
    <3>5. Latest' = Latest BY <1>1 DEF Latest, Stored
    <3> QED BY <1>1, <3>2, <3>3, <3>4, <3>5 DEF Agree, Roll
  <2> QED BY <2>1, <2>2 DEF CaughtUp
<1>5. Forward'
  <2>1. Onward(mem, mem') BY RowOnward DEF Kept
  <2> SUFFICES ASSUME Undisturbed, backend = "mongo"
               PROVE  /\ Onward(saved, mem')
                      /\ flights # <<>> => /\ Onward(flights[1].snapshot, mem')
                                           /\ \E k \in Models : Past(saved[k], mem'[k])
    BY <1>1 DEF Forward, Undisturbed, Onward, Past
  <2>2. /\ Onward(saved, mem)
        /\ flights # <<>> => /\ Onward(flights[1].snapshot, mem)
                             /\ \E k \in Models : Past(saved[k], mem[k])
    BY <1>1 DEF Kept, Forward
  <2>3. saved \in [Models -> Rows] /\ mem \in [Models -> Rows] /\ mem' \in [Models -> Rows]
    BY DEF Kept, QuotaTyped
  <2>4. Onward(saved, mem') /\ \A k \in Models : Past(saved[k], mem[k]) => Past(saved[k], mem'[k])
    BY <2>1, <2>2, <2>3, OnwardGoesOn
  <2>5. flights # <<>> => flights[1].snapshot \in [Models -> Rows]
    <3>1. flights \in Seq(Flights) BY DEF Kept, QuotaTyped
    <3> SUFFICES ASSUME flights # <<>> PROVE flights[1].snapshot \in [Models -> Rows] OBVIOUS
    <3>2. Len(flights) \in Nat /\ Len(flights) # 0 BY <3>1, LenProperties, EmptySeq
    <3>3. flights[1] \in Flights BY <3>1, <3>2
    <3> QED BY <3>3 DEF Flights
  <2>6. flights # <<>> => Onward(flights[1].snapshot, mem')
    BY <2>1, <2>2, <2>3, <2>5, OnwardGoesOn
  <2> QED BY <2>2, <2>4, <2>6
<1> QED BY <1>3, <1>4, <1>5 DEF Kept

\* The delay passes: the timer still runs.
LEMMA ElapseKept == ASSUME Kept, QuotaTyped', AllLawful', Elapse PROVE Kept'
<1>1. /\ UNCHANGED <<phase, backend, disturbed, mem, file, docs, saved, flights, day>>
      /\ timer = "armed" /\ timer' = "due"
  BY DEF Elapse, control, ledger
<1>2. MongoKnown' = MongoKnown BY <1>1 DEF MongoKnown
<1>3. phase = "up" BY <1>1 DEF Kept, Resting
<1>4. Resting' /\ OwnFlights' /\ OneAtATime'
  BY <1>1, <1>3 DEF Kept, Resting, OwnFlights, OneAtATime
<1>5. CaughtUp' BY <1>1, <1>2 DEF Kept, CaughtUp, Undisturbed
<1>6. Forward' BY <1>1 DEF Kept, Forward, Undisturbed, Onward, Past
<1> QED BY <1>4, <1>5, <1>6 DEF Kept

\* Rows that agree today agree tomorrow, none being dated ahead.
LEMMA DayKept == ASSUME Kept, QuotaTyped', AllLawful', NextDay PROVE Kept'
<1>1. /\ UNCHANGED <<phase, backend, disturbed, mem, timer, file, docs, saved, flights>>
      /\ day' = day + 1 /\ day \in Int
  BY DEF NextDay, control, Kept, QuotaTyped
<1>2. ASSUME NEW s \in Rows, NEW r \in Rows, s.day <= day, r.day <= day, Agree(s, r)
      PROVE  Agree(s, r)'
  <2>1. s.day \in Int /\ r.day \in Int /\ PruneDays \in Int BY DEF Rows, None
  <2>2. CASE r = NoRow /\ s.day < day - PruneDays BY <1>1, <2>1, <2>2 DEF Agree
  <2>3. CASE Roll(s) = Roll(r)
    <3>1. Roll(s).learned = s.learned /\ Roll(r).learned = r.learned BY DEF Roll
    <3>2. s.day # day' /\ r.day # day' BY <1>1, <1>2, <2>1
    <3>3. Roll(s)' = Roll(r)' BY <2>3, <3>1, <3>2 DEF Roll
    <3> QED BY <3>3 DEF Agree, Roll
  <2> QED BY <1>2, <2>2, <2>3 DEF Agree
<1>3. Latest' = Latest BY <1>1 DEF Latest, Stored
<1>4. Latest \in LawfulTables /\ mem \in LawfulTables
  <2>1. flights \in Seq(Flights) BY DEF Kept, QuotaTyped
  <2>2. flights # <<>> => 1 \in DOMAIN flights BY <2>1, LenProperties, EmptySeq
  <2> QED BY <2>2 DEF Latest, Stored, Kept, AllLawful
<1>5. ASSUME NEW m \in Models, Agree(Latest[m], mem[m]) PROVE Agree(Latest[m], mem[m])'
  <2>1. PICK s \in Rows, r \in Rows : s = Latest[m] /\ r = mem[m] /\ s.day <= day /\ r.day <= day
    BY <1>4 DEF LawfulTables, Lawful, Dated
  <2>2. Agree(s, r)' BY <1>2, <1>5, <2>1
  <2> QED BY <1>1, <1>3, <2>1, <2>2 DEF Agree, Roll
<1>6. Resting' /\ OwnFlights' /\ OneAtATime'
  BY <1>1 DEF Kept, Resting, OwnFlights, OneAtATime
<1>7. CaughtUp'
  <2>1. Undisturbed' /\ phase' # "crashed" /\ backend' = "mongo" => MongoKnown'
    BY <1>1 DEF Kept, CaughtUp, Undisturbed, MongoKnown
  <2>2. ASSUME Undisturbed', phase' # "crashed", timer' = "off", NEW k \in Models
        PROVE  Agree(Latest[k], mem[k])'
    BY <1>1, <1>5, <2>2 DEF Kept, CaughtUp, Undisturbed
  <2> QED BY <2>1, <2>2 DEF CaughtUp
<1>8. Forward' BY <1>1 DEF Kept, Forward, Undisturbed, Onward, Past
<1> QED BY <1>6, <1>7, <1>8 DEF Kept

LEMMA AgreeSame == ASSUME NEW s PROVE Agree(s, s)'
BY DEF Agree, Roll

\* A write that begins while the process is up, by the timer or at the shutdown.
LEMMA BeginsKept ==
  ASSUME Kept, QuotaTyped', AllLawful', phase = "up", Write(backend, saved),
         UNCHANGED <<backend, mem, docs>>, file' = file, timer' = "off",
         phase' \in {"up", "stopping"}
  PROVE  Kept'
<1>1. backend \in Backends /\ saved \in [Models -> Rows] /\ mem \in [Models -> Rows]
      /\ disturbed \in BOOLEAN /\ flights \in Seq(Flights)
  BY DEF Kept, QuotaTyped
<1>2. Resting' BY DEF Resting
<1>3. OwnFlights'
  <2>1. CASE UNCHANGED flights BY <2>1 DEF Kept, OwnFlights
  <2>2. CASE flights' = Append(flights, Flight(backend, saved))
    <3>1. Flight(backend, saved) \in Flights
      BY <1>1 DEF Flight, Flights, QuotaTyped
    <3>2. Flight(backend, saved).kind = backend /\ ~Flight(backend, saved).applied BY DEF Flight
    <3>3. ASSUME NEW i \in DOMAIN flights'
          PROVE  flights'[i] = Flight(backend, saved) \/ (i \in DOMAIN flights /\ flights'[i] = flights[i])
      <4>1. i \in 1..(Len(flights) + 1) /\ DOMAIN flights = 1..Len(flights) /\ Len(flights) \in Nat
        BY <1>1, <2>2, <3>1, AppendProperties, LenProperties
      <4> QED BY <4>1, <1>1, <2>2, <3>1, AppendProperties
    <3> QED BY <3>2, <3>3 DEF Kept, OwnFlights
  <2> QED BY <2>1, <2>2 DEF Write
<1>4. CASE disturbed'
  BY <1>2, <1>3, <1>4 DEF Kept, OneAtATime, CaughtUp, Forward, Undisturbed
<1>5. CASE ~disturbed'
  <2> DEFINE Nothing1 == /\ backend = "mongo" /\ mem' = saved /\ saved' = mem'
                         /\ flights' = flights /\ disturbed' = disturbed
  <2>1. CASE Nothing1
    <3>1. OneAtATime' BY <2>1 DEF Kept, OneAtATime
    <3>2. ASSUME Undisturbed PROVE flights = <<>> /\ saved = docs
      <4>1. \A m \in Models : ~Past(saved[m], mem[m]) BY <1>1, <2>1, PastGoesOn
      <4>2. flights = <<>> BY <2>1, <3>2, <4>1 DEF Kept, Forward
      <4> QED BY <2>1, <3>2, <4>2 DEF Kept, CaughtUp, MongoKnown
    <3>3. Undisturbed' => Undisturbed BY <2>1 DEF Undisturbed
    <3>4. CaughtUp'
      BY <2>1, <3>2, <3>3, AgreeSame DEF CaughtUp, MongoKnown, Latest, Stored
    <3>5. Onward(saved, mem)' BY <2>1 DEF Onward
    <3>6. Forward' BY <2>1, <3>2, <3>3, <3>5 DEF Forward
    <3> QED BY <1>2, <1>3, <3>1, <3>4, <3>6 DEF Kept
  <2>2. CASE ~Nothing1
    <3>1. /\ ~disturbed /\ flights = <<>> /\ saved' = saved
          /\ flights' # <<>> /\ Len(flights') = 1
          /\ flights'[1].kind = backend /\ flights'[1].snapshot = mem' /\ ~flights'[1].applied
          /\ flights'[1].ops = {m \in Models : backend = "mongo" /\ mem'[m] # saved[m]}
          /\ backend = "mongo" => \E m \in Models : mem'[m] # saved[m]
      BY <1>1, <1>5, <2>2, WriteAlone DEF Kept
    <3>2. OneAtATime' BY <3>1 DEF OneAtATime
    <3>3. Undisturbed' => Undisturbed BY <3>1 DEF Undisturbed
    <3>4. Undisturbed /\ backend = "mongo" => saved = docs
      BY <3>1 DEF Kept, CaughtUp, MongoKnown
    <3>5. CaughtUp'
      <4>1. Latest' = mem' BY <3>1 DEF Latest
      <4>2. Undisturbed' /\ backend = "mongo" => MongoKnown'
        BY <3>1, <3>3, <3>4 DEF MongoKnown
      <4> QED BY <4>1, <4>2, AgreeSame DEF CaughtUp
    <3>6. Forward'
      <4> SUFFICES ASSUME Undisturbed, backend = "mongo"
                   PROVE  /\ Onward(saved, mem) /\ Onward(mem, mem)
                          /\ \E m \in Models : Past(saved[m], mem[m])
        BY <3>1, <3>3 DEF Forward, Onward, Past
      <4>1. Onward(saved, mem) BY DEF Kept, Forward
      <4> QED BY <3>1, <4>1, OnwardSame DEF Onward
    <3> QED BY <1>2, <1>3, <3>2, <3>5, <3>6 DEF Kept
  <2> QED BY <2>1, <2>2
<1> QED BY <1>4, <1>5

\* A write lands: the file is replaced, or the collection changes and MongoState hears of it.
LEMMA LandingKept ==
  ASSUME Kept, QuotaTyped', AllLawful', NEW i \in DOMAIN flights, Landing(i)
  PROVE  Kept'
<1>1. flights \in Seq(Flights) /\ flights[i] \in Flights /\ disturbed \in BOOLEAN
  BY DEF Kept, QuotaTyped
<1>2. UNCHANGED <<phase, backend, disturbed, timer, mem, day>>
  BY DEF Landing, WriteFile, ApplyBulk, BulkReturns, control, ledger
<1>3. phase \notin {"stopped", "crashed"} /\ flights[i].kind = backend
      /\ (flights[i].applied => backend = "mongo")
  BY LenProperties DEF Kept, Resting, OwnFlights
<1>4. Resting' BY <1>2, <1>3 DEF Kept, Resting
<1>5. OwnFlights' /\ OneAtATime'
  <2>1. CASE flights' = RemoveAt(flights, i)
    <3>1. /\ \A j \in DOMAIN flights' : \E k \in DOMAIN flights : flights'[j] = flights[k]
          /\ Len(flights') = Len(flights) - 1 /\ Len(flights) \in Nat
      BY <1>1, <2>1, RemoveAtKeeps, LenProperties
    <3> QED BY <1>2, <3>1 DEF Kept, OwnFlights, OneAtATime
  <2>2. CASE ApplyBulk(i)
    <3>1. flights' = [flights EXCEPT ![i] = [flights[i] EXCEPT !.applied = TRUE]]
      BY <2>2 DEF ApplyBulk
    <3>2. [flights[i] EXCEPT !.applied = TRUE].kind = flights[i].kind /\ backend = "mongo"
      BY <1>1, <1>3, <2>2 DEF ApplyBulk, Flights
    <3>3. [flights[i] EXCEPT !.applied = TRUE] \in Flights BY <1>1 DEF Flights
    <3>4. Len(flights') = Len(flights) /\ DOMAIN flights' = DOMAIN flights
      BY <1>1, <3>1, <3>3, ExceptSeq
    <3> QED BY <1>1, <1>2, <3>1, <3>2, <3>4 DEF Kept, OwnFlights, OneAtATime
  <2> QED BY <2>1, <2>2 DEF Landing, WriteFile, BulkReturns
<1>6. CASE disturbed
  BY <1>2, <1>4, <1>5, <1>6 DEF Kept, CaughtUp, Forward, Undisturbed
<1>7. CASE ~disturbed
  <2>1. /\ i = 1 /\ flights # <<>> /\ Len(flights) = 1 /\ DOMAIN flights = {1}
        /\ RemoveAt(flights, i) = <<>>
    BY <1>7, OnlyFlight DEF Kept
  <2> SUFFICES ASSUME Undisturbed PROVE CaughtUp' /\ Forward'
    BY <1>2, <1>4, <1>5 DEF Kept, CaughtUp, Forward, Undisturbed
  <2>2. /\ backend = "mongo" => MongoKnown
        /\ timer = "off" => \A m \in Models : Agree(flights[1].snapshot[m], mem[m])
    BY <1>3, <2>1 DEF Kept, CaughtUp, Latest
  <2>3. backend = "mongo" =>
          /\ phase = "up" => Onward(flights[1].snapshot, mem) /\ Onward(saved, mem)
                             /\ \E m \in Models : Past(saved[m], mem[m])
          /\ phase = "attaching" => mem = flights[1].snapshot
    BY <2>1 DEF Kept, Forward
  <2>4. CASE WriteFile(i)
    <3>1. flights' = <<>> /\ file' = flights[1].snapshot /\ backend = "json"
      BY <1>3, <2>1, <2>4 DEF WriteFile
    <3>2. Latest' = flights[1].snapshot BY <1>2, <3>1 DEF Latest, Stored
    <3> QED BY <1>2, <2>2, <3>1, <3>2 DEF CaughtUp, Forward, Agree, Roll
  <2>5. CASE ApplyBulk(i)
    <3>1. backend = "mongo" /\ ~flights[1].applied BY <1>3, <2>1, <2>5 DEF ApplyBulk
    <3>2. flights[1].ops = {m \in Models : flights[1].snapshot[m] # docs[m]}
      BY <2>1, <2>2, <3>1 DEF MongoKnown
    <3>3. flights[1].snapshot \in [Models -> Rows] /\ docs \in [Models -> Rows]
      BY <1>1, <2>1 DEF Flights, Kept, QuotaTyped
    <3>4. docs' = flights[1].snapshot BY <2>1, <2>5, <3>2, <3>3 DEF ApplyBulk
    <3>5. /\ flights'[1].applied /\ flights'[1].snapshot = flights[1].snapshot
          /\ flights' # <<>> /\ saved' = saved
      <4>1. flights' = [flights EXCEPT ![1] = [flights[1] EXCEPT !.applied = TRUE]] /\ saved' = saved
        BY <2>1, <2>5 DEF ApplyBulk
      <4>2. flights[1] \in Flights BY <1>1, <2>1
      <4>3. /\ [flights[1] EXCEPT !.applied = TRUE].applied
            /\ [flights[1] EXCEPT !.applied = TRUE].snapshot = flights[1].snapshot
        BY <4>2 DEF Flights
      <4>5. flights' # <<>> BY <2>1, <4>1
      <4>4. 1 \in DOMAIN flights' /\ flights'[1] = [flights[1] EXCEPT !.applied = TRUE]
        BY <2>1, <4>1
      <4> QED BY <4>1, <4>3, <4>4, <4>5
    <3>6. CaughtUp'
      <4>1. MongoKnown' BY <3>4, <3>5 DEF MongoKnown
      <4>2. Latest' = flights[1].snapshot BY <3>5 DEF Latest
      <4> QED BY <1>2, <2>2, <4>1, <4>2 DEF CaughtUp, Agree, Roll
    <3>7. Forward' BY <1>2, <2>3, <3>1, <3>5 DEF Forward, Onward, Past
    <3> QED BY <3>6, <3>7
  <2>6. CASE BulkReturns(i)
    <3>1. /\ flights' = <<>> /\ saved' = flights[1].snapshot /\ docs' = docs
          /\ backend = "mongo" /\ flights[1].applied
      BY <1>3, <2>1, <2>6 DEF BulkReturns
    <3>2. docs = flights[1].snapshot BY <2>1, <2>2, <3>1 DEF MongoKnown
    <3>3. CaughtUp'
      <4>1. MongoKnown' BY <3>1, <3>2 DEF MongoKnown
      <4>2. Latest' = flights[1].snapshot BY <1>2, <3>1, <3>2 DEF Latest, Stored
      <4> QED BY <1>2, <2>2, <4>1, <4>2 DEF CaughtUp, Agree, Roll
    <3>4. Forward' BY <1>2, <2>3, <3>1 DEF Forward, Onward, Past
    <3> QED BY <3>3, <3>4
  <2> QED BY <2>4, <2>5, <2>6 DEF Landing
<1> QED BY <1>6, <1>7

LEMMA FailureKept ==
  ASSUME Kept, QuotaTyped', AllLawful', NEW i \in DOMAIN flights, WriteFails(i)
  PROVE  Kept'
<1>1. flights \in Seq(Flights) BY DEF Kept, QuotaTyped
<1>2. /\ flights' = RemoveAt(flights, i) /\ UNCHANGED <<phase, backend, timer>>
      /\ disturbed' = TRUE
  BY DEF WriteFails
<1>3. phase \notin {"stopped", "crashed"} BY LenProperties DEF Kept, Resting
<1>4. /\ \A j \in DOMAIN flights' : \E k \in DOMAIN flights : flights'[j] = flights[k]
      /\ Len(flights') = Len(flights) - 1 /\ Len(flights) \in Nat
  BY <1>1, <1>2, RemoveAtKeeps, LenProperties
<1>5. Resting' /\ OwnFlights' /\ OneAtATime'
  BY <1>2, <1>3, <1>4 DEF Kept, Resting, OwnFlights, OneAtATime
<1> QED BY <1>2, <1>5 DEF Kept, CaughtUp, Forward, Undisturbed

LEMMA ShutdownKept == ASSUME Kept, QuotaTyped', AllLawful', Shutdown PROVE Kept'
<1>1. CASE backend = "mongo"
  <2>1. /\ phase = "up" /\ phase' = "stopping" /\ timer' = "off" /\ Write(backend, saved)
        /\ UNCHANGED <<backend, mem, docs>> /\ file' = file
    BY <1>1 DEF Shutdown
  <2> QED BY <2>1, BeginsKept
<1>2. CASE backend # "mongo"
  <2>1. backend = "json" BY <1>2, BoundAssumption DEF Kept, QuotaTyped
  <2>2. /\ phase' = "stopping" /\ timer' = "off" /\ backend' = "json" /\ mem' = mem
        /\ flights' = flights
        /\ disturbed' \/ (file' = mem /\ disturbed' = (disturbed \/ flights # <<>>))
    BY <2>1 DEF Shutdown
  <2>3. Resting' /\ OwnFlights' BY <2>1, <2>2 DEF Kept, Resting, OwnFlights
  <2>4. OneAtATime' BY <2>2 DEF Kept, OneAtATime
  <2>5. CaughtUp'
    <3> SUFFICES ASSUME Undisturbed' PROVE \A m \in Models : Agree(Latest[m], mem[m])'
      BY <2>2 DEF CaughtUp
    <3>1. Latest' = mem' BY <2>2 DEF Latest, Stored, Undisturbed
    <3> QED BY <3>1, AgreeSame
  <2>6. Forward' BY <2>2 DEF Forward
  <2> QED BY <2>3, <2>4, <2>5, <2>6 DEF Kept
<1> QED BY <1>1, <1>2

\* The process ends, or is ready after attaching: nothing is in flight.
LEMMA EndsKept == ASSUME Kept, QuotaTyped', AllLawful', Stopped \/ Attached PROVE Kept'
<1>1. /\ UNCHANGED <<backend, disturbed, mem, timer, file, docs, saved, flights, day>>
      /\ flights = <<>> /\ phase \in {"stopping", "attaching"}
      /\ phase' = (IF phase = "attaching" THEN "up" ELSE "stopped")
  BY DEF Stopped, Attached, ledger
<1>2. Resting' /\ OwnFlights' /\ OneAtATime'
  BY <1>1 DEF Kept, Resting, OwnFlights, OneAtATime
<1>3. CaughtUp'
  <2>1. MongoKnown' = MongoKnown /\ Latest' = Latest BY <1>1 DEF MongoKnown, Latest, Stored
  <2> QED BY <1>1, <2>1 DEF Kept, CaughtUp, Undisturbed, Agree, Roll
<1>4. Forward'
  <2> SUFFICES ASSUME Undisturbed, backend = "mongo", phase = "attaching"
               PROVE  Onward(saved, mem)
    BY <1>1 DEF Forward, Undisturbed, Onward, Past
  <2>1. mem = saved BY <1>1 DEF Kept, Forward
  <2> QED BY <2>1, OnwardSame
<1> QED BY <1>2, <1>3, <1>4 DEF Kept

LEMMA CrashKept == ASSUME Kept, QuotaTyped', AllLawful', Crash PROVE Kept'
<1>1. phase' = "crashed" /\ timer' = "off" /\ flights' = <<>> BY DEF Crash
<1>2. Len(<<>>) = 0 /\ DOMAIN <<>> = {} OBVIOUS
<1> QED BY <1>1, <1>2
      DEF Kept, Resting, OwnFlights, OneAtATime, CaughtUp, Forward

\* A start takes what the store holds, without the rows that are too old.
LEMMA StartFileKept == ASSUME Kept, QuotaTyped', AllLawful', StartOnFile PROVE Kept'
<1>1. /\ phase' = "up" /\ backend' = "json" /\ mem' = Pruned(file) /\ file' = file
      /\ flights = <<>> /\ flights' = <<>> /\ timer = "off" /\ timer' = timer /\ day' = day
  BY DEF StartOnFile, Kept, Resting, ledger
<1>2. Len(<<>>) = 0 /\ DOMAIN <<>> = {} OBVIOUS
<1>3. Resting' /\ OwnFlights' /\ OneAtATime'
  BY <1>1, <1>2 DEF Resting, OwnFlights, OneAtATime
<1>4. \A m \in Models : Agree(Latest[m], mem[m])'
  <2>1. Latest' = file BY <1>1 DEF Latest, Stored
  <2>2. \A m \in Models :
          mem'[m] = file[m] \/ (mem'[m] = NoRow /\ file[m].day < day - PruneDays)
    BY <1>1 DEF Pruned
  <2> QED BY <1>1, <2>1, <2>2 DEF Agree, Roll
<1>5. CaughtUp' BY <1>1, <1>4 DEF CaughtUp
<1>6. Forward' BY <1>1 DEF Forward
<1> QED BY <1>3, <1>5, <1>6 DEF Kept

LEMMA StartMongoKept == ASSUME Kept, QuotaTyped', AllLawful', StartOnMongo PROVE Kept'
<1>1. /\ phase' = "attaching" /\ backend' = "mongo" /\ docs' = docs /\ "mongo" \in Backends
      /\ flights = <<>> /\ timer = "off" /\ timer' = timer /\ Write("mongo", docs)
  BY DEF StartOnMongo, Kept, Resting
<1>2. docs \in [Models -> Rows] /\ disturbed \in BOOLEAN /\ QuotaTyped
  BY DEF Kept, QuotaTyped
<1>4. \/ mem' = docs /\ saved' = mem' /\ flights' = <<>>
      \/ /\ saved' = docs /\ flights' # <<>> /\ Len(flights') = 1 /\ flights' = <<flights'[1]>>
         /\ flights'[1].kind = "mongo" /\ flights'[1].snapshot = mem' /\ ~flights'[1].applied
         /\ flights'[1].ops = {m \in Models : mem'[m] # docs[m]}
  <2> DEFINE f == Flight("mongo", docs)
  <2>1. /\ f.kind = "mongo" /\ f.snapshot = mem' /\ ~f.applied
        /\ f.ops = {m \in Models : mem'[m] # docs[m]}
    BY DEF Flight
  <2>2. mem' \in [Models -> Rows] BY DEF QuotaTyped
  <2>3. f.ops = {} => mem' = docs BY <1>2, <2>1, <2>2
  <2>4. \/ f.ops = {} /\ saved' = mem' /\ flights' = <<>>
        \/ saved' = docs /\ flights' = <<f>>
    <3>1. CASE f.ops = {} BY <1>1, <3>1 DEF Write
    <3>2. CASE f.ops # {}
      <4>1. saved' = docs /\ flights' = Append(flights, f) BY <1>1, <3>2 DEF Write
      <4> HIDE DEF f
      <4> QED BY <1>1, <4>1
    <3> QED BY <3>1, <3>2
  <2> HIDE DEF f
  <2>5. Len(<<f>>) = 1 /\ <<f>>[1] = f /\ <<f>> # <<>> OBVIOUS
  <2> QED BY <2>1, <2>3, <2>4, <2>5
<1>5. Len(<<>>) = 0 /\ DOMAIN <<>> = {} OBVIOUS
<1>6. /\ Len(flights') <= 1
      /\ \A i \in DOMAIN flights' : flights'[i].kind = "mongo"
  <2>1. CASE flights' = <<>> BY <1>5, <2>1
  <2>2. CASE Len(flights') = 1
    <3>1. flights' \in Seq(Flights) BY DEF QuotaTyped
    <3>2. DOMAIN flights' = 1..1 BY <2>2, <3>1, LenProperties
    <3> QED BY <1>4, <1>5, <2>2, <3>2
  <2> QED BY <1>4, <2>1, <2>2
<1>7. Resting' /\ OwnFlights' /\ OneAtATime'
  <2>1. Resting' BY <1>1 DEF Resting
  <2>2. OwnFlights' BY <1>1, <1>6 DEF OwnFlights
  <2>3. OneAtATime'
    <3>1. Len(flights') <= 1 BY <1>6
    <3> QED BY <3>1 DEF OneAtATime
  <2> QED BY <2>1, <2>2, <2>3
<1>8. CaughtUp'
  <2>1. MongoKnown' BY <1>1, <1>4 DEF MongoKnown
  <2>2. Latest' = mem' BY <1>1, <1>4 DEF Latest, Stored
  <2> QED BY <2>1, <2>2, AgreeSame DEF CaughtUp
<1>9. Forward' BY <1>1, <1>4 DEF Forward
<1> QED BY <1>7, <1>8, <1>9 DEF Kept

LEMMA StepKept == Kept /\ [QuotaNext]_quotaVars => Kept'
<1> SUFFICES ASSUME Kept, [QuotaNext]_quotaVars PROVE Kept' OBVIOUS
<1>1. QuotaTyped' /\ AllLawful' BY StepTyped, StepLawful DEF Kept
<1>2. CASE UNCHANGED quotaVars
  <2>1. MongoKnown' = MongoKnown /\ Latest' = Latest
    BY <1>2 DEF quotaVars, control, MongoKnown, Latest, Stored
  <2>2. CaughtUp' BY <1>2, <2>1
    DEF Kept, CaughtUp, Undisturbed, Agree, Roll, quotaVars, control, ledger
  <2>3. Forward' BY <1>2 DEF Kept, Forward, Undisturbed, Onward, Past, quotaVars, control
  <2>4. Resting' /\ OwnFlights' /\ OneAtATime'
    BY <1>2 DEF Kept, Resting, OwnFlights, OneAtATime, quotaVars, control
  <2> QED BY <1>1, <2>2, <2>3, <2>4 DEF Kept
<1>3. CASE \E m \in Models : RecordSuccess(m) \/ RecordLimit(m) \/ RecordOther(m) \/ Read(m)
  BY <1>1, <1>3, RowKept
<1>4. CASE \E i \in DOMAIN flights : Landing(i) \/ WriteFails(i)
  BY <1>1, <1>4, LandingKept, FailureKept
<1>5. CASE NextDay BY <1>1, <1>5, DayKept
<1>12. CASE Elapse BY <1>1, <1>12, ElapseKept
<1>6. CASE TimerFires
  <2>1. /\ phase = "up" /\ phase' = "up" /\ timer' = "off" /\ Write(backend, saved)
        /\ UNCHANGED <<backend, mem, docs>> /\ file' = file
    BY <1>6 DEF TimerFires
  <2> QED BY <1>1, <2>1, BeginsKept
<1>7. CASE Shutdown BY <1>1, <1>7, ShutdownKept
<1>8. CASE Stopped \/ Attached BY <1>1, <1>8, EndsKept
<1>9. CASE Crash BY <1>1, <1>9, CrashKept
<1>10. CASE StartOnFile BY <1>1, <1>10, StartFileKept
<1>11. CASE StartOnMongo BY <1>1, <1>11, StartMongoKept
<1> QED
  BY <1>2, <1>3, <1>4, <1>5, <1>6, <1>7, <1>8, <1>9, <1>10, <1>11, <1>12, Steps DEF Other

LEMMA InitKept == QuotaInit => Kept
<1> SUFFICES ASSUME QuotaInit PROVE Kept OBVIOUS
<1>1. QuotaTyped /\ AllLawful BY InitTyped, InitLawful
<1>2. flights = <<>> /\ Len(<<>>) = 0 /\ DOMAIN <<>> = {} BY DEF QuotaInit
<1>3. Resting /\ OwnFlights /\ OneAtATime BY <1>2 DEF QuotaInit, Resting, OwnFlights, OneAtATime
<1>4. CaughtUp BY DEF QuotaInit, CaughtUp, MongoKnown, Latest, Stored, Agree, Roll
<1>5. Forward BY DEF QuotaInit, Forward
<1> QED BY <1>1, <1>3, <1>4, <1>5 DEF Kept

\* Once the timer has fired and the writes are done, the store holds what memory holds.
THEOREM QuotaStoredWhenQuiet == QuotaSpec => []StoredWhenQuiet
<1>1. QuotaInit => Kept BY InitKept
<1>2. Kept /\ [QuotaNext]_quotaVars => Kept' BY StepKept
<1>3. Kept => StoredWhenQuiet BY KeptIsStored
<1> QED BY <1>1, <1>2, <1>3, PTL DEF QuotaSpec
================================================================================
