---------------------------- MODULE DispatchProofs ----------------------------
(***************************************************************************)
(* Theorems about Dispatch for any requests, models, names and budgets: the  *)
(* type invariant, the bound on calls, the confinement of requests to what    *)
(* they asked for, and that steps advance.                                  *)
(***************************************************************************)
EXTENDS DispatchProps, TLAPS

(***************************************************************************)
(* Type correctness.                                                       *)
(***************************************************************************)

LEMMA PreferredType ==
  ASSUME NEW r \in Requests
  PROVE  Preferred(r) \in Seq(Models)
  BY DispatchAssumption DEF Preferred

LEMMA CallType ==
  ASSUME TypeOK, NEW r \in Requests, NEW m \in Models, CanReserve(m),
         Call(r, m), left' \in [Requests -> Seq(Models)]
  PROVE  TypeOK'
  <1>1. reserved' \in [Models -> 0..Budget]
    BY DispatchAssumption DEF TypeOK, Call, CanReserve
  <1>2. calls' \in [Requests \X Models -> Nat]
    BY DEF TypeOK, Call
  <1> QED
    BY <1>1, <1>2 DEF TypeOK, Call, Steps, clocks, gateVars, worldVars

\* Filing a failure never invents a state.
LEMMA FiledType ==
  ASSUME NEW old \in PoolStates, NEW kind \in FailureKinds, NEW row \in Filed(old, kind)
  PROVE  row \in PoolStates
  BY DEF Filed, FailureKinds, PoolStates

LEMMA FailWithType ==
  ASSUME TypeOK, NEW r \in Requests, NEW kind \in FailureKinds, FailWith(r, kind),
         model[r] \in Models
  PROVE  TypeOK'
  <1>1. PICK row \in Filed(pool[model[r]], kind) : pool' = [pool EXCEPT ![model[r]] = row]
    BY DEF FailWith
  <1>2. row \in PoolStates
    <2>1. pool[model[r]] \in PoolStates
      BY DEF TypeOK
    <2> QED BY <1>1, <2>1, FiledType
  <1>3. pool' \in [Models -> PoolStates]
    BY <1>1, <1>2 DEF TypeOK
  <1>4. left' \in [Requests -> Seq(Models)]
    BY DEF FailWith, TypeOK
  <1> QED
    BY <1>3, <1>4 DEF FailWith, Figures, TypeOK, Steps, clocks, gateVars, worldVars

\* A request that is calling a model has reserved it.  This is what keeps
\* FailWith and Pause inside the model's types.
Calling == {"calling", "pausing", "recalling"}
CallsItsModel == \A r \in Requests : pc[r] \in Calling => model[r] \in tried[r]

LEMMA RunningType ==
  ASSUME TypeOK, NEW r \in Requests, Running(r)
  PROVE  TypeOK'
  <1>1. CASE PassOver(r)
    BY <1>1 DEF PassOver, TypeOK, clocks, gateVars, worldVars
  <1>2. CASE TryName(r)
    <2>1. Head(left[r]) \in Models /\ left' \in [Requests -> Seq(Models)]
      BY <1>2 DEF TryName, TypeOK
    <2> QED BY <1>2, <2>1, CallType DEF TryName, Usable
  <1>3. CASE AfterNames(r)
    BY <1>3 DEF AfterNames, TypeOK, Steps, clocks, gateVars, worldVars
  <1>4. CASE TryCascade(r)
    BY <1>4, CallType DEF TryCascade, Eligible, TypeOK
  <1>5. CASE Spin(r)
    BY <1>5 DEF Spin, TypeOK, clocks, gateVars, worldVars
  <1>6. CASE Wait(r)
    BY <1>6 DEF Wait, TypeOK, Steps, clocks, gateVars, worldVars
  <1>7. CASE GiveUp(r)
    BY <1>7 DEF GiveUp, TypeOK, Steps, clocks, gateVars, worldVars
  <1> QED BY <1>1, <1>2, <1>3, <1>4, <1>5, <1>6, <1>7 DEF Running

LEMMA ResumingType ==
  ASSUME TypeOK, CallsItsModel, NEW r \in Requests, Resuming(r)
  PROVE  TypeOK'
  <1> USE DispatchAssumption
  <1>0. pc[r] \in Calling => model[r] \in Models
    BY DEF CallsItsModel, TypeOK
  <1>1. CASE Wake(r)
    BY <1>1 DEF Wake, TypeOK, Steps, clocks, gateVars, worldVars
  <1>2. CASE Answer(r)
    BY <1>2 DEF Answer, Figures, TypeOK, Steps, clocks, gateVars, worldVars
  <1>3. CASE Pause(r)
    <2>1. reserved' \in [Models -> 0..Budget]
      BY <1>0, <1>3 DEF Pause, Resume, Calling, CanReserve, TypeOK
    <2> QED BY <1>3, <2>1 DEF Pause, TypeOK, Steps, clocks, gateVars, worldVars
  <1>4. CASE Recall(r)
    <2>1. calls' \in [Requests \X Models -> Nat]
      BY <1>0, <1>4 DEF Recall, Resume, Calling, TypeOK
    <2> QED BY <1>4, <2>1 DEF Recall, TypeOK, Steps, clocks, gateVars, worldVars
  <1>5. ASSUME NEW kind \in Failures, Fail(r, kind) PROVE TypeOK'
    BY <1>0, <1>5, FailWithType DEF Fail, Resume, Calling
  <1>6. CASE FailLate(r)
    BY <1>0, <1>6, FailWithType DEF FailLate, Resume, Calling, FailureKinds
  <1>7. CASE Escape(r)
    BY <1>7 DEF Escape, TypeOK, Steps, clocks, gateVars, worldVars
  <1> QED BY <1>1, <1>2, <1>3, <1>4, <1>5, <1>6, <1>7 DEF Resuming, CallEnds

LEMMA WorldType ==
  ASSUME TypeOK, World
  PROVE  TypeOK'
  <1> USE DispatchAssumption DEF requestVars, clocks, gateVars, worldVars
  <1>1. ASSUME NEW m \in Models, WindowSlides(m) PROVE TypeOK'
    <2>1. reserved' \in [Models -> 0..Budget]
      BY <1>1 DEF WindowSlides, TypeOK
    <2> QED BY <1>1, <2>1 DEF WindowSlides, TypeOK
  <1>5. ASSUME NEW m \in Models, FigureExpires(m) PROVE TypeOK'
    BY <1>5 DEF FigureExpires, TypeOK
  <1>6. CASE Reported
    BY <1>6 DEF Reported, Figures, Event, TypeOK
  <1>2. ASSUME NEW m \in Models, Probed(m) PROVE TypeOK'
    BY <1>2 DEF Probed, Event, TypeOK
  <1>3. ASSUME NEW m \in Models, Verdict(m) PROVE TypeOK'
    BY <1>3 DEF Verdict, Event, TypeOK
  <1>4. ASSUME NEW names \in SUBSET Models, Reload(names) PROVE TypeOK'
    BY <1>4 DEF Reload, Event, TypeOK, PoolStates
  <1> QED BY <1>1, <1>2, <1>3, <1>4, <1>5, <1>6 DEF World

LEMMA TypeStep == TypeOK /\ CallsItsModel /\ [Next]_vars => TypeOK'
  <1> SUFFICES ASSUME TypeOK, CallsItsModel, [Next]_vars PROVE TypeOK'
    OBVIOUS
  <1>1. ASSUME NEW r \in Requests, Begin(r) PROVE TypeOK'
    <2>1. left' \in [Requests -> Seq(Models)]
      BY <1>1, PreferredType DEF Begin, TypeOK
    <2> QED BY <1>1, <2>1 DEF Begin, TypeOK, Steps, clocks, gateVars, worldVars
  <1>2. ASSUME NEW r \in Requests, ClockStrikes(r) PROVE TypeOK'
    BY <1>2 DEF ClockStrikes, DeadlinePasses, WaitDeadlinePasses, TypeOK, requestVars, gateVars,
               worldVars
  <1>3. CASE UNCHANGED vars
    BY <1>3 DEF vars, TypeOK
  <1> QED BY <1>1, <1>2, <1>3, RunningType, ResumingType, WorldType DEF Next

(***************************************************************************)
(* Calls are bounded.  The invariant says how many calls a request may have  *)
(* made to a model at each point of its life.                               *)
(***************************************************************************)
CallInv ==
  /\ CallsItsModel
  /\ CalledAtMostTwice
  /\ \A r \in Requests, m \in Models : m \notin tried[r] => calls[<<r, m>>] = 0
  /\ \A r \in Requests : pc[r] \in {"calling", "pausing"} => calls[<<r, model[r]>>] = 1

\* Most steps make no call and start none.
LEMMA NoCall ==
  ASSUME CallInv, UNCHANGED <<calls, tried, model>>,
         \A r \in Requests : pc'[r] \in Calling =>
            /\ pc[r] \in Calling
            /\ pc'[r] \in {"calling", "pausing"} => pc[r] \in {"calling", "pausing"}
  PROVE  CallInv'
  BY DEF CallInv, CallsItsModel, CalledAtMostTwice, Calling

LEMMA FirstCall ==
  ASSUME TypeOK, CallInv, NEW r \in Requests, NEW m \in Models, m \notin tried[r], Call(r, m)
  PROVE  CallInv'
  <1>1. calls[<<r, m>>] = 0
    BY DEF CallInv
  <1>2. \A q \in Requests, n \in Models :
           calls'[<<q, n>>] = IF q = r /\ n = m THEN 1 ELSE calls[<<q, n>>]
    BY <1>1 DEF Call, TypeOK
  <1>3. \A q \in Requests :
           /\ tried'[q] = IF q = r THEN tried[r] \cup {m} ELSE tried[q]
           /\ model'[q] = IF q = r THEN m ELSE model[q]
           /\ pc'[q] = IF q = r THEN "calling" ELSE pc[q]
    BY DEF Call, TypeOK
  <1>4. CallsItsModel'
    BY <1>3 DEF CallInv, CallsItsModel, Calling
  <1>5. CalledAtMostTwice'
    <2> SUFFICES ASSUME NEW q \in Requests, NEW n \in Models PROVE calls'[<<q, n>>] <= 2
      BY DEF CalledAtMostTwice
    <2>1. calls[<<q, n>>] <= 2
      BY DEF CallInv, CalledAtMostTwice
    <2>2. calls'[<<q, n>>] \in {1, 2, calls[<<q, n>>]}
      BY <1>2
    <2> QED BY <2>1, <2>2
  <1>6. \A q \in Requests, n \in Models : n \notin tried'[q] => calls'[<<q, n>>] = 0
    BY <1>2, <1>3 DEF CallInv
  <1>7. \A q \in Requests : pc'[q] \in {"calling", "pausing"} => calls'[<<q, model'[q]>>] = 1
    <2> SUFFICES ASSUME NEW q \in Requests, pc'[q] \in {"calling", "pausing"}
                 PROVE  calls'[<<q, model'[q]>>] = 1
      OBVIOUS
    <2>1. CASE q = r
      BY <2>1, <1>2, <1>3
    <2>2. CASE q # r
      <3>1. model[q] \in Models /\ calls[<<q, model[q]>>] = 1
        BY <2>2, <1>3 DEF CallInv, CallsItsModel, Calling, TypeOK
      <3> QED BY <2>2, <3>1, <1>2, <1>3
    <2> QED BY <2>1, <2>2
  <1> QED BY <1>4, <1>5, <1>6, <1>7 DEF CallInv

LEMMA SecondCall ==
  ASSUME TypeOK, CallInv, NEW r \in Requests, Recall(r)
  PROVE  CallInv'
  <1>1. model[r] \in tried[r] /\ model[r] \in Models /\ calls[<<r, model[r]>>] = 1
    BY DEF Recall, Resume, CallInv, CallsItsModel, Calling, TypeOK
  <1>2. \A q \in Requests, n \in Models :
           calls'[<<q, n>>] = IF q = r /\ n = model[r] THEN 2 ELSE calls[<<q, n>>]
    BY <1>1 DEF Recall, TypeOK
  <1>3. \A q \in Requests : pc'[q] = IF q = r THEN "recalling" ELSE pc[q]
    BY DEF Recall, TypeOK
  <1>4. UNCHANGED <<tried, model>>
    BY DEF Recall
  <1>5. CallsItsModel'
    BY <1>1, <1>3, <1>4 DEF CallInv, CallsItsModel, Calling
  <1>6. CalledAtMostTwice'
    <2> SUFFICES ASSUME NEW q \in Requests, NEW n \in Models PROVE calls'[<<q, n>>] <= 2
      BY DEF CalledAtMostTwice
    <2>1. calls[<<q, n>>] <= 2
      BY DEF CallInv, CalledAtMostTwice
    <2>2. calls'[<<q, n>>] \in {1, 2, calls[<<q, n>>]}
      BY <1>2
    <2> QED BY <2>1, <2>2
  <1>7. \A q \in Requests, n \in Models : n \notin tried'[q] => calls'[<<q, n>>] = 0
    BY <1>1, <1>2, <1>4 DEF CallInv
  <1>8. \A q \in Requests : pc'[q] \in {"calling", "pausing"} => calls'[<<q, model'[q]>>] = 1
    <2> SUFFICES ASSUME NEW q \in Requests, pc'[q] \in {"calling", "pausing"}
                 PROVE  calls'[<<q, model'[q]>>] = 1
      OBVIOUS
    <2>1. q # r /\ model[q] \in Models /\ calls[<<q, model[q]>>] = 1
      BY <1>3 DEF CallInv, CallsItsModel, Calling, TypeOK
    <2> QED BY <2>1, <1>2, <1>4
  <1> QED BY <1>5, <1>6, <1>7, <1>8 DEF CallInv

LEMMA CallInit == Init => CallInv
  BY DEF Init, CallInv, CallsItsModel, CalledAtMostTwice, Calling

LEMMA CallStep == TypeOK /\ CallInv /\ [Next]_vars => CallInv'
  <1> SUFFICES ASSUME TypeOK, CallInv, [Next]_vars PROVE CallInv'
    OBVIOUS
  <1> USE DEF TypeOK, Calling
  <1>1. ASSUME NEW r \in Requests, Begin(r) PROVE CallInv'
    BY <1>1, NoCall DEF Begin
  <1>2. ASSUME NEW r \in Requests, Running(r) PROVE CallInv'
    <2>1. CASE PassOver(r)
      BY <2>1, NoCall DEF PassOver
    <2>2. CASE TryName(r)
      <3>1. Head(left[r]) \in Models /\ Head(left[r]) \notin tried[r]
        BY <2>2 DEF TryName, Usable
      <3> QED BY <2>2, <3>1, FirstCall DEF TryName
    <2>3. CASE AfterNames(r)
      BY <2>3, NoCall DEF AfterNames
    <2>4. CASE TryCascade(r)
      BY <2>4, FirstCall DEF TryCascade, Eligible
    <2>5. CASE Spin(r)
      BY <2>5, NoCall DEF Spin
    <2>6. CASE Wait(r)
      BY <2>6, NoCall DEF Wait
    <2>7. CASE GiveUp(r)
      BY <2>7, NoCall DEF GiveUp
    <2> QED BY <1>2, <2>1, <2>2, <2>3, <2>4, <2>5, <2>6, <2>7 DEF Running
  <1>3. ASSUME NEW r \in Requests, Resuming(r) PROVE CallInv'
    <2>1. CASE Wake(r)
      BY <2>1, NoCall DEF Wake
    <2>2. CASE Answer(r)
      BY <2>2, NoCall DEF Answer
    <2>3. CASE Pause(r)
      BY <2>3, NoCall DEF Pause, Resume
    <2>4. CASE Recall(r)
      BY <2>4, SecondCall
    <2>5. ASSUME NEW kind \in Failures, Fail(r, kind) PROVE CallInv'
      BY <2>5, NoCall DEF Fail, FailWith
    <2>6. CASE FailLate(r)
      BY <2>6, NoCall DEF FailLate, FailWith
    <2>7. CASE Escape(r)
      BY <2>7, NoCall DEF Escape
    <2> QED BY <1>3, <2>1, <2>2, <2>3, <2>4, <2>5, <2>6, <2>7 DEF Resuming, CallEnds
  <1>4. ASSUME NEW r \in Requests, ClockStrikes(r) PROVE CallInv'
    BY <1>4, NoCall DEF ClockStrikes, DeadlinePasses, WaitDeadlinePasses, requestVars
  <1>5. CASE World
    BY <1>5, NoCall DEF World, WindowSlides, FigureExpires, Probed, Verdict, Reported, Reload,
          requestVars
  <1>6. CASE UNCHANGED vars
    BY <1>6, NoCall DEF vars
  <1> QED BY <1>1, <1>2, <1>3, <1>4, <1>5, <1>6 DEF Next

LEMMA TypeInit == Init => TypeOK
  <1> SUFFICES ASSUME Init PROVE TypeOK
    OBVIOUS
  <1>1. left \in [Requests -> Seq(Models)]
    BY DEF Init
  <1>2. calls \in [Requests \X Models -> Nat]
    BY DEF Init
  <1>3. pool \in [Models -> PoolStates] /\ reserved \in [Models -> 0..Budget]
    BY DispatchAssumption DEF Init
  <1>4. pc \in [Requests -> Steps]
    BY DEF Init, Steps
  <1>5. 0 \in 0..MaxEvents
    BY DispatchAssumption
  <1> QED BY <1>1, <1>2, <1>3, <1>4, <1>5 DEF Init, TypeOK

\* Every variable keeps its type in every behaviour, in particular no model is
\* ever reserved beyond its budget.
THEOREM TypeCorrect == Spec => []TypeOK
  <1>1. Init => TypeOK /\ CallInv
    BY TypeInit, CallInit
  <1>2. TypeOK /\ CallInv /\ [Next]_vars => (TypeOK /\ CallInv)'
    BY TypeStep, CallStep DEF CallInv
  <1> QED BY <1>1, <1>2, PTL DEF Spec

\* Whatever fails, cools, is promoted or reloaded while a request lasts, it calls
\* no model more than twice (dispatch_with_fallback's `tried`, _try_model's retry).
THEOREM CallsBounded == Spec => []CalledAtMostTwice
  <1>1. Init => TypeOK /\ CallInv
    BY TypeInit, CallInit
  <1>2. TypeOK /\ CallInv /\ [Next]_vars => (TypeOK /\ CallInv)'
    BY TypeStep, CallStep DEF CallInv
  <1>3. CallInv => CalledAtMostTwice
    BY DEF CallInv
  <1> QED BY <1>1, <1>2, <1>3, PTL DEF Spec

(***************************************************************************)
(* Requests stay with what they asked for: so do the names they still have   *)
(* to visit, and only those with the free cascade ever get to it.            *)
(***************************************************************************)
NamesAskedFor(r, names) == \A i \in 1..Len(names) : AskedFor(r, names[i])

AskedInv ==
  /\ \A r \in Requests, m \in Models : m \in tried[r] => AskedFor(r, m)
  /\ \A r \in Requests : pc[r] \in {"cascade", "waiting"} => IncludeFree(r)
  /\ \A r \in Requests : NamesAskedFor(r, left[r])

LEMMA PreferredAskedFor ==
  ASSUME NEW r \in Requests
  PROVE  NamesAskedFor(r, Preferred(r))
  BY DispatchAssumption DEF NamesAskedFor, Preferred, AskedFor

LEMMA CascadeAskedFor ==
  ASSUME NEW r \in Requests, NEW m \in Models, IncludeFree(r)
  PROVE  AskedFor(r, m)
  BY DEF IncludeFree, AskedFor

LEMMA TailAskedFor ==
  ASSUME NEW r \in Requests, NEW names \in Seq(Models), names # <<>>, NamesAskedFor(r, names)
  PROVE  /\ AskedFor(r, Head(names))
         /\ NamesAskedFor(r, Tail(names))
  <1>1. Len(names) >= 1 /\ Head(names) = names[1]
    OBVIOUS
  <1>2. Len(Tail(names)) = Len(names) - 1
        /\ \A i \in 1..(Len(names) - 1) : Tail(names)[i] = names[i + 1]
    BY <1>1
  <1>3. AskedFor(r, Head(names))
    BY <1>1 DEF NamesAskedFor
  <1>4. ASSUME NEW i \in 1..Len(Tail(names)) PROVE AskedFor(r, Tail(names)[i])
    <2>1. i + 1 \in 1..Len(names) /\ Tail(names)[i] = names[i + 1]
      BY <1>1, <1>2
    <2> QED BY <2>1 DEF NamesAskedFor
  <1> QED BY <1>3, <1>4 DEF NamesAskedFor

\* Most steps try no model, visit no name and enter no cascade.
LEMMA NothingAsked ==
  ASSUME AskedInv, UNCHANGED <<tried, left>>,
         \A r \in Requests : pc'[r] \in {"cascade", "waiting"} =>
            pc[r] \in {"cascade", "waiting"} \/ IncludeFree(r)
  PROVE  AskedInv'
  BY DEF AskedInv, NamesAskedFor, AskedFor, IncludeFree

LEMMA CallAsked ==
  ASSUME TypeOK, AskedInv, NEW r \in Requests, NEW m \in Models, AskedFor(r, m), Call(r, m),
         \A q \in Requests : NamesAskedFor(q, left'[q])
  PROVE  AskedInv'
  <1>1. \A q \in Requests : tried'[q] = IF q = r THEN tried[r] \cup {m} ELSE tried[q]
    BY DEF Call, TypeOK
  <1>2. \A q \in Requests : pc'[q] = IF q = r THEN "calling" ELSE pc[q]
    BY DEF Call, TypeOK
  <1>3. \A q \in Requests, n \in Models : n \in tried'[q] => AskedFor(q, n)
    BY <1>1 DEF AskedInv
  <1>4. \A q \in Requests : pc'[q] \in {"cascade", "waiting"} => IncludeFree(q)
    BY <1>2 DEF AskedInv
  <1> QED BY <1>3, <1>4 DEF AskedInv, NamesAskedFor, AskedFor, IncludeFree

\* Visiting the names: the request has the first one behind it, or has none left.
LEMMA NamesShrink ==
  ASSUME TypeOK, AskedInv, NEW r \in Requests, NEW names,
         left' = [left EXCEPT ![r] = names], NamesAskedFor(r, names)
  PROVE  \A q \in Requests : NamesAskedFor(q, left'[q])
  BY DEF TypeOK, AskedInv

LEMMA AskedInit == Init => AskedInv
  BY DEF Init, AskedInv, NamesAskedFor

LEMMA AskedStep == TypeOK /\ AskedInv /\ [Next]_vars => AskedInv'
  <1> SUFFICES ASSUME TypeOK, AskedInv, [Next]_vars PROVE AskedInv'
    OBVIOUS
  <1>1. ASSUME NEW r \in Requests, Begin(r) PROVE AskedInv'
    <2>1. \A q \in Requests : NamesAskedFor(q, left'[q])
      BY <1>1, NamesShrink, PreferredAskedFor DEF Begin
    <2>2. \A q \in Requests : pc'[q] \in {"cascade", "waiting"} => IncludeFree(q)
      BY <1>1 DEF Begin, TypeOK, AskedInv
    <2> QED BY <1>1, <2>1, <2>2 DEF Begin, AskedInv, NamesAskedFor, AskedFor, IncludeFree
  <1>2. ASSUME NEW r \in Requests, Running(r) PROVE AskedInv'
    <2>1. CASE PassOver(r)
      <3>1. NamesAskedFor(r, Tail(left[r]))
        BY <2>1, TailAskedFor DEF PassOver, AskedInv, TypeOK
      <3>2. \A q \in Requests : NamesAskedFor(q, left'[q])
        BY <2>1, <3>1, NamesShrink DEF PassOver
      <3> QED BY <2>1, <3>2 DEF PassOver, AskedInv, NamesAskedFor, AskedFor, IncludeFree
    <2>2. CASE TryName(r)
      <3>1. AskedFor(r, Head(left[r])) /\ NamesAskedFor(r, Tail(left[r])) /\ Head(left[r]) \in Models
        BY <2>2, TailAskedFor DEF TryName, AskedInv, TypeOK
      <3>2. \A q \in Requests : NamesAskedFor(q, left'[q])
        BY <2>2, <3>1, NamesShrink DEF TryName
      <3> QED BY <2>2, <3>1, <3>2, CallAsked DEF TryName
    <2>3. CASE AfterNames(r)
      BY <2>3, NothingAsked DEF AfterNames, TypeOK
    <2>4. CASE TryCascade(r)
      <3>1. IncludeFree(r)
        BY <2>4 DEF TryCascade, Has, AskedInv
      <3>2. PICK m \in Eligible(r) : Call(r, m)
        BY <2>4 DEF TryCascade
      <3>3. m \in Models /\ AskedFor(r, m)
        BY <3>1, CascadeAskedFor DEF Eligible, TypeOK
      <3>4. \A q \in Requests : NamesAskedFor(q, left'[q])
        BY <2>4 DEF TryCascade, AskedInv
      <3> QED BY <3>2, <3>3, <3>4, CallAsked
    <2>5. CASE Spin(r)
      BY <2>5, NothingAsked DEF Spin
    <2>6. CASE Wait(r)
      BY <2>6, NothingAsked DEF Wait, Has, TypeOK
    <2>7. CASE GiveUp(r)
      BY <2>7, NothingAsked DEF GiveUp, TypeOK
    <2> QED BY <1>2, <2>1, <2>2, <2>3, <2>4, <2>5, <2>6, <2>7 DEF Running
  <1>3. ASSUME NEW r \in Requests, Resuming(r) PROVE AskedInv'
    <2>1. CASE Wake(r)
      BY <2>1, NothingAsked DEF Wake, Resume, TypeOK
    <2>2. CASE Answer(r)
      BY <2>2, NothingAsked DEF Answer, TypeOK
    <2>3. CASE Pause(r)
      BY <2>3, NothingAsked DEF Pause, TypeOK
    <2>4. CASE Recall(r)
      BY <2>4, NothingAsked DEF Recall, TypeOK
    <2>5. ASSUME NEW kind, FailWith(r, kind) PROVE AskedInv'
      <3>1. NamesAskedFor(r, <<>>) /\ NamesAskedFor(r, left[r])
        BY DEF NamesAskedFor, AskedInv
      <3>2. \A q \in Requests : NamesAskedFor(q, left'[q])
        <4>1. CASE r \in Embeds
          BY <4>1, <3>1, <2>5, NamesShrink DEF FailWith
        <4>2. CASE r \notin Embeds
          BY <4>2, <3>1, <2>5, NamesShrink DEF FailWith
        <4> QED BY <4>1, <4>2
      <3>3. \A q \in Requests : pc'[q] \in {"cascade", "waiting"} => pc[q] \in {"cascade", "waiting"}
        BY <2>5 DEF FailWith, TypeOK
      <3> QED BY <2>5, <3>2, <3>3 DEF FailWith, AskedInv, NamesAskedFor, AskedFor, IncludeFree
    <2>6. CASE Escape(r)
      BY <2>6, NothingAsked DEF Escape, TypeOK
    <2> QED BY <1>3, <2>1, <2>2, <2>3, <2>4, <2>5, <2>6 DEF Resuming, CallEnds, Fail, FailLate
  <1>4. ASSUME NEW r \in Requests, ClockStrikes(r) PROVE AskedInv'
    BY <1>4, NothingAsked DEF ClockStrikes, DeadlinePasses, WaitDeadlinePasses, requestVars
  <1>5. CASE World
    BY <1>5, NothingAsked DEF World, WindowSlides, FigureExpires, Probed, Verdict, Reported, Reload,
          requestVars
  <1>6. CASE UNCHANGED vars
    BY <1>6, NothingAsked DEF vars
  <1> QED BY <1>1, <1>2, <1>3, <1>4, <1>5, <1>6 DEF Next

\* An embedding never leaves its pin and a pinned chat never leaves its names
\* unless it asked to (queue_worker.py:330-331), for any names and any world.
THEOREM StaysWithNames == Spec => []CallsOnlyAskedFor
  <1>1. Init => TypeOK /\ CallInv /\ AskedInv
    BY TypeInit, CallInit, AskedInit
  <1>2. TypeOK /\ CallInv /\ AskedInv /\ [Next]_vars => (TypeOK /\ CallInv /\ AskedInv)'
    BY TypeStep, CallStep, AskedStep DEF CallInv
  <1>3. TypeOK /\ CallInv /\ AskedInv => CallsOnlyAskedFor
    <2> SUFFICES ASSUME CallInv, AskedInv, NEW r \in Requests, NEW m \in Models,
                        calls[<<r, m>>] > 0
                 PROVE  AskedFor(r, m)
      BY DEF CallsOnlyAskedFor
    <2> QED BY DEF CallInv, AskedInv
  <1> QED BY <1>1, <1>2, <1>3, PTL DEF Spec

(***************************************************************************)
(* The safety half of RequestsFinish.                                      *)
(***************************************************************************)

\* How far a request is since the last model it turned to.
Stage == [new |-> 0, calling |-> 1, pausing |-> 2, recalling |-> 3, names |-> 4,
          cascade |-> 5, waiting |-> 5, answered |-> 6, failed |-> 6]

Moves(r) == <<pc[r], left[r], tried[r]>>' # <<pc[r], left[r], tried[r]>>

\* It turns to one model more, or gets further with the ones it has tried.
Advances(r) ==
  \/ tried[r] \subseteq tried'[r] /\ tried'[r] # tried[r]
  \/ tried'[r] = tried[r] /\ Stage[pc[r]] < Stage[pc'[r]]
  \/ tried'[r] = tried[r] /\ pc'[r] = pc[r] /\ Len(left'[r]) < Len(left[r])

FallsAsleepOrWakes(r) ==
  {pc[r], pc'[r]} = {"cascade", "waiting"} /\ tried'[r] = tried[r] /\ left'[r] = left[r]

LEMMA OthersDoNotMove ==
  ASSUME TypeOK, NEW q \in Requests, NEW r \in Requests \ {q},
         Begin(q) \/ Running(q) \/ Resuming(q) \/ ClockStrikes(q)
  PROVE  ~Moves(r)
  BY DEF Moves, TypeOK, Begin, Running, PassOver, TryName, AfterNames, TryCascade, Spin, Wait,
         GiveUp, Call, Resuming, CallEnds, Wake, Answer, Pause, Recall, Fail, FailLate, Escape, FailWith,
         ClockStrikes, DeadlinePasses, WaitDeadlinePasses, requestVars

LEMMA RunningAdvances ==
  ASSUME TypeOK, NEW r \in Requests, Running(r), Moves(r)
  PROVE  Advances(r) \/ FallsAsleepOrWakes(r)
  <1> USE DEF TypeOK, Has
  <1>1. CASE PassOver(r)
    <2>1. left[r] \in Seq(Models) /\ left[r] # <<>> /\ left'[r] = Tail(left[r])
      BY <1>1 DEF PassOver
    <2>2. Len(left'[r]) < Len(left[r])
      BY <2>1
    <2> QED BY <1>1, <2>2 DEF PassOver, Advances
  <1>2. CASE TryName(r)
    BY <1>2 DEF TryName, Usable, Call, Advances
  <1>3. CASE AfterNames(r)
    BY <1>3 DEF AfterNames, Advances, Stage
  <1>4. CASE TryCascade(r)
    BY <1>4 DEF TryCascade, Eligible, Call, Advances
  <1>5. CASE Spin(r)
    BY <1>5 DEF Spin, Moves
  <1>6. CASE Wait(r)
    BY <1>6 DEF Wait, FallsAsleepOrWakes
  <1>7. CASE GiveUp(r)
    BY <1>7 DEF GiveUp, Advances, Stage
  <1> QED BY <1>1, <1>2, <1>3, <1>4, <1>5, <1>6, <1>7 DEF Running

LEMMA ResumingAdvances ==
  ASSUME TypeOK, NEW r \in Requests, Resuming(r)
  PROVE  Advances(r) \/ FallsAsleepOrWakes(r)
  <1> USE DEF TypeOK, Resume
  <1>1. CASE Wake(r)
    BY <1>1 DEF Wake, FallsAsleepOrWakes
  <1>2. CASE Answer(r)
    BY <1>2 DEF Answer, Advances, Stage
  <1>3. CASE Pause(r)
    BY <1>3 DEF Pause, Advances, Stage
  <1>4. CASE Recall(r)
    BY <1>4 DEF Recall, Advances, Stage
  <1>5. ASSUME pc[r] \in Calling, NEW kind, FailWith(r, kind) PROVE Advances(r)
    BY <1>5 DEF Calling, FailWith, Advances, Stage
  <1>6. CASE Escape(r)
    BY <1>6 DEF Escape, Advances, Stage
  <1> QED BY <1>1, <1>2, <1>3, <1>4, <1>5, <1>6 DEF Resuming, CallEnds, Fail, FailLate, Calling

\* Whatever the world does, each step of a request but falling asleep and waking turns to a
\* model it has not tried, or gets it further with those it has: it ends for want of models
\* unless it waits or spins for ever (selector.py:156-170), where only its deadline helps.
THEOREM RequestsAdvance ==
  Spec => [][\A r \in Requests : Moves(r) => Advances(r) \/ FallsAsleepOrWakes(r)]_vars
  <1>1. Init => TypeOK /\ CallInv
    BY TypeInit, CallInit
  <1>2. TypeOK /\ CallInv /\ [Next]_vars => (TypeOK /\ CallInv)'
    BY TypeStep, CallStep DEF CallInv
  <1>3. TypeOK /\ [Next]_vars
          => [\A r \in Requests : Moves(r) => Advances(r) \/ FallsAsleepOrWakes(r)]_vars
    <2> SUFFICES ASSUME TypeOK, Next, NEW r \in Requests, Moves(r)
                 PROVE  Advances(r) \/ FallsAsleepOrWakes(r)
      OBVIOUS
    <2>1. ASSUME NEW q \in Requests, Begin(q) \/ Running(q) \/ Resuming(q) \/ ClockStrikes(q)
          PROVE  Advances(r) \/ FallsAsleepOrWakes(r)
      <3>1. q = r
        BY <2>1, OthersDoNotMove
      <3>2. CASE Begin(r)
        BY <3>2 DEF Begin, TypeOK, Advances, Stage
      <3>3. ~ClockStrikes(r)
        BY DEF Moves, ClockStrikes, DeadlinePasses, WaitDeadlinePasses, requestVars
      <3> QED BY <2>1, <3>1, <3>2, <3>3, RunningAdvances, ResumingAdvances
    <2>2. ~World
      BY DEF Moves, World, WindowSlides, FigureExpires, Probed, Verdict, Reported, Reload,
          requestVars
    <2> QED BY <2>1, <2>2 DEF Next
  <1> QED BY <1>1, <1>2, <1>3, PTL DEF Spec
==============================================================================
