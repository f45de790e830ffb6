--------------------------- MODULE ModelPoolProofs ---------------------------
(***************************************************************************)
(* Theorems about ModelPool for every set of models, every duration and      *)
(* every bound: the type invariant, CooldownHonoured and the refinement of   *)
(* PoolPromise.                                                            *)
(***************************************************************************)
EXTENDS ModelPoolProps, TLAPS

(***************************************************************************)
(* The operators on rows and kinds.                                        *)
(***************************************************************************)

\* Every cooldown ends strictly after the failure that imposes it.
LEMMA CooldownUntilFuture ==
  ASSUME NEW kind \in FailureKinds, NEW t \in Nat, NEW delay \in ResetDelays,
         NEW until \in CooldownUntil(kind, t, delay)
  PROVE  until \in Nat /\ until > t /\ kind \in PoolKinds
  BY CooldownsAssumption DEF CooldownUntil, FailureKinds, ResetDelays, PoolKinds

\* apply_from_error files every failure under a failure kind.
LEMMA PoolKindType ==
  ASSUME NEW kind \in FailureKinds, NEW failoverProbe \in BOOLEAN
  PROVE  PoolKind(kind, failoverProbe) \in FailureKinds
  BY DEF PoolKind, FailureKinds

LEMMA LaterIsMax ==
  ASSUME NEW a \in Nat, NEW b \in Nat
  PROVE  Later(a, b) \in Nat /\ Later(a, b) >= a /\ Later(a, b) >= b
         /\ Later(a, b) \in {a, b}
  BY DEF Later

LEMMA RowFields ==
  ASSUME NEW row \in Rows
  PROVE  /\ row.until \in Nat /\ row.kind \in PoolKinds \cup {"none"}
         /\ row.kind = "none" => row.until = 0
  BY DEF Rows, NoRow, PoolKinds

\* Marking yields a row, and never one that ends earlier.
LEMMA MarkType ==
  ASSUME NEW row \in Rows, NEW kind \in PoolKinds, NEW until \in Nat
  PROVE  /\ MarkUnavailable(row, kind, until) \in Rows
         /\ MarkUnavailable(row, kind, until) \in {row, Row(kind, until)}
  BY DEF MarkUnavailable, Rows, Row, PoolKinds

\* A probe leaves a row alone unless its cooldown is over; then it removes it
\* or gives it a cooldown that ends in the future.
LEMMA HealthType ==
  ASSUME NEW row \in Rows, NEW answer \in Answers, now \in Nat
  PROVE  /\ ApplyHealth(row, answer) \in Rows
         /\ \/ ApplyHealth(row, answer) = row
            \/ /\ row.kind \in HealthKinds /\ row.until <= now
               /\ \/ ApplyHealth(row, answer) = NoRow
                  \/ /\ ApplyHealth(row, answer).kind \in PoolKinds
                     /\ ApplyHealth(row, answer).until > now
  <1> USE CooldownsAssumption DEF Rows, Row, NoRow, PoolKinds, HealthKinds
  <1>1. CASE row.kind \in {"none", "permanent"} \/ row.until > now
    BY <1>1 DEF ApplyHealth, ProbedRow
  <1>2. CASE ~(row.kind \in {"none", "permanent"} \/ row.until > now)
    <2>1. row.kind \in HealthKinds /\ row.until <= now
      BY <1>2
    <2>2. CASE answer = "gone"
      BY <1>2, <2>1, <2>2 DEF ApplyHealth, ProbedRow
    <2>3. CASE answer = "auth_error"
      BY <1>2, <2>1, <2>3 DEF ApplyHealth, ProbedRow
    <2>4. CASE answer = "warn"
      BY <1>2, <2>1, <2>4 DEF ApplyHealth, ProbedRow
    <2>5. CASE answer = "down"
      BY <1>2, <2>1, <2>5 DEF ApplyHealth, ProbedRow
    <2>6. CASE answer = "ok"
      BY <1>2, <2>1, <2>6 DEF ApplyHealth, ProbedRow
    <2> QED BY <2>2, <2>3, <2>4, <2>5, <2>6 DEF Answers
  <1> QED BY <1>1, <1>2

LEMMA LoopStateType ==
  ASSUME NEW due \in SUBSET Models, NEW known \in SUBSET Models,
         NEW target \in Models \cup {NoModel}
  PROVE  LoopState(due, known, target) \in
           [due : SUBSET Models, known : SUBSET Models, target : Models \cup {NoModel}]
  BY DEF LoopState

(***************************************************************************)
(* Type correctness.                                                       *)
(***************************************************************************)

LEMMA AnswerType ==
  ASSUME TypeOK, NEW m \in Models, NEW answer \in Answers, Answer(m, answer)
  PROVE  unavail' \in [Models -> Rows] /\ owed' \in [Models -> Nat]
  <1>1. ApplyHealth(unavail[m], answer) \in Rows
    BY HealthType DEF TypeOK
  <1>2. Later(owed[m], ApplyHealth(unavail[m], answer).until) \in Nat
    BY <1>1, LaterIsMax, RowFields DEF TypeOK
  <1> QED BY <1>1, <1>2 DEF Answer, TypeOK

LEMMA TypeInit == Init => TypeOK
  <1> SUFFICES ASSUME Init PROVE TypeOK
    OBVIOUS
  <1>1. loop \in [due : SUBSET Models, known : SUBSET Models, target : Models \cup {NoModel}]
    BY LoopStateType DEF Init
  <1> QED
    BY <1>1, PoolAssumption
    DEF Init, TypeOK, NoRow, Rows, PoolKinds, NoVerdict, NoVerdicts, Verdicts, DashIdle

LEMMA TypeStep == TypeOK /\ [Next]_vars => TypeOK'
  <1> SUFFICES ASSUME TypeOK, [Next]_vars PROVE TypeOK'
    OBVIOUS
  <1> USE PoolAssumption
  <1>1. ASSUME NEW m \in Models, Send(m) PROVE TypeOK'
    BY <1>1 DEF Send, TypeOK
  <1>2. ASSUME NEW m \in Models, Succeed(m) PROVE TypeOK'
    BY <1>2 DEF Succeed, TypeOK
  <1>3. ASSUME NEW m \in Models, NEW kind \in Failures, NEW delay \in ResetDelays,
               NEW failoverProbe \in BOOLEAN, Fail(m, kind, delay, failoverProbe)
        PROVE  TypeOK'
    <2>1. inflight' \in [Models -> 0..MaxInflight]
      BY <1>3 DEF Fail, TypeOK
    <2> DEFINE poolKind == PoolKind(kind, failoverProbe)
    <2>2. poolKind \in FailureKinds
      BY PoolKindType
    <2>3. unavail' \in [Models -> Rows] /\ owed' \in [Models -> Nat]
      <3>1. CASE UNCHANGED <<unavail, owed>>
        BY <3>1 DEF TypeOK
      <3>2. ASSUME NEW until \in CooldownUntil(poolKind, now, delay),
                   unavail' = [unavail EXCEPT ![m] = MarkUnavailable(@, poolKind, until)],
                   owed' = [owed EXCEPT ![m] = Later(@, until)]
            PROVE  unavail' \in [Models -> Rows] /\ owed' \in [Models -> Nat]
        <4>1. until \in Nat /\ poolKind \in PoolKinds
          BY <2>2, CooldownUntilFuture DEF TypeOK
        <4>2. MarkUnavailable(unavail[m], poolKind, until) \in Rows
          BY <4>1, MarkType DEF TypeOK
        <4>3. Later(owed[m], until) \in Nat
          BY <4>1, LaterIsMax DEF TypeOK
        <4> QED BY <3>2, <4>2, <4>3 DEF TypeOK
      <3> QED BY <1>3, <3>1, <3>2 DEF Fail
    <2> QED BY <1>3, <2>1, <2>3 DEF Fail, TypeOK
  <1>4. ASSUME NEW names \in SUBSET Models, Reload(names) PROVE TypeOK'
    BY <1>4 DEF Reload, TypeOK, NoRow, Rows
  <1>5. CASE LoopStart
    BY <1>5, LoopStateType DEF LoopStart, TypeOK, DueForHealth
  <1>6. ASSUME NEW m \in Models, LoopProbe(m) PROVE TypeOK'
    <2>1. loop.due \ {m} \in SUBSET Models /\ loop.known \in SUBSET Models
          /\ (IF m \in loop.known THEN m ELSE NoModel) \in Models \cup {NoModel}
      BY DEF TypeOK
    <2> QED BY <1>6, <2>1, LoopStateType DEF LoopProbe, TypeOK
  <1>7. ASSUME NEW answer \in Answers, LoopAnswer(answer) PROVE TypeOK'
    <2>1. loop.target \in Models /\ Answer(loop.target, answer)
      BY <1>7 DEF LoopAnswer, TypeOK
    <2>2. unavail' \in [Models -> Rows] /\ owed' \in [Models -> Nat]
      BY <2>1, AnswerType
    <2>3. loop' \in [due : SUBSET Models, known : SUBSET Models, target : Models \cup {NoModel}]
      BY <1>7, LoopStateType DEF LoopAnswer, TypeOK
    <2> QED BY <1>7, <2>2, <2>3 DEF LoopAnswer, TypeOK
  <1>8. ASSUME NEW m \in Models, TestProbe(m) PROVE TypeOK'
    BY <1>8 DEF TestProbe, TypeOK
  <1>9. ASSUME NEW answer \in Answers, TestAnswer(answer) PROVE TypeOK'
    <2>1. test \in Models /\ Answer(test, answer)
      BY <1>9 DEF TestAnswer, TypeOK
    <2>2. unavail' \in [Models -> Rows] /\ owed' \in [Models -> Nat]
      BY <2>1, AnswerType
    <2> QED BY <1>9, <2>2 DEF TestAnswer, TypeOK
  <1>10. CASE DashStart
    BY <1>10 DEF DashStart, TypeOK, NoVerdicts, Verdicts
  <1>11. ASSUME NEW m \in Models, DashCached(m) PROVE TypeOK'
    BY <1>11 DEF DashCached, TypeOK
  <1>12. ASSUME NEW m \in Models, NEW answer \in Answers, DashProbe(m, answer) PROVE TypeOK'
    <2>1. answer \in Verdicts
      BY DEF Verdicts
    <2>2. cache' \in [Models -> [state : Verdicts, at : Nat]]
      BY <1>12, <2>1 DEF DashProbe, TypeOK
    <2>3. dash' = [dash EXCEPT !.left = dash.left \ {m}, !.health[m] = answer]
      BY <1>12 DEF DashProbe
    <2>4. dash' \in [on : BOOLEAN, polls : 0..MaxPolls, began : Nat, left : SUBSET Models,
                     health : [Models -> Verdicts]]
      BY <2>1, <2>3 DEF TypeOK
    <2> QED BY <1>12, <2>2, <2>4 DEF DashProbe, TypeOK
  <1>13. ASSUME NEW answers \in [Models -> Answers], DashReconcile(answers) PROVE TypeOK'
    <2>1. \A m \in Models : (IF dash.health[m] # "none" THEN dash.health[m] ELSE answers[m]) \in Answers
      BY DEF TypeOK, Verdicts
    <2>2. \A m \in Models :
            ApplyHealth(unavail[m],
              IF dash.health[m] # "none" THEN dash.health[m] ELSE answers[m]) \in Rows
      BY <2>1, HealthType DEF TypeOK
    <2>3. unavail' \in [Models -> Rows]
      BY <1>13, <2>2 DEF DashReconcile, TypeOK
    <2>4. owed' \in [Models -> Nat]
      BY <1>13, <2>3, LaterIsMax, RowFields DEF DashReconcile, TypeOK
    <2>5. dash' = DashIdle(dash.polls)
      BY <1>13 DEF DashReconcile
    <2> QED BY <1>13, <2>3, <2>4, <2>5 DEF DashReconcile, TypeOK, DashIdle, NoVerdicts, Verdicts
  <1>14. CASE Tick
    BY <1>14 DEF Tick, TypeOK
  <1>15. CASE UNCHANGED vars
    BY <1>15 DEF vars, TypeOK
  <1> QED
    BY <1>1, <1>2, <1>3, <1>4, <1>5, <1>6, <1>7, <1>8, <1>9, <1>10, <1>11, <1>12, <1>13,
       <1>14, <1>15
    DEF Next, HealthLoop, Dashboard

\* Every variable of the pool keeps its type.
THEOREM TypeCorrect == Spec => []TypeOK
  BY TypeInit, TypeStep, PTL DEF Spec

(***************************************************************************)
(* No cooldown is cut short.                                               *)
(***************************************************************************)

\* What CooldownHonoured says of one row, the longest cooldown imposed on its
\* model, and the time.
Honours(row, longest, t) ==
  IF row.kind # "none" THEN row.kind = "permanent" \/ row.until >= longest ELSE longest <= t

\* mark_unavailable keeps the row at least as long as the new cooldown too.
LEMMA MarkHonours ==
  ASSUME NEW row \in Rows, NEW longest \in Nat, NEW t \in Nat,
         NEW kind \in PoolKinds, NEW until \in Nat, until > t,
         Honours(row, longest, t)
  PROVE  Honours(MarkUnavailable(row, kind, until), Later(longest, until), t)
  BY RowFields DEF Honours, MarkUnavailable, Later, Row, PoolKinds

\* apply_health drops a row only after the longest cooldown, and a row it
\* replaces reaches beyond it.
LEMMA HealthHonours ==
  ASSUME NEW row \in Rows, NEW longest \in Nat, NEW answer \in Answers, now \in Nat,
         Honours(row, longest, now)
  PROVE  Honours(ApplyHealth(row, answer), Later(longest, ApplyHealth(row, answer).until), now)
  <1> DEFINE new == ApplyHealth(row, answer)
  <1>1. new \in Rows
    BY HealthType
  <1>2. CASE new = row
    BY <1>2 DEF Honours, Later, Rows, NoRow, PoolKinds
  <1>3. CASE new = NoRow /\ row.kind \in HealthKinds /\ row.until <= now
    BY <1>3 DEF Honours, Later, Rows, NoRow, HealthKinds, PoolKinds
  <1>4. CASE /\ row.kind \in HealthKinds /\ row.until <= now
             /\ new.kind \in PoolKinds /\ new.until > now
    <2> DEFINE kind == new.kind
               until == new.until
    <2>1. kind # "none" /\ kind \in PoolKinds /\ until \in Nat /\ until > now
      BY <1>1, <1>4, RowFields DEF PoolKinds
    <2>2. longest <= now
      BY <1>4, RowFields DEF Honours, HealthKinds, PoolKinds
    <2>3. until >= Later(longest, until)
      BY <2>1, <2>2 DEF Later
    <2> QED BY <2>1, <2>3 DEF Honours
  <1> QED BY <1>2, <1>3, <1>4, HealthType

LEMMA HonouredIsHonours ==
  CooldownHonoured <=> \A m \in Models \ forgotten : Honours(unavail[m], owed[m], now)
  BY DEF CooldownHonoured, IsUnavailable, Honours

LEMMA AnswerHonours ==
  ASSUME TypeOK, CooldownHonoured, NEW m \in Models, NEW answer \in Answers,
         Answer(m, answer), now' = now, forgotten' = forgotten
  PROVE  CooldownHonoured'
  <1> SUFFICES ASSUME NEW x \in Models \ forgotten
               PROVE  Honours(unavail'[x], owed'[x], now)
    BY HonouredIsHonours DEF CooldownHonoured, IsUnavailable, Honours
  <1>1. Honours(unavail[x], owed[x], now)
    BY HonouredIsHonours
  <1>2. CASE x = m
    <2>1. unavail'[x] = ApplyHealth(unavail[x], answer)
          /\ owed'[x] = Later(owed[x], ApplyHealth(unavail[x], answer).until)
      BY <1>2 DEF Answer, TypeOK
    <2> QED BY <1>1, <2>1, HealthHonours DEF TypeOK
  <1>3. CASE x # m
    BY <1>1, <1>3 DEF Answer, TypeOK
  <1> QED BY <1>2, <1>3

LEMMA HonoursStep == TypeOK /\ CooldownHonoured /\ [Next]_vars => CooldownHonoured'
  <1> SUFFICES ASSUME TypeOK, CooldownHonoured, [Next]_vars PROVE CooldownHonoured'
    OBVIOUS
  <1> USE PoolAssumption
  <1>1. CASE UNCHANGED <<now, unavail, owed, forgotten>>
    BY <1>1 DEF CooldownHonoured, IsUnavailable
  <1>2. ASSUME NEW m \in Models, NEW kind \in Failures, NEW delay \in ResetDelays,
               NEW failoverProbe \in BOOLEAN, Fail(m, kind, delay, failoverProbe)
        PROVE  CooldownHonoured'
    <2> DEFINE poolKind == PoolKind(kind, failoverProbe)
    <2>1. CASE UNCHANGED <<unavail, owed>>
      BY <1>2, <2>1, <1>1 DEF Fail
    <2>2. ASSUME NEW until \in CooldownUntil(poolKind, now, delay),
                 unavail' = [unavail EXCEPT ![m] = MarkUnavailable(@, poolKind, until)],
                 owed' = [owed EXCEPT ![m] = Later(@, until)]
          PROVE  CooldownHonoured'
      <3>1. until \in Nat /\ until > now /\ poolKind \in PoolKinds
        BY PoolKindType, CooldownUntilFuture DEF TypeOK
      <3>2. ASSUME NEW x \in Models \ forgotten
            PROVE  Honours(unavail'[x], owed'[x], now)
        <4>1. Honours(unavail[x], owed[x], now)
          BY HonouredIsHonours
        <4>2. CASE x = m
          BY <2>2, <3>1, <4>1, <4>2, MarkHonours DEF TypeOK
        <4>3. CASE x # m
          BY <2>2, <4>1, <4>3 DEF TypeOK
        <4> QED BY <4>2, <4>3
      <3>3. now' = now /\ forgotten' = forgotten
        BY <1>2 DEF Fail
      <3> QED BY <3>2, <3>3 DEF CooldownHonoured, IsUnavailable, Honours
    <2> QED BY <1>2, <2>1, <2>2 DEF Fail
  <1>3. ASSUME NEW names \in SUBSET Models, Reload(names) PROVE CooldownHonoured'
    <2> SUFFICES ASSUME NEW x \in Models \ forgotten'
                 PROVE  Honours(unavail'[x], owed'[x], now')
      BY DEF CooldownHonoured, IsUnavailable, Honours
    <2>1. x \in Models \ forgotten /\ (x \notin names => ~IsUnavailable(x))
      BY <1>3 DEF Reload
    <2>2. Honours(unavail[x], owed[x], now)
      BY <2>1, HonouredIsHonours
    <2> QED BY <1>3, <2>1, <2>2 DEF Reload, Honours, IsUnavailable, NoRow
  <1>4. ASSUME NEW answer \in Answers, LoopAnswer(answer) PROVE CooldownHonoured'
    BY <1>4, AnswerHonours DEF LoopAnswer, TypeOK
  <1>5. ASSUME NEW answer \in Answers, TestAnswer(answer) PROVE CooldownHonoured'
    BY <1>5, AnswerHonours DEF TestAnswer, TypeOK
  <1>6. ASSUME NEW answers \in [Models -> Answers], DashReconcile(answers) PROVE CooldownHonoured'
    <2> SUFFICES ASSUME NEW x \in Models \ forgotten
                 PROVE  Honours(unavail'[x], owed'[x], now)
      BY <1>6 DEF DashReconcile, CooldownHonoured, IsUnavailable, Honours
    <2> DEFINE verdict == IF dash.health[x] # "none" THEN dash.health[x] ELSE answers[x]
    <2>1. Honours(unavail[x], owed[x], now)
      BY HonouredIsHonours
    <2>2. verdict \in Answers
      BY DEF TypeOK, Verdicts
    <2>3. unavail'[x] \in {unavail[x], ApplyHealth(unavail[x], verdict)}
          /\ owed'[x] = Later(owed[x], unavail'[x].until)
      BY <1>6 DEF DashReconcile
    <2>4. CASE unavail'[x] = unavail[x]
      BY <2>1, <2>3, <2>4 DEF Honours, Later, TypeOK, Rows, NoRow, PoolKinds
    <2>5. CASE unavail'[x] = ApplyHealth(unavail[x], verdict)
      BY <2>1, <2>2, <2>3, <2>5, HealthHonours DEF TypeOK
    <2> QED BY <2>3, <2>4, <2>5
  <1>7. CASE Tick
    BY <1>7 DEF Tick, CooldownHonoured, IsUnavailable, TypeOK
  <1> QED
    BY <1>1, <1>2, <1>3, <1>4, <1>5, <1>6, <1>7
    DEF Next, HealthLoop, Dashboard, Send, Succeed, LoopStart, LoopProbe, TestProbe,
        DashStart, DashCached, DashProbe, vars

\* No interleaving of failures, probes, tests, dashboard polls and reloads puts
\* a model back before the longest cooldown imposed on it, unless a reload has
\* dropped its row.
THEOREM CooldownsHonoured == Spec => []CooldownHonoured
  <1>1. Init => CooldownHonoured
    BY DEF Init, CooldownHonoured, IsUnavailable, NoRow
  <1> QED BY <1>1, HonoursStep, TypeCorrect, PTL DEF Spec

(***************************************************************************)
(* The pool implements PoolPromise.                                        *)
(***************************************************************************)

StatusMap == [m \in Models |-> Status(m)]

LEMMA StatusType == TypeOK => StatusMap \in [Models -> Promise!Statuses]
  BY DEF StatusMap, Status, Promise!Statuses

\* A step that only lets probes decide about due rows is a step of the promise.
LEMMA ProbeStep ==
  ASSUME TypeOK, TypeOK', now' = now, registry' = registry,
         \A m \in Models : \/ unavail'[m] = unavail[m]
                           \/ unavail[m].kind \in HealthKinds /\ unavail[m].until <= now
  PROVE  Promise!Probe
  <1>1. StatusMap' \in [Models -> Promise!Statuses]
    BY StatusType DEF StatusMap, Status, Promise!Statuses
  <1>2. ASSUME NEW m \in Models, Status(m)' # Status(m)
        PROVE  Status(m) = "due"
    <2>1. unavail[m].kind \in HealthKinds /\ unavail[m].until <= now
      BY <1>2 DEF Status
    <2>2. unavail[m].kind # "none" /\ unavail[m].kind # "permanent" /\ ~(unavail[m].until > now)
      BY <2>1, RowFields DEF HealthKinds, PoolKinds, TypeOK
    <2> QED BY <2>2 DEF Status
  <1> QED BY <1>1, <1>2 DEF Promise!Probe, StatusMap

LEMMA AnswerProbes ==
  ASSUME TypeOK, TypeOK', NEW m \in Models, NEW answer \in Answers, Answer(m, answer),
         now' = now, registry' = registry
  PROVE  Promise!Probe
  <1>1. ASSUME NEW x \in Models
        PROVE  \/ unavail'[x] = unavail[x]
               \/ unavail[x].kind \in HealthKinds /\ unavail[x].until <= now
    BY HealthType DEF Answer, TypeOK
  <1> QED BY <1>1, ProbeStep

\* A failure leaves the row, or replaces one that is not permanent (or both are)
\* by one whose cooldown is running.
LEMMA FailImposes ==
  ASSUME TypeOK, NEW m \in Models, NEW kind \in PoolKinds, NEW until \in Nat, until > now,
         unavail' = [unavail EXCEPT ![m] = MarkUnavailable(@, kind, until)],
         now' = now, registry' = registry
  PROVE  Promise!Impose(m) \/ UNCHANGED Promise!vars
  <1>1. CASE unavail'[m] = unavail[m]
    <2>1. unavail' = unavail
      BY <1>1 DEF TypeOK
    <2> QED BY <2>1 DEF Promise!vars, Status
  <1>2. CASE unavail'[m] # unavail[m]
    <2>1. /\ unavail'[m] = Row(kind, until)
          /\ unavail[m].kind = "permanent" => kind = "permanent"
      BY <1>2 DEF MarkUnavailable, TypeOK
    <2>2. \A x \in Models : x # m => Status(x)' = Status(x)
      BY DEF Status, TypeOK
    <2>3. Status(m)' = IF kind = "permanent" THEN "gone" ELSE "cooling"
      <3>1. unavail'[m].kind = kind /\ unavail'[m].until = until /\ kind # "none"
        BY <2>1 DEF Row, PoolKinds
      <3> QED BY <3>1 DEF Status
    <2>4. CASE unavail[m].kind = "permanent"
      <3>1. Status(m) = "gone" /\ Status(m)' = "gone"
        BY <2>1, <2>3, <2>4 DEF Status
      <3> QED BY <2>2, <3>1 DEF Promise!vars
    <2>5. CASE unavail[m].kind # "permanent"
      <3>1. Status(m) # "gone"
        BY <2>5 DEF Status
      <3>2. StatusMap' = [StatusMap EXCEPT ![m] = Status(m)']
        BY <2>2 DEF StatusMap
      <3>3. Status(m)' \in {"cooling", "gone"}
        BY <2>3
      <3> QED BY <3>1, <3>2, <3>3 DEF Promise!Impose, StatusMap
    <2> QED BY <2>4, <2>5
  <1> QED BY <1>1, <1>2

LEMMA PromiseStep == TypeOK /\ TypeOK' /\ [Next]_vars => [Promise!Next]_(Promise!vars)
  <1> SUFFICES ASSUME TypeOK, TypeOK', [Next]_vars
               PROVE  Promise!Next \/ UNCHANGED Promise!vars
    OBVIOUS
  <1> USE PoolAssumption
  <1>1. CASE UNCHANGED <<now, registry, unavail>>
    BY <1>1 DEF Promise!vars, Status
  <1>2. ASSUME NEW m \in Models, NEW kind \in Failures, NEW delay \in ResetDelays,
               NEW failoverProbe \in BOOLEAN, Fail(m, kind, delay, failoverProbe)
        PROVE  Promise!Next \/ UNCHANGED Promise!vars
    <2> DEFINE poolKind == PoolKind(kind, failoverProbe)
    <2>1. CASE UNCHANGED <<unavail, owed>>
      BY <1>1, <1>2, <2>1 DEF Fail
    <2>2. ASSUME NEW until \in CooldownUntil(poolKind, now, delay),
                 unavail' = [unavail EXCEPT ![m] = MarkUnavailable(@, poolKind, until)]
          PROVE  Promise!Next \/ UNCHANGED Promise!vars
      <3>1. until \in Nat /\ until > now /\ poolKind \in PoolKinds
        BY PoolKindType, CooldownUntilFuture DEF TypeOK
      <3>2. now' = now /\ registry' = registry
        BY <1>2 DEF Fail
      <3> QED BY <2>2, <3>1, <3>2, FailImposes DEF Promise!Next
    <2> QED BY <1>2, <2>1, <2>2 DEF Fail
  <1>3. ASSUME NEW names \in SUBSET Models, Reload(names) PROVE Promise!Reload
    <2>1. \A m \in Models : Status(m)' = IF m \in names THEN Status(m) ELSE "available"
      BY <1>3 DEF Reload, Status, NoRow
    <2> QED BY <1>3, <2>1 DEF Reload, Promise!Reload
  <1>4. ASSUME NEW answer \in Answers, LoopAnswer(answer) PROVE Promise!Probe
    BY <1>4, AnswerProbes DEF LoopAnswer, TypeOK
  <1>5. ASSUME NEW answer \in Answers, TestAnswer(answer) PROVE Promise!Probe
    BY <1>5, AnswerProbes DEF TestAnswer, TypeOK
  <1>6. ASSUME NEW answers \in [Models -> Answers], DashReconcile(answers) PROVE Promise!Probe
    <2>1. ASSUME NEW m \in Models
          PROVE  \/ unavail'[m] = unavail[m]
                 \/ unavail[m].kind \in HealthKinds /\ unavail[m].until <= now
      BY <1>6 DEF DashReconcile, IsDue
    <2> QED BY <1>6, <2>1, ProbeStep DEF DashReconcile
  <1>7. CASE Tick
    <2>1. StatusMap' \in [Models -> Promise!Statuses]
      BY StatusType DEF StatusMap, Status, Promise!Statuses
    <2>2. ASSUME NEW m \in Models, Status(m)' # Status(m)
          PROVE  Status(m) = "cooling" /\ Status(m)' = "due"
      <3>1. unavail'[m] = unavail[m] /\ now' = now + 1 /\ now \in Nat
        BY <1>7 DEF Tick, TypeOK
      <3>2. unavail[m].until \in Nat
        BY RowFields DEF TypeOK
      <3> QED BY <2>2, <3>1, <3>2 DEF Status
    <2> QED BY <1>7, <2>1, <2>2 DEF Tick, Promise!Next, Promise!Elapse, StatusMap
  <1> QED
    BY <1>1, <1>2, <1>3, <1>4, <1>5, <1>6, <1>7
    DEF Next, HealthLoop, Dashboard, Send, Succeed, LoopStart, LoopProbe, TestProbe,
        DashStart, DashCached, DashProbe, vars, Promise!Next

\* Every behaviour of the pool is one the promise allows: a loaded model comes
\* back only by a probe made once its cooldown is over.
THEOREM PoolImplementsPromise == Spec => ImplementsPromise
  <1>1. Init => Promise!Init
    BY DEF Init, Promise!Init, Status, NoRow
  <1> QED BY <1>1, PromiseStep, TypeCorrect, PTL DEF Spec, ImplementsPromise, Promise!Spec

==============================================================================
