-------------------------- MODULE GeminiCascadeProofs --------------------------
(***************************************************************************)
(* Theorems about GeminiCascade for any members, rosters, walks, durations    *)
(* and number of reloads: types, and that members rest.                       *)
(***************************************************************************)
EXTENDS GeminiCascadeProps, TLAPS

WalkType == [pc : {"idle", "calling"}, by : Nat, at : Nat]

LEMMA UntilTypes ==
  ASSUME NEW kind \in FailureKinds, NEW t \in Nat, NEW delay \in ResetDelays
  PROVE  \A until \in CooldownUntil(kind, t, delay) : until \in Nat /\ until > t
  BY CooldownsAssumption DEF CooldownUntil, FailureKinds, ResetDelays

LEMMA RosterTypes ==
  ASSUME NEW roster \in Rosters
  PROVE  /\ roster \in Seq(Members) /\ Len(roster) \in Nat
         /\ \A i \in 1..Len(roster) : roster[i] \in Members
  BY CascadeAssumption

\* What a walk in progress refers to.
LEMMA CallingTypes ==
  ASSUME TypeOK, NEW w \in Walks, walk[w].pc = "calling"
  PROVE  /\ walk[w].by \in 1..manager /\ walk[w].by \in Managers
         /\ models[walk[w].by] \in Rosters
         /\ walk[w].at \in 1..Len(models[walk[w].by])
         /\ Member(w) \in Members /\ Lists(models[walk[w].by], Member(w))
  <1>1. walk[w].by \in 1..manager /\ walk[w].at \in 1..Len(models[walk[w].by])
    BY DEF TypeOK
  <1>2. walk[w].by \in Managers
    <2>1. manager \in Managers /\ MaxManagers \in Nat
      BY CascadeAssumption DEF TypeOK
    <2> QED BY <1>1, <2>1 DEF Managers
  <1>3. models[walk[w].by] \in Rosters
    BY <1>2 DEF TypeOK
  <1> QED BY <1>1, <1>2, <1>3, RosterTypes DEF Member, Lists

\* Where the loop can go from position i of manager g.
LEMMA Proceeds ==
  ASSUME TypeOK, NEW w \in Walks, NEW g \in 1..manager, NEW i \in Nat, Proceed(w, g, i)
  PROVE  /\ walk' \in [Walks -> WalkType]
         /\ \A v \in Walks \ {w} : walk'[v] = walk[v]
         /\ \/ walk'[w] = Idle
            \/ \E j \in 1..Len(models[g]) : j > i /\ Open(g, j) /\ walk'[w] = Calling(g, j)
  <1> USE CascadeAssumption
  <1>0. g \in Nat /\ Len(models[g]) \in Nat
    <2>1. manager \in Managers
      BY DEF TypeOK
    <2>2. g \in Nat /\ g \in Managers
      BY <2>1 DEF Managers
    <2>3. models[g] \in Rosters
      BY <2>2 DEF TypeOK
    <2> QED BY <2>2, <2>3, RosterTypes
  <1>1. walk \in [Walks -> WalkType]
    BY DEF TypeOK, WalkType
  <1>2. CASE walk' = [walk EXCEPT ![w] = Idle]
    BY <1>1, <1>2 DEF Idle, WalkType
  <1>3. CASE \E j \in Following(g, i) : walk' = [walk EXCEPT ![w] = Calling(g, j)]
    <2>1. PICK j \in Following(g, i) : walk' = [walk EXCEPT ![w] = Calling(g, j)]
      BY <1>3
    <2>2. j \in 1..Len(models[g]) /\ j > i /\ Open(g, j) /\ j \in Nat
      BY <1>0, <2>1 DEF Following
    <2>3. Calling(g, j) \in WalkType
      BY <1>0, <2>2 DEF Calling, WalkType
    <2> QED BY <1>1, <2>1, <2>2, <2>3
  <1> QED BY <1>2, <1>3 DEF Proceed

\* TypeOK after a step that leaves managers alone and moves one walk.
LEMMA TypeOfWalk ==
  ASSUME TypeOK, NEW w \in Walks, UNCHANGED <<now, manager, models>>,
         walk' \in [Walks -> WalkType], \A v \in Walks \ {w} : walk'[v] = walk[v],
         \/ walk'[w] = Idle
         \/ \E g \in 1..manager : \E j \in 1..Len(models[g]) : walk'[w] = Calling(g, j)
  PROVE  \A v \in Walks : walk'[v].pc = "calling" =>
           walk'[v].by \in 1..manager' /\ walk'[v].at \in 1..Len(models'[walk'[v].by])
  <1> SUFFICES ASSUME NEW v \in Walks, walk'[v].pc = "calling"
               PROVE  walk'[v].by \in 1..manager /\ walk'[v].at \in 1..Len(models[walk'[v].by])
    OBVIOUS
  <1>1. CASE v = w
    BY <1>1 DEF Idle, Calling
  <1>2. CASE v # w
    BY <1>2 DEF TypeOK
  <1> QED BY <1>1, <1>2

LEMMA TypeInit == Init => TypeOK
  <1> SUFFICES ASSUME Init PROVE TypeOK
    OBVIOUS
  <1> USE CascadeAssumption
  <1>1. PICK roster \in Rosters : models = [g \in Managers |-> roster]
    BY DEF Init
  <1>2. PICK found \in [Members -> Loaded \cup {0}] :
          cooldown = [g \in Managers |->
                        IF g = 1 THEN Adopted(models[1], found) ELSE [m \in Members |-> 0]]
    BY DEF Init
  <1>3. Adopted(models[1], found) \in [Members -> Nat]
    <2>1. Loaded \cup {0} \subseteq Nat
      OBVIOUS
    <2>2. \A m \in Members : found[m] \in Loaded \cup {0}
      BY <1>2
    <2>3. \A m \in Members : found[m] \in Nat
      BY <2>1, <2>2
    <2> QED BY <2>3 DEF Adopted
  <1>4. cooldown \in [Managers -> [Members -> Nat]]
    BY <1>2, <1>3
  <1>5. manager \in Managers
    BY DEF Init, Managers
  <1>6. \A g \in Managers : \A m \in Members : cooldown[g][m] > 0 => Lists(models[g], m)
    BY <1>2, <1>5 DEF Adopted
  <1>7. walk \in [Walks -> WalkType]
    BY DEF Init, Idle, WalkType
  <1>8. owed \in [Members -> Nat]
    BY <1>4, <1>5 DEF Init
  <1> QED BY <1>1, <1>4, <1>5, <1>6, <1>7, <1>8 DEF Init, TypeOK, WalkType, Idle

LEMMA TypeStep == TypeOK /\ [Next]_vars => TypeOK'
  <1> SUFFICES ASSUME TypeOK, [Next]_vars PROVE TypeOK'
    OBVIOUS
  <1> USE CascadeAssumption
  <1>0. manager \in Nat /\ manager \in 1..manager /\ now \in Nat
    BY DEF TypeOK, Managers
  <1>1. ASSUME NEW w \in Walks, Begin(w) PROVE TypeOK'
    <2>1. Proceed(w, manager, 0) /\ UNCHANGED <<now, manager, models, cooldown, owed, missed>>
      BY <1>1 DEF Begin
    <2>2. /\ walk' \in [Walks -> WalkType]
          /\ \A v \in Walks \ {w} : walk'[v] = walk[v]
          /\ \/ walk'[w] = Idle
             \/ \E j \in 1..Len(models[manager]) : walk'[w] = Calling(manager, j)
      BY <1>0, <2>1, Proceeds
    <2>3. \A v \in Walks : walk'[v].pc = "calling" =>
            walk'[v].by \in 1..manager' /\ walk'[v].at \in 1..Len(models'[walk'[v].by])
      BY <1>0, <2>1, <2>2, TypeOfWalk
    <2> QED BY <2>1, <2>2, <2>3 DEF TypeOK, WalkType
  <1>2. ASSUME NEW w \in Walks, Succeed(w) \/ TimeOut(w) PROVE TypeOK'
    <2>1. /\ walk[w].pc = "calling" /\ walk' = [walk EXCEPT ![w] = Idle]
          /\ UNCHANGED <<now, manager, models, cooldown>>
      BY <1>2 DEF Succeed, TimeOut
    <2>2. Member(w) \in Members
      BY <2>1, CallingTypes
    <2>3. owed' \in [Members -> Nat] /\ missed' \subseteq Members
      <3>1. now + RateCooldown \in Nat /\ owed \in [Members -> Nat] /\ missed \subseteq Members
        BY <1>0, CooldownsAssumption DEF TypeOK
      <3>2. CASE Succeed(w)
        BY <3>1, <3>2 DEF Succeed
      <3>3. CASE TimeOut(w)
        <4>1. owed' = [owed EXCEPT ![Member(w)] = Later(@, now + RateCooldown)]
              /\ missed' = missed \cup {Member(w)}
          BY <3>3 DEF TimeOut
        <4> QED BY <2>2, <3>1, <4>1 DEF Later
      <3> QED BY <1>2, <3>2, <3>3
    <2>4. walk' \in [Walks -> WalkType] /\ \A v \in Walks \ {w} : walk'[v] = walk[v]
      BY <2>1 DEF TypeOK, WalkType, Idle
    <2>5. walk'[w] = Idle
      BY <2>1 DEF TypeOK
    <2>6. \A v \in Walks : walk'[v].pc = "calling" =>
            walk'[v].by \in 1..manager' /\ walk'[v].at \in 1..Len(models'[walk'[v].by])
      BY <2>1, <2>4, <2>5, TypeOfWalk
    <2> QED BY <2>1, <2>3, <2>4, <2>6 DEF TypeOK, WalkType
  <1>3. ASSUME NEW w \in Walks, NEW kind \in Kinds, NEW delay \in ResetDelays,
               MemberFails(w, kind, delay)
        PROVE  TypeOK'
    <2> DEFINE g == walk[w].by
               m == Member(w)
    <2>1. walk[w].pc = "calling" /\ UNCHANGED <<now, manager, models>> /\ Proceed(w, g, walk[w].at)
      BY <1>3 DEF MemberFails
    <2>2. /\ g \in 1..manager /\ g \in Managers /\ m \in Members /\ Lists(models[g], m)
          /\ walk[w].at \in Nat
      BY <2>1, CallingTypes DEF TypeOK
    <2>3. /\ walk' \in [Walks -> WalkType]
          /\ \A v \in Walks \ {w} : walk'[v] = walk[v]
          /\ \/ walk'[w] = Idle
             \/ \E j \in 1..Len(models[g]) : walk'[w] = Calling(g, j)
      BY <2>1, <2>2, Proceeds
    <2>4. \A v \in Walks : walk'[v].pc = "calling" =>
            walk'[v].by \in 1..manager' /\ walk'[v].at \in 1..Len(models'[walk'[v].by])
      BY <2>1, <2>2, <2>3, TypeOfWalk
    <2>5. /\ cooldown' \in [Managers -> [Members -> Nat]]
          /\ owed' \in [Members -> Nat] /\ missed' \subseteq Members
          /\ \A h \in Managers : \A n \in Members : cooldown'[h][n] > 0 => Lists(models[h], n)
      <3>1. CASE UNCHANGED <<cooldown, owed, missed>>
        BY <3>1 DEF TypeOK
      <3>2. CASE \E until \in CooldownUntil(kind, now, delay) :
                   /\ cooldown' = Rest(g, m, until)
                   /\ owed' = [owed EXCEPT ![m] = Later(@, until)]
                   /\ missed' = IF g = manager THEN missed ELSE missed \cup {m}
        <4>1. PICK until \in CooldownUntil(kind, now, delay) :
                   /\ cooldown' = Rest(g, m, until)
                   /\ owed' = [owed EXCEPT ![m] = Later(@, until)]
                   /\ missed' = IF g = manager THEN missed ELSE missed \cup {m}
          BY <3>2
        <4>2. until \in Nat
          BY <1>0, <4>1, UntilTypes
        <4>3. owed' \in [Members -> Nat] /\ missed' \subseteq Members
          BY <2>2, <4>1, <4>2 DEF TypeOK, Later
        <4>4. cooldown[g] \in [Members -> Nat]
          BY <2>2 DEF TypeOK
        <4>5. DEFINE rested == [cooldown[g] EXCEPT ![m] = IF until > @ THEN until ELSE @]
        <4>6. rested \in [Members -> Nat] /\ \A n \in Members \ {m} : rested[n] = cooldown[g][n]
          BY <2>2, <4>2, <4>4
        <4>7. cooldown' = [cooldown EXCEPT ![g] = rested]
          BY <2>2, <4>1, <4>4 DEF Rest, TypeOK
        <4> HIDE DEF rested
        <4>8. cooldown' \in [Managers -> [Members -> Nat]]
          BY <2>2, <4>6, <4>7 DEF TypeOK
        <4>9. ASSUME NEW h \in Managers, NEW n \in Members, cooldown'[h][n] > 0
              PROVE  Lists(models[h], n)
          <5>1. CASE h = g /\ n = m
            BY <2>2, <5>1
          <5>2. CASE ~(h = g /\ n = m)
            <6>1. cooldown'[h][n] = cooldown[h][n]
              BY <2>2, <4>6, <4>7, <5>2 DEF TypeOK
            <6> QED BY <4>9, <6>1 DEF TypeOK
          <5> QED BY <5>1, <5>2
        <4> QED BY <4>3, <4>8, <4>9
      <3> QED BY <1>3, <3>1, <3>2 DEF MemberFails
    <2> QED BY <2>1, <2>3, <2>4, <2>5 DEF TypeOK, WalkType
  <1>4. ASSUME NEW roster \in Rosters, Reload(roster) PROVE TypeOK'
    <2>1. manager' \in Managers /\ manager' = manager + 1 /\ now' = now /\ walk' = walk
      BY <1>0, <1>4 DEF Reload, Managers
    <2>2. models' = [models EXCEPT ![manager'] = roster] /\ models' \in [Managers -> Rosters]
      BY <1>4, <2>1 DEF Reload, TypeOK
    <2>3. Adopted(roster, cooldown[manager]) \in [Members -> Nat]
      BY DEF Adopted, TypeOK
    <2>4. /\ cooldown' = [cooldown EXCEPT ![manager'] = Adopted(roster, cooldown[manager])]
          /\ cooldown' \in [Managers -> [Members -> Nat]]
      BY <1>4, <2>1, <2>3 DEF Reload, TypeOK
    <2>5. owed' = owed /\ missed' \subseteq Members
      BY <1>4 DEF Reload, TypeOK
    <2>6. ASSUME NEW g \in Managers, NEW m \in Members, cooldown'[g][m] > 0
          PROVE  Lists(models'[g], m)
      <3>1. CASE g = manager'
        BY <2>1, <2>2, <2>4, <2>6, <3>1 DEF Adopted, TypeOK
      <3>2. CASE g # manager'
        BY <2>1, <2>2, <2>4, <2>6, <3>2 DEF TypeOK
      <3> QED BY <3>1, <3>2
    <2>7. ASSUME NEW w \in Walks, walk'[w].pc = "calling"
          PROVE  walk'[w].by \in 1..manager' /\ walk'[w].at \in 1..Len(models'[walk'[w].by])
      <3>1. walk[w].by \in 1..manager /\ walk[w].by \in Managers
            /\ walk[w].at \in 1..Len(models[walk[w].by])
        BY <2>1, <2>7, CallingTypes
      <3>2. models'[walk[w].by] = models[walk[w].by]
        BY <1>0, <2>1, <2>2, <3>1 DEF TypeOK
      <3> QED BY <1>0, <2>1, <3>1, <3>2
    <2> QED BY <2>1, <2>2, <2>4, <2>5, <2>6, <2>7 DEF TypeOK
  <1>5. CASE Tick
    BY <1>5 DEF Tick, TypeOK
  <1>6. CASE UNCHANGED vars
    BY <1>6 DEF vars, TypeOK
  <1> QED BY <1>1, <1>2, <1>3, <1>4, <1>5, <1>6 DEF Next, Returns

\* The cascade keeps its types; no manager holds a cooldown of a member it does
\* not list.
THEOREM TypeCorrect == Spec => []TypeOK
  BY TypeInit, TypeStep, PTL DEF Spec

(***************************************************************************)
(* Rest.  The manager in service knows of every rest that is not over, except  *)
(* those of members with a failure that never reached it.                     *)
(***************************************************************************)
Knows(m) == m \in missed \/ owed[m] <= now \/ owed[m] <= cooldown[manager][m]
Known == \A m \in Members : Knows(m)

LEMMA KnownStep == TypeOK /\ Known /\ [Next]_vars => Known'
  <1> SUFFICES ASSUME TypeOK, Known, [Next]_vars, NEW m \in Members PROVE Knows(m)'
    BY DEF Known
  <1> USE CascadeAssumption
  <1>0. /\ manager \in Managers /\ now \in Nat /\ owed[m] \in Nat
        /\ cooldown[manager] \in [Members -> Nat] /\ cooldown[manager][m] \in Nat
        /\ Knows(m)
    BY DEF TypeOK, Known
  <1>1. ASSUME NEW w \in Walks, Begin(w) PROVE Knows(m)'
    BY <1>0, <1>1 DEF Begin, Knows
  <1>2. ASSUME NEW w \in Walks, Succeed(w) PROVE Knows(m)'
    BY <1>0, <1>2 DEF Succeed, Knows
  <1>3. ASSUME NEW w \in Walks, TimeOut(w) PROVE Knows(m)'
    <2>1. CASE m = Member(w)
      BY <1>3, <2>1 DEF TimeOut, Knows
    <2>2. CASE m # Member(w)
      <3>1. owed'[m] = owed[m]
        BY <1>3, <2>2 DEF TimeOut, TypeOK
      <3> QED BY <1>0, <1>3, <3>1 DEF TimeOut, Knows
    <2> QED BY <2>1, <2>2
  <1>4. ASSUME NEW w \in Walks, NEW kind \in Kinds, NEW delay \in ResetDelays,
               MemberFails(w, kind, delay)
        PROVE  Knows(m)'
    <2> DEFINE g == walk[w].by
               n == Member(w)
    <2>1. /\ walk[w].pc = "calling" /\ now' = now /\ manager' = manager
          /\ g \in Managers /\ n \in Members
      BY <1>4, CallingTypes DEF MemberFails
    <2>2. CASE UNCHANGED <<cooldown, owed, missed>>
      BY <1>0, <2>1, <2>2 DEF Knows
    <2>3. CASE \E until \in CooldownUntil(kind, now, delay) :
                 /\ cooldown' = Rest(g, n, until)
                 /\ owed' = [owed EXCEPT ![n] = Later(@, until)]
                 /\ missed' = IF g = manager THEN missed ELSE missed \cup {n}
      <3>1. PICK until \in CooldownUntil(kind, now, delay) :
                 /\ cooldown' = Rest(g, n, until)
                 /\ owed' = [owed EXCEPT ![n] = Later(@, until)]
                 /\ missed' = IF g = manager THEN missed ELSE missed \cup {n}
        BY <2>3
      <3>2. until \in Nat /\ until > now
        BY <1>0, <3>1, UntilTypes
      <3>3. cooldown'[manager] = IF g = manager
              THEN [cooldown[manager] EXCEPT ![n] = IF until > @ THEN until ELSE @]
              ELSE cooldown[manager]
        BY <1>0, <2>1, <3>1 DEF Rest, TypeOK
      <3>4. CASE m # n
        <4>1. owed'[m] = owed[m] /\ cooldown'[manager][m] = cooldown[manager][m]
          BY <1>0, <2>1, <3>1, <3>3, <3>4 DEF TypeOK
        <4> QED BY <1>0, <2>1, <3>1, <4>1 DEF Knows
      <3>5. CASE m = n /\ g # manager
        BY <3>1, <3>5 DEF Knows
      <3>6. CASE m = n /\ g = manager
        <4>1. owed'[m] = Later(owed[m], until) /\ missed' = missed
          BY <3>1, <3>6 DEF TypeOK
        <4>2. cooldown'[manager][m] = IF until > cooldown[manager][m] THEN until
                                      ELSE cooldown[manager][m]
          BY <1>0, <3>3, <3>6
        <4> QED BY <1>0, <2>1, <3>2, <4>1, <4>2 DEF Knows, Later
      <3> QED BY <3>4, <3>5, <3>6
    <2> QED BY <1>4, <2>2, <2>3 DEF MemberFails
  <1>5. ASSUME NEW roster \in Rosters, Reload(roster) PROVE Knows(m)'
    <2>1. /\ manager' \in Managers /\ now' = now /\ owed' = owed
          /\ missed \subseteq missed'
          /\ cooldown[manager][m] > now /\ ~Lists(roster, m) => m \in missed'
      BY <1>0, <1>5 DEF Reload, Managers
    <2>2. cooldown'[manager'][m] = IF Lists(roster, m) THEN cooldown[manager][m] ELSE 0
      BY <1>5, <2>1 DEF Reload, Adopted, TypeOK
    <2>3. CASE Lists(roster, m)
      BY <1>0, <2>1, <2>2, <2>3 DEF Knows
    <2>4. CASE ~Lists(roster, m) /\ cooldown[manager][m] > now
      BY <2>1, <2>4 DEF Knows
    <2>5. CASE ~Lists(roster, m) /\ ~(cooldown[manager][m] > now)
      BY <1>0, <2>1, <2>5 DEF Knows
    <2> QED BY <2>3, <2>4, <2>5
  <1>6. CASE Tick
    BY <1>0, <1>6 DEF Tick, Knows
  <1>7. CASE UNCHANGED vars
    BY <1>0, <1>7 DEF vars, Knows
  <1> QED BY <1>1, <1>2, <1>3, <1>4, <1>5, <1>6, <1>7 DEF Next, Returns

\* The member a walk of the manager in service turns to is not resting.
LEMMA TurnsToRested ==
  ASSUME TypeOK, Known, NEW w \in Walks, NEW g \in 1..manager, NEW i \in Nat, Proceed(w, g, i),
         UNCHANGED <<now, manager, models>>, missed \subseteq missed',
         \A j \in 1..Len(models[g]) : j > i => owed'[models[g][j]] = owed[models[g][j]],
         walk'[w].pc = "calling", walk'[w].by = manager'
  PROVE  Member(w)' \in missed' \/ owed'[Member(w)'] <= now
  <1>1. PICK j \in 1..Len(models[g]) : j > i /\ Open(g, j) /\ walk'[w] = Calling(g, j)
    BY Proceeds DEF Idle
  <1>2. g = manager /\ Member(w)' = models[g][j]
    BY <1>1 DEF Calling, Member
  <1>3. g \in Managers /\ models[g] \in Rosters
    BY <1>2 DEF TypeOK
  <1>4. models[g][j] \in Members
    BY <1>1, <1>3, RosterTypes
  <1>5. cooldown[manager][models[g][j]] <= now
    BY <1>1, <1>2 DEF Open
  <1>6. owed[models[g][j]] \in Nat /\ now \in Nat /\ cooldown[manager][models[g][j]] \in Nat
    BY <1>2, <1>3, <1>4 DEF TypeOK
  <1>7. models[g][j] \in missed \/ owed[models[g][j]] <= now
    BY <1>4, <1>5, <1>6 DEF Known, Knows
  <1> QED BY <1>1, <1>2, <1>7

\* A member is called by the manager in service only when every rest its failures
\* called for is over, failures that never reached this manager excepted.
THEOREM MembersRest == Spec => RestsInService
  <1> DEFINE Inv == TypeOK /\ Known
  <1>1. Init => Inv
    <2>1. Init => Known
      <3> SUFFICES ASSUME Init, TypeOK, NEW m \in Members PROVE Knows(m)
        BY TypeInit DEF Known
      <3>1. owed[m] = cooldown[manager][m] /\ owed[m] \in Nat
        BY DEF Init, TypeOK
      <3> QED BY <3>1 DEF Knows
    <2> QED BY <2>1, TypeInit
  <1>2. Inv /\ [Next]_vars => Inv'
    BY TypeStep, KnownStep
  <1>3. Inv /\ [Next]_vars =>
          [\A w \in Walks :
             walk'[w].pc = "calling" /\ walk'[w] # walk[w] /\ walk'[w].by = manager' =>
               Member(w)' \in missed' \/ owed'[Member(w)'] <= now]_vars
    <2> SUFFICES ASSUME TypeOK, Known, Next, NEW w \in Walks, walk'[w].pc = "calling",
                        walk'[w] # walk[w], walk'[w].by = manager'
                 PROVE  Member(w)' \in missed' \/ owed'[Member(w)'] <= now
      OBVIOUS
    <2>0. manager \in 1..manager /\ manager \in Nat /\ walk \in [Walks -> WalkType]
      BY CascadeAssumption DEF TypeOK, Managers, WalkType
    <2>1. ASSUME NEW v \in Walks, Begin(v) PROVE v = w /\ Proceed(v, manager, 0)
      <3>1. \A u \in Walks \ {v} : walk'[u] = walk[u]
        BY <2>0, <2>1, Proceeds DEF Begin
      <3> QED BY <2>1, <3>1 DEF Begin
    <2>2. ASSUME NEW v \in Walks, Succeed(v) \/ TimeOut(v) PROVE FALSE
      BY <2>0, <2>2 DEF Succeed, TimeOut, Idle
    <2>3. ASSUME NEW v \in Walks, NEW kind \in Kinds, NEW delay \in ResetDelays,
                 MemberFails(v, kind, delay)
          PROVE  Member(w)' \in missed' \/ owed'[Member(w)'] <= now
      <3> DEFINE g == walk[v].by
                 i == walk[v].at
      <3>1. /\ walk[v].pc = "calling" /\ Proceed(v, g, i)
            /\ UNCHANGED <<now, manager, models>> /\ missed \subseteq missed'
        BY <2>3 DEF MemberFails
      <3>2. /\ g \in 1..manager /\ models[g] \in Rosters /\ i \in 1..Len(models[g]) /\ i \in Nat
            /\ Member(v) = models[g][i]
        BY <3>1, CallingTypes DEF Member
      <3>3. v = w
        BY <3>1, <3>2, Proceeds
      <3>4. \A j \in 1..Len(models[g]) : j > i => owed'[models[g][j]] = owed[models[g][j]]
        <4>1. \A j \in 1..Len(models[g]) : j > i => models[g][j] # Member(v)
          BY <3>2, CascadeAssumption
        <4>2. \A m \in Members : m # Member(v) => owed'[m] = owed[m]
          BY <2>3 DEF MemberFails, TypeOK
        <4>3. \A j \in 1..Len(models[g]) : models[g][j] \in Members
          BY <3>2, RosterTypes
        <4> QED BY <4>1, <4>2, <4>3
      <3> QED BY <3>1, <3>2, <3>3, <3>4, TurnsToRested
    <2>4. ASSUME NEW v \in Walks, Begin(v) PROVE Member(w)' \in missed' \/ owed'[Member(w)'] <= now
      <3>1. Proceed(w, manager, 0) /\ UNCHANGED <<now, manager, models, owed, missed>>
        BY <2>1, <2>4 DEF Begin
      <3> QED BY <2>0, <3>1, TurnsToRested
    <2>5. ASSUME NEW roster \in Rosters, Reload(roster) PROVE FALSE
      BY <2>5 DEF Reload
    <2>6. CASE Tick
      BY <2>6 DEF Tick
    <2> QED BY <2>2, <2>3, <2>4, <2>5, <2>6 DEF Next, Returns
  <1> QED BY <1>1, <1>2, <1>3, PTL DEF Spec, RestsInService

-----------------------------------------------------------------------------
(* The safety half of WalksEnd. *)

GoesOn(w) ==
  \/ walk'[w] = Idle
  \/ walk'[w].pc = "calling" /\ walk'[w].by = walk[w].by /\ walk'[w].at > walk[w].at

\* A walk only goes on to later members of the manager it began with, as long as its roster:
\* it calls no member twice, though cooldowns end and reloads change the roster under way
\* (cascade.py:458-497).
THEOREM WalksGoOn ==
  Spec => [][\A w \in Walks : walk[w].pc = "calling" /\ walk'[w] # walk[w] => GoesOn(w)]_vars
  <1>1. TypeOK /\ [Next]_vars
          => [\A w \in Walks : walk[w].pc = "calling" /\ walk'[w] # walk[w] => GoesOn(w)]_vars
    <2> SUFFICES ASSUME TypeOK, Next, NEW w \in Walks, walk[w].pc = "calling", walk'[w] # walk[w]
                 PROVE  GoesOn(w)
      OBVIOUS
    <2>0. walk \in [Walks -> WalkType] /\ manager \in 1..manager
      BY CascadeAssumption DEF TypeOK, WalkType, Managers
    <2>1. ASSUME NEW v \in Walks, Begin(v) PROVE FALSE
      <3>1. \A u \in Walks \ {v} : walk'[u] = walk[u]
        BY <2>0, <2>1, Proceeds DEF Begin
      <3> QED BY <2>1, <3>1 DEF Begin
    <2>2. ASSUME NEW v \in Walks, Succeed(v) \/ TimeOut(v) PROVE GoesOn(w)
      BY <2>0, <2>2 DEF Succeed, TimeOut, GoesOn
    <2>3. ASSUME NEW v \in Walks, NEW kind \in Kinds, NEW delay \in ResetDelays,
                 MemberFails(v, kind, delay)
          PROVE  GoesOn(w)
      <3>1. walk[v].pc = "calling" /\ Proceed(v, walk[v].by, walk[v].at)
        BY <2>3 DEF MemberFails
      <3>2. walk[v].by \in 1..manager /\ models[walk[v].by] \in Rosters
            /\ walk[v].at \in 1..Len(models[walk[v].by])
        BY <3>1, CallingTypes
      <3>3. walk[v].at \in Nat
        BY <3>2, RosterTypes
      <3>4. v = w
        BY <3>1, <3>2, <3>3, Proceeds
      <3>5. \/ walk'[v] = Idle
            \/ \E j \in 1..Len(models[walk[v].by]) :
                 j > walk[v].at /\ Open(walk[v].by, j) /\ walk'[v] = Calling(walk[v].by, j)
        BY <3>1, <3>2, <3>3, Proceeds
      <3>6. CASE walk'[v] = Idle
        BY <3>4, <3>6 DEF GoesOn
      <3>7. ASSUME NEW j \in 1..Len(models[walk[v].by]), j > walk[v].at,
                   walk'[v] = Calling(walk[v].by, j)
            PROVE  GoesOn(w)
        BY <3>4, <3>7 DEF GoesOn, Calling
      <3> QED BY <3>5, <3>6, <3>7
    <2>4. ASSUME NEW roster \in Rosters, Reload(roster) PROVE FALSE
      BY <2>4 DEF Reload
    <2>5. ~Tick
      BY DEF Tick
    <2> QED BY <2>1, <2>2, <2>3, <2>4, <2>5 DEF Next, Returns
  <1> QED BY <1>1, TypeCorrect, PTL DEF Spec
==============================================================================
