---------------------------- MODULE GeminiCascade ----------------------------
(***************************************************************************)
(* llmcascade/cascade.py, GeminiCascadeManager: a request that the selector   *)
(* gives to the Gemini family walks the members of the cascade in order,      *)
(* passing over those that rest, and a member that fails is put to rest.      *)
(* RouterClient.reload_registry replaces the manager, which adopts what the   *)
(* old one knew; a walk goes on with the manager it began with.               *)
(*                                                                         *)
(* A walk suspends only while a member is being called.  The selector's       *)
(* attempt timeout cancels it there.  The file behind the manager is left     *)
(* out: a process starts with any cooldowns.                                  *)
(***************************************************************************)
EXTENDS Cooldowns, Sequences, FiniteSets

CONSTANTS
  Members,      \* model ids of the cascade
  Rosters,      \* the orders in which reloads may list them
  Walks,        \* requests
  Kinds,        \* the kinds of failure Gemini answers with
  Loaded,       \* the cooldowns a process may find on disk
  MaxManagers,  \* bound: managers, one more at each reload
  MaxTime       \* bound on the clock

ASSUME CascadeAssumption ==
  /\ Rosters \subseteq Seq(Members) \ {<<>>}
  /\ \A roster \in Rosters : \A i, j \in 1..Len(roster) : roster[i] = roster[j] => i = j
  /\ Kinds \subseteq FailureKinds
  /\ Loaded \subseteq Nat
  /\ MaxManagers \in Nat \ {0} /\ MaxTime \in Nat

VARIABLES
  now,
  manager,  \* RouterClient.gemini_cascade: the number of the manager in service
  models,   \* each manager's models
  cooldown, \* each manager's _cooldowns; 0 is an absent entry
  walk,     \* each request: the manager it began with and the position it calls
  owed,     \* history: the end of the longest rest a member's failures call for
  missed    \* history: members with a failure the manager in service does not know of

vars == <<now, manager, models, cooldown, walk, owed, missed>>

Managers == 1..MaxManagers
Idle == [pc |-> "idle", by |-> 0, at |-> 0]
Calling(g, i) == [pc |-> "calling", by |-> g, at |-> i]

Lists(roster, m) == \E i \in 1..Len(roster) : roster[i] = m
Member(w) == models[walk[w].by][walk[w].at]

\* is_cooling is false of the member at position i.
Open(g, i) == cooldown[g][models[g][i]] <= now

\* any_available, which try_reserve asks the manager in service.
AnyAvailable == \E i \in 1..Len(models[manager]) : Open(manager, i)

Later(a, b) == IF a >= b THEN a ELSE b

-----------------------------------------------------------------------------
\* Mutant: the walk starts over after each failure.
FollowingFromStart(g, i) == {j \in 1..Len(models[g]) : Open(g, j) /\ j # i}

\* The positions after i the loop of run does not pass over.
Following(g, i) == {j \in (i + 1)..Len(models[g]) : Open(g, j)}

\* The loop goes to the first of them, or gives up.
Proceed(w, g, i) ==
  \/ Following(g, i) = {} /\ walk' = [walk EXCEPT ![w] = Idle]
  \/ \E j \in Following(g, i) :
       /\ \A k \in Following(g, i) : j <= k
       /\ walk' = [walk EXCEPT ![w] = Calling(g, j)]

Begin(w) ==
  /\ walk[w].pc = "idle"
  /\ AnyAvailable
  /\ Proceed(w, manager, 0)
  /\ UNCHANGED <<now, manager, models, cooldown, owed, missed>>

Succeed(w) ==
  /\ walk[w].pc = "calling"
  /\ walk' = [walk EXCEPT ![w] = Idle]
  /\ UNCHANGED <<now, manager, models, cooldown, owed, missed>>

\* Mutant: the last failure counts, not the longest cooldown.
RestLast(g, m, until) == [cooldown EXCEPT ![g][m] = until]

\* apply_cooldown.
Rest(g, m, until) == [cooldown EXCEPT ![g][m] = IF until > @ THEN until ELSE @]

\* The member's call fails: it rests, unless the failure is transient, and the
\* walk goes on.  The cooldown is filed with the manager of the walk.
MemberFails(w, kind, delay) ==
  /\ walk[w].pc = "calling"
  /\ LET g == walk[w].by
         m == Member(w)
         untils == CooldownUntil(kind, now, delay)
     IN /\ \/ untils = {} /\ UNCHANGED <<cooldown, owed, missed>>
           \/ \E until \in untils :
                /\ cooldown' = Rest(g, m, until)
                /\ owed' = [owed EXCEPT ![m] = Later(@, until)]
                /\ missed' = IF g = manager THEN missed ELSE missed \cup {m}
        /\ Proceed(w, g, walk[w].at)
  /\ UNCHANGED <<now, manager, models>>

\* The attempt timeout ends the walk.  Nobody tells the manager; docs/gemini.md
\* counts a timeout among the failures of kind "rate".
TimeOut(w) ==
  /\ walk[w].pc = "calling"
  /\ walk' = [walk EXCEPT ![w] = Idle]
  /\ owed' = [owed EXCEPT ![Member(w)] = Later(@, now + RateCooldown)]
  /\ missed' = missed \cup {Member(w)}
  /\ UNCHANGED <<now, manager, models, cooldown>>

-----------------------------------------------------------------------------
\* Mutant: a reload starts with a clean slate.
AdoptedNothing(roster, known) == [m \in Members |-> 0]

\* adopt_state.
Adopted(roster, known) ==
  [m \in Members |-> IF Lists(roster, m) THEN known[m] ELSE 0]

Reload(roster) ==
  /\ manager < MaxManagers
  /\ manager' = manager + 1
  /\ models' = [models EXCEPT ![manager'] = roster]
  /\ cooldown' = [cooldown EXCEPT ![manager'] = Adopted(roster, cooldown[manager])]
  /\ missed' = missed \cup {m \in Members :
                             cooldown[manager][m] > now /\ ~Lists(roster, m)}
  /\ UNCHANGED <<now, walk, owed>>

Tick ==
  /\ now < MaxTime
  /\ now' = now + 1
  /\ UNCHANGED <<manager, models, cooldown, walk, owed, missed>>

-----------------------------------------------------------------------------
\* A process begins with what _load_persisted_cooldowns keeps of the file.
Init ==
  /\ now = 0
  /\ manager = 1
  /\ \E roster \in Rosters : models = [g \in Managers |-> roster]
  /\ \E found \in [Members -> Loaded \cup {0}] :
       cooldown = [g \in Managers |-> IF g = 1 THEN Adopted(models[1], found) ELSE [m \in Members |-> 0]]
  /\ walk = [w \in Walks |-> Idle]
  /\ owed = cooldown[1]
  /\ missed = {}

Returns(w) ==
  \/ Succeed(w) \/ TimeOut(w)
  \/ \E kind \in Kinds, delay \in ResetDelays : MemberFails(w, kind, delay)

Next ==
  \/ \E w \in Walks : Begin(w) \/ Returns(w)
  \/ \E roster \in Rosters : Reload(roster)
  \/ Tick

Spec == Init /\ [][Next]_vars

\* Every call of a member ends: the attempt timeout sees to it.
FairSpec == Spec /\ \A w \in Walks : WF_vars(Returns(w))
==============================================================================
