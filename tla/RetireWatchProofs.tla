-------------------------- MODULE RetireWatchProofs --------------------------
(***************************************************************************)
(* The safety of the watcher for any models.yaml, any catalogs, any number    *)
(* of tries, and a watcher that dies and is started again at will.           *)
(***************************************************************************)
EXTENDS RetireWatchProps, TLAPS

-----------------------------------------------------------------------------
(* Types. *)

\* The candidates of a job are counted from 0, and one more is only asked for while
\* there are tries left.
Counting ==
  /\ pc \in {"down", "asleep", "targets", "catalog"} => tries = 0
  /\ pc = "advice" => tries < MaxTries

Typed == TypeOK /\ Counting

LEMMA ReplacedType ==
  ASSUME NEW entries \in [Slots -> Entries], NEW old \in Ids, NEW new \in Ids
  PROVE  Replaced(entries, old, new) \in [Slots -> Entries]
BY DEF Replaced, Entries

LEMMA LoadType ==
  ASSUME TypeOK, LoadRegistry
  PROVE  served' \in [Slots -> Entries] /\ row' \in [Ids -> {"none", "cooling", "permanent"}]
BY DEF TypeOK, LoadRegistry

\* A job works on an id, and a probe has a candidate.
Busy ==
  /\ pc \in {"catalog", "advice", "probe", "reload", "answer"} => target \in Ids
  /\ pc \in {"probe", "reload", "answer"} => choice \in Ids

TypedBusy == Typed /\ Busy

LEMMA TypedInit == ASSUME Init PROVE TypedBusy
BY WatchAssumption DEF Init, TypedBusy, Typed, TypeOK, Counting, Busy, Steps

LEMMA LeaveTyped ==
  ASSUME TypedBusy, NEW rest \in SUBSET Ids, Leave(rest), pc' \in {"down", "targets"},
         UNCHANGED <<file, apiVars>>,
         replacements' \in [Ids -> Ids \cup {NoId}], abandoned' \subseteq Ids
  PROVE  TypedBusy'
BY WatchAssumption
   DEF Leave, TypedBusy, Typed, TypeOK, Counting, Busy, Steps, apiVars

LEMMA AbandonTyped ==
  ASSUME TypedBusy, target \in Ids, Abandon
  PROVE  TypedBusy'
<1>1. Leave(targets \ {target}) /\ pc' = "targets" BY DEF Abandon, Done
<1>2. targets \ {target} \in SUBSET Ids BY DEF TypedBusy, Typed, TypeOK
<1>3. /\ UNCHANGED <<file, apiVars>>
      /\ replacements' \in [Ids -> Ids \cup {NoId}] /\ abandoned' \subseteq Ids
  BY DEF Abandon, TypedBusy, Typed, TypeOK
<1> QED BY <1>1, <1>2, <1>3, LeaveTyped

LEMMA WorldTyped == ASSUME TypedBusy, World PROVE TypedBusy'
<1> USE DEF TypedBusy, Typed, TypeOK, Counting, Busy, localVars, stateVars
<1>2. ASSUME NEW s \in Slots, Fails(s) PROVE TypedBusy'
  <2>1. PICK kind \in {"cooling", "permanent"} :
          /\ row' = [row EXCEPT ![served[s].name] = kind]
          /\ doomed' = IF kind = "permanent" THEN doomed \cup {served[s].name} ELSE doomed
    BY <1>2 DEF Fails
  <2>2. served[s].name \in Ids BY DEF Entries
  <2> QED BY <1>2, <2>1, <2>2 DEF Fails
<1>3. ASSUME NEW s \in Slots, Promote(s) PROVE TypedBusy' BY <1>3 DEF Promote
<1>4. CASE ReloadByOthers BY <1>4, LoadType DEF ReloadByOthers
<1> QED BY <1>2, <1>3, <1>4 DEF World

LEMMA WatcherTyped == ASSUME TypedBusy, Watcher PROVE TypedBusy'
<1> USE WatchAssumption
<1>1. CASE Start
  BY <1>1 DEF Start, TypedBusy, Typed, TypeOK, Counting, Busy, Steps, apiVars, localVars, stateVars
<1>2. CASE Poll
  <2>1. Retired \subseteq Ids BY DEF Retired, TypedBusy, Typed, TypeOK, Entries
  <2> QED BY <1>2, <2>1 DEF Poll, TypedBusy, Typed, TypeOK, Counting, Busy, Steps, apiVars, stateVars
<1>3. CASE EndRun
  BY <1>3 DEF EndRun, TypedBusy, Typed, TypeOK, Counting, Busy, Steps, apiVars, localVars, stateVars
<1>4. CASE NextTarget
  BY <1>4 DEF NextTarget, TypedBusy, Typed, TypeOK, Counting, Busy, Steps, apiVars, stateVars
<1>5. CASE CatalogFails
  BY <1>5, AbandonTyped DEF CatalogFails, TypedBusy, Busy
<1>6. ASSUME NEW listed \in Catalogs, Catalog(listed) PROVE TypedBusy'
  <2>1. CASE Candidates(listed) = {}
    BY <1>6, <2>1, AbandonTyped DEF Catalog, TypedBusy, Busy
  <2>2. CASE Candidates(listed) # {}
    <3>1. Candidates(listed) \subseteq Ids BY DEF Candidates
    <3> QED
      BY <1>6, <2>2, <3>1
         DEF Catalog, TypedBusy, Typed, TypeOK, Counting, Busy, Steps, apiVars, stateVars
  <2> QED BY <2>1, <2>2
<1>7. ASSUME NEW candidate \in Ids, Advise(candidate) PROVE TypedBusy'
  BY <1>7 DEF Advise, TypedBusy, Typed, TypeOK, Counting, Busy, Steps, apiVars, stateVars
<1>8. CASE ProbeRefused
  <2>1. CASE Exhausted /\ Abandon BY <1>8, <2>1, AbandonTyped DEF ProbeRefused, TypedBusy, Busy
  <2>2. CASE ~Exhausted /\ pc' = "advice" /\ UNCHANGED <<file, apiVars, localVars, stateVars>>
    BY <1>8, <2>2
       DEF ProbeRefused, Exhausted, TypedBusy, Typed, TypeOK, Counting, Busy, Steps, apiVars,
           localVars, stateVars
  <2> QED BY <1>8, <2>1, <2>2 DEF ProbeRefused
<1>9. CASE ProbeFree
  <2>1. file' \in [Slots -> Entries]
    BY <1>9, ReplacedType DEF ProbeFree, TypedBusy, Typed, TypeOK, Busy
  <2> QED
    BY <1>9, <2>1
       DEF ProbeFree, TypedBusy, Typed, TypeOK, Counting, Busy, Steps, apiVars, localVars, stateVars
<1>10. CASE Reload
  <2>1. served' \in [Slots -> Entries] /\ row' \in [Ids -> {"none", "cooling", "permanent"}]
    BY <1>10, LoadType DEF Reload, TypedBusy, Typed
  <2> QED
    BY <1>10, <2>1
       DEF Reload, TypedBusy, Typed, TypeOK, Counting, Busy, Steps, localVars, stateVars
<1>11. CASE Record
  <2>1. Leave(targets \ {target}) /\ pc' = "targets" BY <1>11 DEF Record, Done
  <2>2. /\ UNCHANGED <<file, apiVars>> /\ targets \ {target} \in SUBSET Ids
        /\ replacements' \in [Ids -> Ids \cup {NoId}] /\ abandoned' \subseteq Ids
    BY <1>11 DEF Record, TypedBusy, Typed, TypeOK, Busy
  <2> QED BY <2>1, <2>2, LeaveTyped
<1>12. CASE HttpFails
  <2>1. Leave(targets \ {target}) /\ pc' = "targets" BY <1>12 DEF HttpFails, Done
  <2>2. /\ UNCHANGED <<file, apiVars>> /\ targets \ {target} \in SUBSET Ids
        /\ replacements' \in [Ids -> Ids \cup {NoId}] /\ abandoned' \subseteq Ids
    BY <1>12 DEF HttpFails, TypedBusy, Typed, TypeOK, stateVars
  <2> QED BY <2>1, <2>2, LeaveTyped
<1> QED
  BY <1>1, <1>2, <1>3, <1>4, <1>5, <1>6, <1>7, <1>8, <1>9, <1>10, <1>11, <1>12 DEF Watcher

LEMMA TypedStep == ASSUME TypedBusy, [Next]_vars PROVE TypedBusy'
<1>1. CASE World BY <1>1, WorldTyped
<1>2. CASE Watcher BY <1>2, WatcherTyped
<1>3. CASE Crash
  <2>1. Leave({}) /\ pc' = "down" BY <1>3 DEF Crash
  <2>2. /\ UNCHANGED <<file, apiVars>>
        /\ replacements' \in [Ids -> Ids \cup {NoId}] /\ abandoned' \subseteq Ids
    BY <1>3 DEF Crash, TypedBusy, Typed, TypeOK, stateVars
  <2> QED BY <2>1, <2>2, LeaveTyped
<1>4. CASE UNCHANGED vars
  BY <1>4 DEF vars, TypedBusy, Typed, TypeOK, Counting, Busy
<1> QED BY <1>1, <1>2, <1>3, <1>4 DEF Next

\* Every variable keeps its type, and no job tries more candidates than replace_one
\* allows itself (retire_watch.py:533-555).
THEOREM TypeCorrect == Spec => []TypeOK
<1>1. Init => TypedBusy BY TypedInit
<1>2. TypedBusy /\ [Next]_vars => TypedBusy' BY TypedStep
<1>3. TypedBusy => TypeOK BY DEF TypedBusy, Typed
<1> QED BY <1>1, <1>2, <1>3, PTL DEF Spec

-----------------------------------------------------------------------------
(* No model twice: what a job chooses from is not in models.yaml, because no  *)
(* other target is handled, and so models.yaml does not change, before the    *)
(* job is over.                                                             *)

Fresh ==
  /\ pc \in {"advice", "probe"} => catalog \cap Names(file) = {}
  /\ pc = "probe" => choice \notin Names(file)

Unique == TypedBusy /\ NoTwice /\ Fresh

LEMMA ReplacedDistinct ==
  ASSUME NEW entries \in [Slots -> Entries], Distinct(entries),
         NEW old \in Ids, NEW new \in Ids, new \notin Names(entries)
  PROVE  Distinct(Replaced(entries, old, new))
BY DEF Distinct, Replaced, Names

LEMMA LoadDistinct == ASSUME Distinct(file), LoadRegistry PROVE Distinct(served')
BY DEF LoadRegistry

LEMMA UniqueStep == ASSUME Unique, [Next]_vars PROVE Unique'
<1>1. TypedBusy' BY TypedStep DEF Unique
<1>2. ASSUME UNCHANGED <<file, served>>, pc' \notin {"advice", "probe"} PROVE Unique'
  BY <1>1, <1>2 DEF Unique, NoTwice, Distinct, Fresh
<1>3. ASSUME UNCHANGED <<file, served, catalog, choice, pc>> PROVE Unique'
  BY <1>1, <1>3 DEF Unique, NoTwice, Distinct, Fresh, Names
<1>4. CASE World
  <2>2. ASSUME NEW s \in Slots, Fails(s) PROVE Unique' BY <1>3, <2>2 DEF Fails, localVars
  <2>3. ASSUME NEW s \in Slots, Promote(s) PROVE Unique' BY <1>3, <2>3 DEF Promote, localVars
  <2>4. CASE ReloadByOthers
    BY <1>1, <2>4, LoadDistinct
       DEF ReloadByOthers, Unique, NoTwice, Distinct, Fresh, Names, localVars
  <2> QED BY <1>4, <2>2, <2>3, <2>4 DEF World
<1>5. CASE Watcher
  <2>1. CASE Start \/ Poll \/ EndRun \/ NextTarget
    BY <1>2, <2>1 DEF Start, Poll, EndRun, NextTarget, apiVars
  <2>2. CASE CatalogFails BY <1>2, <2>2 DEF CatalogFails, Abandon, Done, apiVars
  <2>3. ASSUME NEW listed \in Catalogs, Catalog(listed) PROVE Unique'
    <3>1. CASE Candidates(listed) = {}
      BY <1>2, <2>3, <3>1 DEF Catalog, Abandon, Done, apiVars
    <3>2. CASE Candidates(listed) # {}
      BY <1>1, <2>3, <3>2
         DEF Catalog, Candidates, Unique, NoTwice, Distinct, Fresh, Names, apiVars
    <3> QED BY <3>1, <3>2
  <2>4. ASSUME NEW candidate \in Ids, Advise(candidate) PROVE Unique'
    BY <1>1, <2>4 DEF Advise, Unique, NoTwice, Distinct, Fresh, Names, apiVars
  <2>5. CASE ProbeRefused
    <3>1. CASE Abandon BY <1>2, <3>1 DEF Abandon, Done, apiVars
    <3>2. CASE pc' = "advice" /\ UNCHANGED <<file, apiVars, localVars, stateVars>>
      BY <1>1, <2>5, <3>2
         DEF ProbeRefused, Unique, NoTwice, Distinct, Fresh, Names, apiVars, localVars
    <3> QED BY <2>5, <3>1, <3>2 DEF ProbeRefused
  <2>6. CASE ProbeFree
    <3>1. Distinct(file')
      BY <2>6, ReplacedDistinct
         DEF ProbeFree, Unique, NoTwice, Fresh, TypedBusy, Typed, TypeOK, Busy
    <3> QED BY <1>1, <2>6, <3>1 DEF ProbeFree, Unique, NoTwice, Distinct, Fresh, apiVars
  <2>7. CASE Reload
    BY <1>1, <2>7, LoadDistinct DEF Reload, Unique, NoTwice, Distinct, Fresh
  <2>8. CASE Record BY <1>2, <2>8 DEF Record, Done, apiVars
  <2>9. CASE HttpFails BY <1>2, <2>9 DEF HttpFails, Done, apiVars
  <2> QED
    BY <1>5, <2>1, <2>2, <2>3, <2>4, <2>5, <2>6, <2>7, <2>8, <2>9 DEF Watcher
<1>6. CASE Crash BY <1>2, <1>6 DEF Crash, apiVars
<1>7. CASE UNCHANGED vars BY <1>3, <1>7 DEF vars
<1> QED BY <1>4, <1>5, <1>6, <1>7 DEF Next

LEMMA UniqueInit == ASSUME Init PROVE Unique
BY TypedInit, WatchAssumption DEF Init, Unique, NoTwice, Distinct, Fresh

\* No model is ever listed twice, in models.yaml or in the API's registry
\* (retire_watch.py:526-530).
THEOREM NeverTwice == Spec => []NoTwice
<1>1. Init => Unique BY UniqueInit
<1>2. Unique /\ [Next]_vars => Unique' BY UniqueStep
<1>3. Unique => NoTwice BY DEF Unique
<1> QED BY <1>1, <1>2, <1>3, PTL DEF Spec

-----------------------------------------------------------------------------
(* What the watcher rewrites has been out for good: the targets were when the   *)
(* run began, and no name of an entry that is no chat model is among them.     *)

AtWork == pc \in {"catalog", "advice", "probe", "reload", "answer"}

Condemned ==
  /\ \A n \in Ids : row[n] = "permanent" => n \in doomed
  /\ targets \subseteq doomed
  /\ AtWork => target \in doomed

Spared == \A s \in Slots \ Chats : file[s].name \notin targets \cup {target}

Justified == Unique /\ Condemned /\ Spared

LEMMA JustifiedInit == ASSUME Init PROVE Justified
<1>1. Unique BY UniqueInit
<1>2. Condemned BY DEF Init, Condemned, AtWork
<1>3. Spared BY WatchAssumption DEF Init, Spared, Entries
<1> QED BY <1>1, <1>2, <1>3 DEF Justified

LEMMA LeaveJustified ==
  ASSUME Justified, Unique', NEW rest \in SUBSET targets, Leave(rest), pc' \in {"down", "targets"},
         UNCHANGED <<file, apiVars>>
  PROVE  Justified'
<1>1. Condemned' BY DEF Justified, Condemned, AtWork, Leave, apiVars
<1>2. Spared'
  BY WatchAssumption DEF Justified, Unique, TypedBusy, Typed, TypeOK, Entries, Spared, Leave
<1> QED BY <1>1, <1>2 DEF Justified

\* The steps that change neither models.yaml nor the target, and at most forget rows.
LEMMA QuietJustified ==
  ASSUME Justified, Unique', UNCHANGED <<file, doomed, targets, target>>,
         \A n \in Ids : row'[n] = "permanent" => row[n] = "permanent",
         AtWork' => AtWork
  PROVE  Justified'
BY DEF Justified, Condemned, AtWork, Spared

LEMMA WorldJustified == ASSUME Justified, Unique', World PROVE Justified'
<1>1. ASSUME NEW s \in Slots, Fails(s) PROVE Justified'
  <2>1. PICK kind \in {"cooling", "permanent"} :
          /\ row' = [row EXCEPT ![served[s].name] = kind]
          /\ doomed' = IF kind = "permanent" THEN doomed \cup {served[s].name} ELSE doomed
    BY <1>1 DEF Fails
  <2>2. Condemned'
    BY <1>1, <2>1 DEF Fails, Justified, Condemned, AtWork, localVars, Unique, TypedBusy, Typed, TypeOK
  <2>3. Spared' BY <1>1 DEF Fails, Justified, Spared, localVars
  <2> QED BY <2>2, <2>3 DEF Justified
<1>2. ASSUME NEW s \in Slots, Promote(s) PROVE Justified'
  BY <1>2, QuietJustified
     DEF Promote, Justified, AtWork, localVars, Unique, TypedBusy, Typed, TypeOK
<1>3. CASE ReloadByOthers
  BY <1>3, QuietJustified DEF ReloadByOthers, LoadRegistry, AtWork, localVars
<1> QED BY <1>1, <1>2, <1>3 DEF World

LEMMA WatcherJustified == ASSUME Justified, Unique', Watcher PROVE Justified'
<1>0. targets \ {target} \in SUBSET targets OBVIOUS
<1>1. CASE Start \/ EndRun
  BY <1>1, QuietJustified DEF Start, EndRun, AtWork, apiVars, localVars
<1>2. CASE Poll
  <2>1. Condemned'
    BY <1>2 DEF Poll, Retired, Justified, Condemned, AtWork, apiVars, Unique, TypedBusy, Typed,
                TypeOK, Entries
  <2>2. Spared'
    BY <1>2, WatchAssumption DEF Poll, Retired, Justified, Spared, apiVars, Unique, NoTwice, Distinct
  <2> QED BY <2>1, <2>2 DEF Justified
<1>3. CASE NextTarget
  BY <1>3 DEF NextTarget, Justified, Condemned, AtWork, Spared, apiVars
<1>4. ASSUME Abandon PROVE Justified'
  BY <1>0, <1>4, LeaveJustified DEF Abandon, Done
<1>5. CASE CatalogFails BY <1>4, <1>5 DEF CatalogFails
<1>6. ASSUME NEW listed \in Catalogs, Catalog(listed) PROVE Justified'
  BY <1>4, <1>6, QuietJustified DEF Catalog, AtWork, apiVars
<1>7. ASSUME NEW candidate \in Ids, Advise(candidate) PROVE Justified'
  BY <1>7, QuietJustified DEF Advise, AtWork, apiVars
<1>8. CASE ProbeRefused
  BY <1>4, <1>8, QuietJustified DEF ProbeRefused, AtWork, apiVars, localVars
<1>9. CASE ProbeFree
  <2>1. Condemned' BY <1>9 DEF ProbeFree, Justified, Condemned, AtWork, apiVars, localVars
  <2>2. Spared'
    BY <1>9 DEF ProbeFree, Replaced, Justified, Spared, localVars
  <2> QED BY <2>1, <2>2 DEF Justified
<1>10. CASE Reload
  BY <1>10, QuietJustified DEF Reload, LoadRegistry, AtWork, localVars
<1>11. CASE Record \/ HttpFails
  BY <1>0, <1>11, LeaveJustified DEF Record, HttpFails, Done
<1> QED
  BY <1>1, <1>2, <1>3, <1>5, <1>6, <1>7, <1>8, <1>9, <1>10, <1>11 DEF Watcher

LEMMA JustifiedStep == ASSUME Justified, [Next]_vars PROVE Justified'
<1>1. Unique' BY UniqueStep DEF Justified
<1>2. CASE World BY <1>1, <1>2, WorldJustified
<1>3. CASE Watcher BY <1>1, <1>3, WatcherJustified
<1>4. CASE Crash BY <1>1, <1>4, LeaveJustified DEF Crash
<1>5. CASE UNCHANGED vars
  BY <1>1, <1>5, QuietJustified DEF vars, AtWork
<1> QED BY <1>2, <1>3, <1>4, <1>5 DEF Next

LEMMA OnlyProbesWrite ==
  ASSUME [Next]_vars, file' # file
  PROVE  ProbeFree
BY DEF Next, World, Watcher, vars, Fails, Promote, ReloadByOthers, Start, Poll, EndRun,
       NextTarget, CatalogFails, Catalog, Abandon, Advise, ProbeRefused, Reload, Record,
       HttpFails, Crash

\* The watcher rewrites the name of a chat entry only, and only a name that has been out
\* for good; an api_model only if it equals such a name (retire_watch.py:222-237,
\* yaml_edit.py:14-19).
THEOREM OnlyCondemned == Spec => OnlyCondemnedReplaced
<1> DEFINE Change ==
      \A s \in Slots :
        /\ file'[s].name # file[s].name => s \in Chats /\ file[s].name \in doomed
        /\ file'[s].api # file[s].api => file[s].api \in doomed
<1>1. Init => Justified BY JustifiedInit
<1>2. Justified /\ [Next]_vars => Justified' BY JustifiedStep
<1>3. Justified /\ [Next]_vars => [Change]_vars
  <2> SUFFICES ASSUME Justified, Next, NEW s \in Slots
               PROVE  /\ file'[s].name # file[s].name => s \in Chats /\ file[s].name \in doomed
                      /\ file'[s].api # file[s].api => file[s].api \in doomed
    OBVIOUS
  <2>1. CASE file' = file BY <2>1
  <2>2. CASE file' # file
    <3>1. ProbeFree BY <2>2, OnlyProbesWrite
    <3>2. target \in doomed BY <3>1 DEF ProbeFree, Justified, Condemned, AtWork
    <3>3. /\ file'[s].name # file[s].name => file[s].name = target
          /\ file'[s].api # file[s].api => file[s].api = target
      BY <3>1 DEF ProbeFree, Replaced
    <3> QED BY <3>2, <3>3 DEF Justified, Spared
  <2> QED BY <2>1, <2>2
<1> QED BY <1>1, <1>2, <1>3, PTL DEF Spec, OnlyCondemnedReplaced

-----------------------------------------------------------------------------
(* What a record is worth.  The targets of a run are names of models.yaml until *)
(* they are written over, so that each probe finds what it is to replace.      *)

\* The target of a job is one of those the run has still to handle.
Assigned == AtWork => target \in targets

LEMMA AssignedStep == ASSUME Assigned, [Next]_vars PROVE Assigned'
<1> USE DEF Assigned, AtWork
<1>1. CASE World \/ UNCHANGED vars
  BY <1>1 DEF World, Fails, Promote, ReloadByOthers, localVars, vars
<1>2. CASE Crash BY <1>2 DEF Crash
<1>3. CASE Watcher
  BY <1>3 DEF Watcher, Start, Poll, EndRun, NextTarget, CatalogFails, Catalog, Abandon, Done, Leave,
              Advise, ProbeRefused, ProbeFree, Reload, Record, HttpFails, localVars
<1> QED BY <1>1, <1>2, <1>3 DEF Next

Writing == pc \in {"reload", "answer"}

Listed ==
  /\ \A id \in targets : id \in Names(file) \/ (Writing /\ id = target)
  /\ Writing => target \notin Mentioned(file) /\ choice \in Names(file)
  /\ pc = "answer" => target \notin Mentioned(served) /\ choice \in Names(served)

Faithful == Unique /\ Assigned /\ Listed

LEMMA FaithfulInit == ASSUME Init PROVE Faithful
BY UniqueInit DEF Init, Faithful, Assigned, AtWork, Listed, Writing

\* The steps that leave the files alone, and drop targets at most.
LEMMA QuietListed ==
  ASSUME Listed, UNCHANGED <<file, served>>, targets' \subseteq targets,
         \/ ~Writing' /\ (Writing => target \notin targets')
         \/ UNCHANGED <<pc, target, choice>>
  PROVE  Listed'
BY DEF Listed, Writing, Mentioned, Names

LEMMA DoneListed ==
  ASSUME Listed, UNCHANGED <<file, apiVars>>, Done
  PROVE  Listed'
<1>1. targets' \subseteq targets /\ target \notin targets' /\ ~Writing'
  BY DEF Done, Leave, Writing
<1> QED BY <1>1, QuietListed DEF apiVars

LEMMA ProbeFreeListed == ASSUME Faithful, ProbeFree PROVE Listed'
<1>1. /\ target \in Ids /\ choice \in Ids /\ target \in targets
      /\ file \in [Slots -> Entries] /\ choice \notin Names(file)
  BY DEF ProbeFree, Faithful, Unique, TypedBusy, Typed, TypeOK, Busy, Fresh, Assigned, AtWork
<1>2. target \in Names(file) /\ target # choice
  BY <1>1 DEF ProbeFree, Faithful, Listed, Writing
<1>3. \A s \in Slots :
         /\ file'[s].name = IF file[s].name = target THEN choice ELSE file[s].name
         /\ file'[s].api = IF file[s].api = target THEN choice ELSE file[s].api
  BY DEF ProbeFree, Replaced
<1>4. target \notin Mentioned(file') /\ choice \in Names(file')
  BY <1>2, <1>3 DEF Mentioned, Names
<1>5. \A id \in targets : id \in Names(file') \/ id = target
  BY <1>3 DEF ProbeFree, Faithful, Listed, Writing, Names
<1> QED BY <1>4, <1>5 DEF ProbeFree, Listed, Writing, Mentioned, Names, apiVars, localVars

LEMMA FaithfulStep == ASSUME Faithful, [Next]_vars PROVE Faithful'
<1>1. Unique' /\ Assigned' BY UniqueStep, AssignedStep DEF Faithful
<1> SUFFICES Listed' BY <1>1 DEF Faithful
<1> USE DEF Faithful
<1>2. CASE World
  <2>1. ASSUME NEW s \in Slots, Fails(s) \/ Promote(s) PROVE Listed'
    BY <2>1, QuietListed DEF Fails, Promote, localVars
  <2>2. CASE ReloadByOthers
    BY <2>2 DEF ReloadByOthers, LoadRegistry, Listed, Writing, Mentioned, Names, localVars
  <2> QED BY <1>2, <2>1, <2>2 DEF World
<1>3. CASE Watcher
  <2>1. CASE Start \/ EndRun \/ NextTarget
    BY <2>1, QuietListed DEF Start, EndRun, NextTarget, Writing, apiVars, localVars
  <2>2. CASE Poll
    BY <2>2, WatchAssumption DEF Poll, Retired, Listed, Writing, Names, apiVars
  <2>3. ASSUME Abandon PROVE Listed' BY <2>3, DoneListed DEF Abandon
  <2>4. CASE CatalogFails BY <2>3, <2>4 DEF CatalogFails
  <2>5. ASSUME NEW listed \in Catalogs, Catalog(listed) PROVE Listed'
    BY <2>3, <2>5, QuietListed DEF Catalog, Writing, apiVars
  <2>6. ASSUME NEW candidate \in Ids, Advise(candidate) PROVE Listed'
    BY <2>6, QuietListed DEF Advise, Writing, apiVars
  <2>7. CASE ProbeRefused
    BY <2>3, <2>7, QuietListed DEF ProbeRefused, Writing, apiVars, localVars
  <2>8. CASE ProbeFree BY <2>8, ProbeFreeListed
  <2>9. CASE Reload
    BY <2>9 DEF Reload, LoadRegistry, Listed, Writing, Mentioned, Names, localVars
  <2>10. CASE Record \/ HttpFails
    BY <2>10, DoneListed DEF Record, HttpFails, apiVars
  <2> QED BY <1>3, <2>1, <2>2, <2>4, <2>5, <2>6, <2>7, <2>8, <2>9, <2>10 DEF Watcher
<1>4. CASE Crash
  BY <1>4 DEF Crash, Leave, Listed, Writing, apiVars
<1>5. CASE UNCHANGED vars BY <1>5, QuietListed DEF vars
<1> QED BY <1>2, <1>3, <1>4, <1>5 DEF Next

\* When a replacement is recorded, models.yaml and the API's registry no longer mention the
\* old id, and hold the new one, whatever others reloaded and wherever the watcher died
\* before (retire_watch.py:549-551, 621-640).  In particular apply_yaml finds what it is to
\* replace, and does not raise.
THEOREM RecordsAreTrue == Spec => RecordedWhenReplaced
<1> DEFINE Recorded ==
      \A id \in Ids : replacements'[id] # replacements[id] =>
        /\ id \notin Mentioned(file) \cup Mentioned(served)
        /\ replacements'[id] \in Names(file) \cap Names(served)
<1>1. Init => Faithful BY FaithfulInit
<1>2. Faithful /\ [Next]_vars => Faithful' BY FaithfulStep
<1>3. Faithful /\ [Next]_vars => [Recorded]_vars
  <2> SUFFICES ASSUME Faithful, Next, NEW id \in Ids, replacements'[id] # replacements[id]
               PROVE  /\ id \notin Mentioned(file) \cup Mentioned(served)
                      /\ replacements'[id] \in Names(file) \cap Names(served)
    OBVIOUS
  <2>1. Record
    BY DEF Next, World, Watcher, Fails, Promote, ReloadByOthers, Start, Poll, EndRun, NextTarget,
           CatalogFails, Catalog, Abandon, Advise, ProbeRefused, ProbeFree, Reload, HttpFails,
           Crash, stateVars
  <2>2. id = target /\ replacements'[id] = choice
    BY <2>1 DEF Record, Faithful, Unique, TypedBusy, Typed, TypeOK
  <2> QED BY <2>1, <2>2 DEF Record, Faithful, Listed, Writing
<1> QED BY <1>1, <1>2, <1>3, PTL DEF Spec, RecordedWhenReplaced

-----------------------------------------------------------------------------
(* The safety half of RunsEnd. *)

\* How far a job is with a candidate.
Stage == [targets |-> 1, catalog |-> 2, probe |-> 3, advice |-> 4, reload |-> 5, answer |-> 6]

Progress == <<pc, targets, target, tries>>

\* One target less, one candidate more, or further with those at hand; or the run is over.
Advances ==
  \/ pc' \in {"asleep", "down"}
  \/ targets' \subseteq targets /\ targets' # targets
  \/ targets' = targets /\ tries' > tries
  \/ targets' = targets /\ tries' = tries /\ Stage[pc] < Stage[pc']

\* While a run is under way the job at hand is one of those left.
LEMMA DoneAdvances == ASSUME Assigned, AtWork, Done PROVE Advances
BY DEF Assigned, Done, Leave, Advances

\* Whatever is answered, each step of a run disposes of a target, uses up one of the MaxTries
\* candidates of its job or gets further with one: a failed job is not taken up again in the
\* same run (retire_watch.py:596-640), nor a candidate.
THEOREM RunsAdvance ==
  Spec => [][pc \notin {"down", "asleep"} /\ Progress' # Progress => Advances]_vars
<1>1. Init => TypedBusy /\ Assigned BY TypedInit DEF Init, Assigned, AtWork
<1>2. TypedBusy /\ Assigned /\ [Next]_vars => (TypedBusy /\ Assigned)' BY TypedStep, AssignedStep
<1>3. TypedBusy /\ Assigned /\ [Next]_vars
        => [pc \notin {"down", "asleep"} /\ Progress' # Progress => Advances]_vars
  <2> SUFFICES ASSUME TypedBusy, Assigned, Next, pc \notin {"down", "asleep"}, Progress' # Progress
               PROVE  Advances
    OBVIOUS
  <2>1. ~World BY DEF World, Fails, Promote, ReloadByOthers, localVars, Progress
  <2>2. CASE Crash BY <2>2 DEF Crash, Advances
  <2>3. ASSUME AtWork, Abandon \/ Record \/ HttpFails PROVE Advances
    BY <2>3, DoneAdvances DEF Abandon, Record, HttpFails
  <2>4. ASSUME NEW listed \in Catalogs, Catalog(listed) PROVE Advances
    BY <2>3, <2>4 DEF Catalog, AtWork, Advances, Stage
  <2>5. ASSUME NEW candidate \in Ids, Advise(candidate) PROVE Advances
    BY <2>5, WatchAssumption DEF Advise, Advances, TypedBusy, Typed, TypeOK
  <2>6. CASE CatalogFails BY <2>3, <2>6 DEF CatalogFails, AtWork
  <2>7. CASE ProbeRefused BY <2>3, <2>7 DEF ProbeRefused, AtWork, Advances, Stage, localVars
  <2>8. CASE Start \/ Poll \/ EndRun \/ NextTarget
    BY <2>8 DEF Start, Poll, EndRun, NextTarget, Advances, Stage
  <2>9. CASE ProbeFree \/ Reload
    BY <2>9 DEF ProbeFree, Reload, Advances, Stage, localVars
  <2>10. CASE Record \/ HttpFails BY <2>3, <2>10 DEF Record, HttpFails, AtWork
  <2> QED BY <2>1, <2>2, <2>4, <2>5, <2>6, <2>7, <2>8, <2>9, <2>10 DEF Next, Watcher
<1> QED BY <1>1, <1>2, <1>3, PTL DEF Spec
==============================================================================
