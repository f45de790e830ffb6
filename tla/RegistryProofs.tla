--------------------------- MODULE RegistryProofs ---------------------------
(***************************************************************************)
(* The agreement of the stores and the registry for any models, providers, *)
(* contents of models.yaml, requests and number of deaths.                 *)
(***************************************************************************)
EXTENDS RegistryProps, TLAPS

-----------------------------------------------------------------------------
(* Types. *)

LEMMA SetType ==
  ASSUME NEW ov \in Override, NEW new \in Override
  PROVE  Set(ov, new) \in Override
BY DEF Set, Override

LEMMA FilledType == ASSUME NEW e \in Entries PROVE Filled(e) \in Override
BY DEF Filled, Override, Entries

LEMMA NoOverrideType == NoOverride \in Override
BY DEF NoOverride, Override

LEMMA SavedKeysType ==
  ASSUME NEW row \in KeyRows, NEW b PROVE SavedKeys(row, b) \in KeyRows
<1>1. row.free \in BOOLEAN /\ row.paid \in BOOLEAN /\ row["free"] \in BOOLEAN
      /\ row["paid"] \in BOOLEAN /\ row.noenv \in BOOLEAN
  BY DEF KeyRows
<1> QED BY <1>1 DEF SavedKeys, KeyRows

LEMMA TierType ==
  ASSUME over \in [Names -> Override], NEW m \in Entries, NEW n \in Names
  PROVE  TierOf(m, n) \in Tiers
<1> DEFINE index == {i \in DOMAIN m.members : FirstTiered(m, i)}
<1>1. CASE Tiered(n) BY <1>1 DEF TierOf, Tiered, Override
<1>2. CASE ~Tiered(n) /\ index # {}
  <2>1. PICK i \in index : i = CHOOSE j \in index : TRUE BY <1>2
  <2>2. m.members[i] \in Names BY <2>1 DEF Entries
  <2>3. over[m.members[i]].tier \in Tiers BY <2>1, <2>2 DEF FirstTiered, Tiered, Override
  <2>4. TierOf(m, n) = over[m.members[i]].tier BY <1>2, <2>1 DEF TierOf
  <2> QED BY <2>3, <2>4
<1>3. CASE ~Tiered(n) /\ index = {} BY <1>3 DEF TierOf, Entries
<1> QED BY <1>1, <1>2, <1>3

\* What a reload serves has its type whenever the stores it reads have theirs.
StoresTyped ==
  /\ over \in [Names -> Override]
  /\ custom \in [Names -> Entries \cup {None}]
  /\ listed \subseteq YamlNames

LEMMA LoadedType == StoresTyped => Loaded \subseteq Served
<1> SUFFICES ASSUME StoresTyped, NEW n \in Known PROVE Applied(n) \in Served BY DEF Loaded
<1>1. n \in Names BY DEF Known
<1>2. Merged(n) \in Entries BY <1>1, RegistryAssumption DEF Known, Merged, StoresTyped
<1>3. TierOf(Merged(n), n) \in Tiers BY <1>1, <1>2, TierType DEF StoresTyped
<1>4. Effective(Merged(n)) \subseteq Names BY <1>2 DEF Effective, Entries, Range
<1>5. Merged(n).provider \in Providers BY <1>2 DEF Entries
<1> QED BY <1>1, <1>3, <1>4, <1>5 DEF Applied, Served

LEMMA PublishType ==
  ASSUME StoresTyped', Publish
  PROVE  registry' \subseteq Served /\ edited' \in BOOLEAN
<1>1. StoresTyped' => (Loaded \subseteq Served)' BY LoadedType, PTL
<1> QED BY <1>1 DEF Publish

\* The parts of TypeOK that a reload writes, and the rest.
Running == (up => torn \subseteq {"providers"}) /\ (~up => registry = {} /\ saving = {})
RestTyped ==
  /\ StoresTyped
  /\ keys \in [Providers -> KeyRows] /\ torn \subseteq Files
  /\ up \in BOOLEAN /\ saving \subseteq Names
  /\ requests \in 0..MaxRequests /\ crashes \in 0..MaxCrashes
  /\ asked \in [Names -> Override] /\ cut \subseteq Names

LEMMA TypeParts ==
  TypeOK <=> RestTyped /\ registry \subseteq Served /\ edited \in BOOLEAN /\ Running
BY DEF TypeOK, RestTyped, StoresTyped, Running

LEMMA TypePartsPrimed ==
  TypeOK' <=> (RestTyped' /\ registry' \subseteq Served /\ edited' \in BOOLEAN /\ Running')
BY DEF TypeOK, RestTyped, StoresTyped, Running

\* A handler that ends in a reload keeps the types if it keeps those of the rest.
LEMMA PublishingTyped ==
  ASSUME RestTyped', Publish, up', torn' \subseteq {"providers"}
  PROVE  TypeOK'
BY PublishType, TypePartsPrimed DEF RestTyped, Running

LEMMA RequestType == ASSUME TypeOK, Request PROVE requests' \in 0..MaxRequests
BY RegistryAssumption DEF TypeOK, Request

LEMMA InitTyped == ASSUME Init PROVE TypeOK
<1>1. StoresTyped BY NoOverrideType DEF Init, StoresTyped
<1>2. RestTyped BY <1>1, NoOverrideType, RegistryAssumption DEF Init, RestTyped, NoKeys, KeyRows
<1>3. registry \subseteq Served BY <1>1, LoadedType DEF Init
<1> QED BY <1>2, <1>3, TypeParts DEF Init, Running

LEMMA StoringTyped ==
  ASSUME TypeOK,
         \/ \E p \in Providers, b \in KeyRequests : SaveProvider(p, b)
         \/ \E n \in Names, new \in OverrideRequests : OverrideModel(n, new)
         \/ \E n \in Names : DeleteModel(n)
         \/ \E n \in Names : SaveReturns(n)
         \/ Reload \/ Start
  PROVE  TypeOK'
<1>1. ASSUME NEW p \in Providers, NEW b \in KeyRequests, SaveProvider(p, b) PROVE TypeOK'
  <2>1. SavedKeys(keys[p], b) \in KeyRows BY SavedKeysType DEF TypeOK
  <2>2. keys' \in [Providers -> KeyRows] BY <1>1, <2>1 DEF SaveProvider, TypeOK
  <2>3. RestTyped' BY <1>1, <2>2, RequestType DEF SaveProvider, TypeOK, RestTyped, StoresTyped
  <2> QED BY <1>1, <2>3, PublishingTyped DEF SaveProvider, Request, TypeOK
<1>2. ASSUME NEW n \in Names, NEW new \in OverrideRequests, OverrideModel(n, new) PROVE TypeOK'
  <2>1. Set(over[n], new) \in Override /\ Set(asked[n], new) \in Override
    BY SetType, RegistryAssumption DEF TypeOK
  <2>2. over' \in [Names -> Override] /\ asked' \in [Names -> Override]
    BY <1>2, <2>1 DEF OverrideModel, TypeOK
  <2>3. RestTyped' BY <1>2, <2>2, RequestType DEF OverrideModel, TypeOK, RestTyped, StoresTyped
  <2> QED BY <1>2, <2>3, PublishingTyped DEF OverrideModel, Request, TypeOK
<1>3. ASSUME NEW n \in Names, DeleteModel(n) PROVE TypeOK'
  <2>1. /\ over' \in [Names -> Override] /\ asked' \in [Names -> Override]
        /\ custom' \in [Names -> Entries \cup {None}] /\ cut' \subseteq Names
    BY <1>3, NoOverrideType DEF DeleteModel, TypeOK
  <2>2. RestTyped' BY <1>3, <2>1, RequestType DEF DeleteModel, TypeOK, RestTyped, StoresTyped
  <2> QED BY <1>3, <2>2, PublishingTyped DEF DeleteModel, Request, TypeOK
<1>4. ASSUME NEW n \in Names, SaveReturns(n) PROVE TypeOK'
  <2>1. RestTyped' BY <1>4 DEF SaveReturns, stores, TypeOK, RestTyped, StoresTyped
  <2> QED BY <1>4, <2>1, PublishingTyped DEF SaveReturns, stores, TypeOK
<1>5. CASE Reload
  <2>1. RestTyped' BY <1>5 DEF Reload, stores, TypeOK, RestTyped, StoresTyped
  <2> QED BY <1>5, <2>1, PublishingTyped DEF Reload, stores, TypeOK
<1>6. CASE Start
  <2>1. RestTyped' BY <1>6 DEF Start, stores, TypeOK, RestTyped, StoresTyped
  <2> QED BY <1>6, <2>1, PublishingTyped DEF Start, stores, TypeOK
<1> QED BY <1>1, <1>2, <1>3, <1>4, <1>5, <1>6

LEMMA WaitingTyped ==
  ASSUME TypeOK,
         \/ \E n \in Names, e \in SaveRequests : SaveModel(n, e)
         \/ \E n \in YamlNames : EditYaml(n)
         \/ \E file \in Files : Repair(file)
  PROVE  TypeOK'
<1>1. ASSUME NEW n \in Names, NEW e \in SaveRequests, SaveModel(n, e) PROVE TypeOK'
  <2>1. e \in Entries /\ Filled(e) \in Override BY RegistryAssumption, FilledType
  <2>2. Set(over[n], Filled(e)) \in Override BY <2>1, SetType DEF TypeOK
  <2>3. /\ over' \in [Names -> Override] /\ asked' \in [Names -> Override]
        /\ custom' \in [Names -> Entries \cup {None}] /\ cut' \subseteq Names
        /\ saving' \subseteq Names
    BY <1>1, <2>1, <2>2 DEF SaveModel, TypeOK
  <2> QED BY <1>1, <2>3, RequestType DEF SaveModel, Request, TypeOK
<1>2. ASSUME NEW n \in YamlNames, EditYaml(n) PROVE TypeOK'
  <2>1. listed' \subseteq YamlNames BY <1>2 DEF EditYaml, TypeOK
  <2>2. requests' \in 0..MaxRequests BY <1>2, RegistryAssumption DEF EditYaml, TypeOK
  <2> QED BY <1>2, <2>1, <2>2 DEF EditYaml, TypeOK
<1>3. ASSUME NEW file \in Files, Repair(file) PROVE TypeOK'
  BY <1>3 DEF Repair, TypeOK
<1> QED BY <1>1, <1>2, <1>3

LEMMA DyingTyped ==
  ASSUME TypeOK,
         \/ Crash \/ CrashInOverride \/ CrashInKeys
         \/ \E n \in Names, e \in SaveRequests, file \in {"none", "custom", "overrides"} :
              CrashInSave(n, e, file)
         \/ \E n \in Names, file \in {"none", "custom", "overrides"} : CrashInDelete(n, file)
  PROVE  TypeOK'
<1>1. ASSUME Dies,
             custom' \in [Names -> Entries \cup {None}], over' \in [Names -> Override],
             keys' \in [Providers -> KeyRows], torn' \subseteq Files, cut' \subseteq Names,
             asked' = asked
      PROVE  TypeOK'
  <2>1. crashes' \in 0..MaxCrashes BY <1>1, RegistryAssumption DEF Dies, TypeOK
  <2> QED BY <1>1, <2>1 DEF Dies, TypeOK
<1>2. ASSUME NEW n \in Names, NEW e \in Entries \cup {None},
             NEW file \in {"none", "custom", "overrides"}, Dies, Stored(n, e, file)
      PROVE  TypeOK'
  <2>1. custom' \in [Names -> Entries \cup {None}] BY <1>2 DEF Stored, TypeOK
  <2>2. over' \in [Names -> Override] BY <1>2, NoOverrideType DEF Stored, TypeOK
  <2>3. torn' \subseteq Files /\ cut' \subseteq Names /\ keys' = keys /\ asked' = asked
    BY <1>2 DEF Stored, TypeOK, Files
  <2> QED BY <1>1, <1>2, <2>1, <2>2, <2>3 DEF TypeOK
<1>3. CASE Crash BY <1>3, <1>1 DEF Crash, TypeOK
<1>4. CASE CrashInOverride BY <1>4, <1>1, NoOverrideType DEF CrashInOverride, TypeOK, Files
<1>5. CASE CrashInKeys BY <1>5, <1>1 DEF CrashInKeys, TypeOK, Files, NoKeys, KeyRows
<1>6. ASSUME NEW n \in Names, NEW e \in SaveRequests,
             NEW file \in {"none", "custom", "overrides"}, CrashInSave(n, e, file)
      PROVE  TypeOK'
  BY <1>6, <1>2, RegistryAssumption DEF CrashInSave
<1>7. ASSUME NEW n \in Names, NEW file \in {"none", "custom", "overrides"},
             CrashInDelete(n, file)
      PROVE  TypeOK'
  BY <1>7, <1>2 DEF CrashInDelete
<1> QED BY <1>3, <1>4, <1>5, <1>6, <1>7

\* Every variable keeps its type, and what cannot be read is not started on.
THEOREM TypesHold == Spec => []TypeOK
<1>1. Init => TypeOK BY InitTyped
<1>2. TypeOK /\ [Next]_vars => TypeOK'
  <2> SUFFICES ASSUME TypeOK, [Next]_vars PROVE TypeOK' OBVIOUS
  <2>1. CASE Next BY <2>1, StoringTyped, WaitingTyped, DyingTyped DEF Next
  <2>2. CASE UNCHANGED vars BY <2>2 DEF vars, stores, TypeOK
  <2> QED BY <2>1, <2>2
<1> QED BY <1>1, <1>2, PTL DEF Spec

-----------------------------------------------------------------------------
(* The actions that end in a reload, and what the others do to the registry. *)

Publishing ==
  \/ \E p \in Providers, b \in KeyRequests : SaveProvider(p, b)
  \/ \E n \in Names, new \in OverrideRequests : OverrideModel(n, new)
  \/ \E n \in Names : DeleteModel(n)
  \/ \E n \in Names : SaveReturns(n)
  \/ Reload \/ Start

Dying ==
  \/ Crash \/ CrashInOverride \/ CrashInKeys
  \/ \E n \in Names, e \in SaveRequests, file \in {"none", "custom", "overrides"} :
       CrashInSave(n, e, file)
  \/ \E n \in Names, file \in {"none", "custom", "overrides"} : CrashInDelete(n, file)

Saving == \E n \in Names, e \in SaveRequests : SaveModel(n, e)
Editing == \E n \in YamlNames : EditYaml(n)
Repairing == \E file \in Files : Repair(file)

LEMMA Cases == Next => Publishing \/ Dying \/ Saving \/ Editing \/ Repairing
BY DEF Next, Publishing, Dying, Saving, Editing, Repairing

LEMMA PublishingPublishes == ASSUME Publishing PROVE Publish
BY DEF Publishing, SaveProvider, OverrideModel, DeleteModel, SaveReturns, Reload, Start

LEMMA DyingEnds == ASSUME Dying PROVE ~up' /\ registry' = {}
BY DEF Dying, Crash, CrashInOverride, CrashInKeys, CrashInSave, CrashInDelete, Dies

-----------------------------------------------------------------------------
(* Agreement. *)

\* What is in service is what the files say, unless a save or an edit is pending:
\* whatever an action stores, it reloads, leaves pending, or ends the process.
THEOREM ServedAsStoredHolds == Spec => []ServedAsStored
<1>1. Init => ServedAsStored BY DEF Init, ServedAsStored
<1>2. ServedAsStored /\ [Next]_vars => ServedAsStored'
  <2> SUFFICES ASSUME ServedAsStored, [Next]_vars PROVE ServedAsStored' OBVIOUS
  <2>1. CASE Publishing BY <2>1, PublishingPublishes DEF ServedAsStored, Publish
  <2>2. CASE Dying BY <2>2, DyingEnds DEF ServedAsStored
  <2>3. CASE Saving
    <3>1. saving' # {} BY <2>3 DEF Saving, SaveModel
    <3> QED BY <3>1 DEF ServedAsStored
  <2>4. CASE Editing
    <3>1. edited' BY <2>4 DEF Editing, EditYaml
    <3> QED BY <3>1 DEF ServedAsStored
  <2>5. CASE Repairing
    <3>1. ~up' BY <2>5 DEF Repairing, Repair
    <3> QED BY <3>1 DEF ServedAsStored
  <2>6. CASE UNCHANGED vars
    <3>1. Loaded' = Loaded
      BY <2>6 DEF vars, stores, Loaded, Known, Ready, Applied, Merged, EnabledOf, TierOf,
                  FirstTiered, Tiered, Effective, Key, EnvKey, Other
    <3> QED BY <2>6, <3>1 DEF vars, ServedAsStored
  <2> QED BY <2>1, <2>2, <2>3, <2>4, <2>5, <2>6, Cases
<1> QED BY <1>1, <1>2, PTL DEF Spec

\* The two ways of looking for a key agree that there is one.
LEMMA SourcesAgree ==
  ASSUME NEW p \in Providers, NEW t \in Tiers, Key(p, t) # "none"
  PROVE  KeySource(p) # "none"
BY DEF Key, KeySource, EnvKey, Other, Tiers

LEMMA LoadedHasKey ==
  StoresTyped =>
    \A m \in Loaded : Key(m.provider, m.tier) # "none" /\ KeySource(m.provider) # "none"
<1> SUFFICES ASSUME StoresTyped, NEW m \in Loaded
             PROVE  Key(m.provider, m.tier) # "none" /\ KeySource(m.provider) # "none"
  OBVIOUS
<1>1. m \in Served BY LoadedType
<1>2. Key(m.provider, m.tier) # "none" BY DEF Loaded, Ready
<1> QED BY <1>1, <1>2, SourcesAgree DEF Served

LEMMA KeysUnchanged ==
  ASSUME ServedHasKey, UNCHANGED <<keys, torn, registry>>
  PROVE  ServedHasKey'
BY DEF ServedHasKey, Key, KeySource, EnvKey, Other

\* Every model in service has a key: each change of keys is followed by a reload in
\* the same step, and the file changes without one only while nothing is served.
THEOREM ServedHasKeyHolds == Spec => []ServedHasKey
<1>1. Init => ServedHasKey
  <2> SUFFICES ASSUME Init PROVE ServedHasKey OBVIOUS
  <2>1. StoresTyped BY InitTyped, TypeParts DEF RestTyped
  <2>2. registry = Loaded BY DEF Init
  <2> QED BY <2>1, <2>2, LoadedHasKey DEF ServedHasKey
<1>2. TypeOK /\ TypeOK' /\ ServedHasKey /\ [Next]_vars => ServedHasKey'
  <2> SUFFICES ASSUME TypeOK, TypeOK', ServedHasKey, [Next]_vars PROVE ServedHasKey' OBVIOUS
  <2>1. CASE Publishing
    <3>1. StoresTyped' BY TypePartsPrimed DEF RestTyped
    <3>2. StoresTyped' =>
            (\A m \in Loaded : Key(m.provider, m.tier) # "none"
                              /\ KeySource(m.provider) # "none")'
      BY LoadedHasKey, PTL
    <3>3. registry' = Loaded' BY <2>1, PublishingPublishes DEF Publish
    <3> QED BY <3>1, <3>2, <3>3 DEF ServedHasKey
  <2>2. CASE Dying BY <2>2, DyingEnds DEF ServedHasKey
  <2>3. CASE Saving BY <2>3, KeysUnchanged DEF Saving, SaveModel
  <2>4. CASE Editing BY <2>4, KeysUnchanged DEF Editing, EditYaml
  <2>5. CASE Repairing
    <3>1. registry' = {} BY <2>5 DEF Repairing, Repair, TypeOK
    <3> QED BY <3>1 DEF ServedHasKey
  <2>6. CASE UNCHANGED vars BY <2>6, KeysUnchanged DEF vars, stores
  <2> QED BY <2>1, <2>2, <2>3, <2>4, <2>5, <2>6, Cases
<1> QED BY <1>1, <1>2, TypesHold, PTL DEF Spec

-----------------------------------------------------------------------------
(* What was asked. *)

\* Off the names a crash has cut, the overrides are what the answered requests asked
\* for, and a custom model has one that leaves nothing to its entry.
AskedStored ==
  \A n \in Names \ cut :
    /\ over[n] = asked[n]
    /\ custom[n] # None => asked[n].enabled # "unset" /\ asked[n].tier # "unset"

LEMMA SetFilled ==
  ASSUME NEW ov, NEW e \in Entries PROVE Set(ov, Filled(e)) = Filled(e)
BY DEF Set, Filled, Entries, Tiers

LEMMA SetKeeps ==
  ASSUME NEW ov \in Override, NEW new \in Override,
         ov.enabled # "unset", ov.tier # "unset"
  PROVE  Set(ov, new).enabled # "unset" /\ Set(ov, new).tier # "unset"
BY DEF Set, Override

LEMMA AskedStoredKept ==
  ASSUME TypeOK, AskedStored, [Next]_vars
  PROVE  AskedStored'
<1> USE DEF AskedStored
<1>1. ASSUME NEW p \in Providers, NEW b \in KeyRequests, SaveProvider(p, b) PROVE AskedStored'
  BY <1>1 DEF SaveProvider
<1>2. ASSUME NEW n \in Names, NEW new \in OverrideRequests, OverrideModel(n, new)
      PROVE  AskedStored'
  <2> SUFFICES ASSUME NEW k \in Names \ cut'
               PROVE  /\ over'[k] = asked'[k]
                      /\ custom'[k] # None =>
                           asked'[k].enabled # "unset" /\ asked'[k].tier # "unset"
    OBVIOUS
  <2>1. k \notin cut /\ custom' = custom BY <1>2 DEF OverrideModel
  <2>2. CASE k = n
    <3>1. over'[k] = Set(over[k], new) /\ asked'[k] = Set(asked[k], new)
      BY <1>2, <2>2 DEF OverrideModel, TypeOK
    <3>2. asked[k] \in Override /\ new \in Override BY RegistryAssumption DEF TypeOK
    <3> QED BY <2>1, <3>1, <3>2, SetKeeps
  <2>3. CASE k # n
    <3>1. over'[k] = over[k] /\ asked'[k] = asked[k]
      BY <1>2, <2>3 DEF OverrideModel, TypeOK
    <3> QED BY <2>1, <3>1
  <2> QED BY <2>2, <2>3
<1>3. ASSUME NEW n \in Names, DeleteModel(n) PROVE AskedStored'
  BY <1>3 DEF DeleteModel, TypeOK
<1>4. ASSUME NEW n \in Names, NEW e \in SaveRequests, SaveModel(n, e) PROVE AskedStored'
  <2>1. e \in Entries BY RegistryAssumption
  <2>2. over' = [over EXCEPT ![n] = Filled(e)] BY <1>4, <2>1, SetFilled DEF SaveModel, TypeOK
  <2>3. Filled(e).enabled # "unset" /\ Filled(e).tier # "unset"
    BY <2>1 DEF Filled, Entries, Tiers
  <2> QED BY <1>4, <2>2, <2>3 DEF SaveModel, TypeOK
<1>5. ASSUME NEW n \in Names, SaveReturns(n) PROVE AskedStored'
  BY <1>5 DEF SaveReturns, stores
<1>6. CASE Reload \/ Start \/ Editing \/ Repairing
  BY <1>6 DEF Reload, Start, Editing, EditYaml, Repairing, Repair, stores
<1>7. ASSUME NEW n \in Names, NEW e, NEW file \in {"none", "custom", "overrides"},
             Stored(n, e, file)
      PROVE  AskedStored'
  <2>1. CASE file = "none"
    <3>1. /\ custom' = [custom EXCEPT ![n] = e] /\ over' = over /\ asked' = asked
          /\ cut' = cut \cup {n}
      BY <1>7, <2>1 DEF Stored
    <3> QED BY <3>1 DEF TypeOK
  <2>2. CASE file # "none" BY <1>7, <2>2 DEF Stored
  <2> QED BY <2>1, <2>2
<1>8. CASE Dying
  BY <1>8, <1>7 DEF Dying, Crash, CrashInOverride, CrashInKeys, CrashInSave, CrashInDelete
<1>9. CASE UNCHANGED vars BY <1>9 DEF vars, stores
<1> QED
  BY <1>1, <1>2, <1>3, <1>4, <1>5, <1>6, <1>8, <1>9, Cases
  DEF Publishing, Saving

\* The overrides that count are those that were asked for.
THEOREM AskedStoredHolds == Spec => []AskedStored
<1>1. Init => AskedStored BY DEF Init, AskedStored
<1>2. TypeOK /\ AskedStored /\ [Next]_vars => AskedStored' BY AskedStoredKept
<1> QED BY <1>1, <1>2, TypesHold, PTL DEF Spec

\* What a plain model is served as follows from its override alone.
LEMMA PlainServed ==
  ASSUME TypeOK, AskedStored, registry = Loaded, NEW n \in Names \ cut, Plain(n)
  PROVE  /\ InService(n) <=>
              AskedEnabled(n) /\ Key(Merged(n).provider, AskedTier(n)) # "none"
         /\ \A m \in registry : m.name = n => m.tier = AskedTier(n)
<1>1. /\ over[n] = asked[n] /\ over[n] \in Override
      /\ custom[n] # None => asked[n].enabled # "unset" /\ asked[n].tier # "unset"
  BY DEF AskedStored, TypeOK
<1>2. Merged(n).members = <<>> /\ n \in Known BY DEF Plain
<1>3. custom[n] = None => Merged(n) = Yaml[n] BY DEF Merged
<1>4. TierOf(Merged(n), n) = AskedTier(n)
  BY <1>1, <1>2, <1>3 DEF TierOf, Tiered, AskedTier
<1>5. EnabledOf(Merged(n), n) = AskedEnabled(n)
  BY <1>1, <1>3 DEF EnabledOf, AskedEnabled
<1>6. Ready(n) <=> AskedEnabled(n) /\ Key(Merged(n).provider, AskedTier(n)) # "none"
  BY <1>2, <1>4, <1>5 DEF Ready, Applied
<1>7. \A k \in Known : Applied(k).name = k BY DEF Applied
<1>8. \A m \in registry : m.name = n => m = Applied(n) /\ Ready(n)
  BY <1>7 DEF Loaded
<1>9. Ready(n) => Applied(n) \in registry BY <1>2 DEF Loaded
<1>10. Applied(n).tier = AskedTier(n) BY <1>4 DEF Applied
<1> QED BY <1>2, <1>6, <1>7, <1>8, <1>9, <1>10 DEF InService

\* An operator finds in service what the answered requests asked for.
THEOREM AskedIsServedHolds == Spec => []AskedIsServed
<1>1. TypeOK /\ AskedStored /\ ServedAsStored => AskedIsServed
  BY PlainServed DEF AskedIsServed, ServedAsStored
<1> QED BY <1>1, TypesHold, AskedStoredHolds, ServedAsStoredHolds, PTL

HiddenLeftOut == \A n \in Names \ cut : Hidden(n) => \A m \in Loaded : m.name # n

LEMMA HiddenNotLoaded == AskedStored => HiddenLeftOut
BY DEF HiddenLeftOut, AskedStored, Hidden, Loaded, Ready, Applied, EnabledOf, Known

\* No step brings a hidden model back.
THEOREM HiddenStaysOutHolds == Spec => HiddenStaysOut
<1>1. AskedStored' /\ [Next]_vars =>
        [\A n \in Names \ cut' :
           Hidden(n) /\ Hidden(n)' /\ ~InService(n) => ~InService(n)']_vars
  <2> SUFFICES ASSUME AskedStored', Next, NEW n \in Names \ cut', Hidden(n)', ~InService(n)
               PROVE  ~InService(n)'
    OBVIOUS
  <2>1. CASE Publishing
    <3>1. AskedStored' => HiddenLeftOut' BY HiddenNotLoaded, PTL
    <3>2. registry' = Loaded' BY <2>1, PublishingPublishes DEF Publish
    <3> QED BY <3>1, <3>2 DEF InService, HiddenLeftOut
  <2>2. CASE Dying BY <2>2, DyingEnds DEF InService
  <2>3. CASE Saving \/ Editing \/ Repairing
    BY <2>3 DEF InService, Saving, SaveModel, Editing, EditYaml, Repairing, Repair
  <2> QED BY <2>1, <2>2, <2>3, Cases
<1> QED BY <1>1, AskedStoredHolds, PTL DEF Spec, HiddenStaysOut
=============================================================================
