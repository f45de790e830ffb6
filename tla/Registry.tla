------------------------------ MODULE Registry ------------------------------
(***************************************************************************)
(* What the admin pages store about models and provider keys, and the      *)
(* registry the router serves from it: model_store.py, provider_store.py,  *)
(* registry.py and the handlers of api.py that store and reload.  Every    *)
(* handler runs on the event loop, so only the probe in apply_model_save   *)
(* lets another one in between; but each file is written in place and by   *)
(* itself, so the process may die in a write or between two.  models.yaml  *)
(* is edited by others, who ask for a reload afterwards or forget to.      *)
(***************************************************************************)
EXTENDS Naturals, Sequences, Functions

CONSTANTS
  Names,        \* names of models and ids of cascade members: overrides know both
  Providers,
  Yaml,         \* the entry models.yaml has for a name, when it lists the name
  YamlNames,    \* the names models.yaml may list
  SaveRequests, \* the entries the page may save for a custom model
  OverrideRequests, \* the fields it may override
  KeyRequests,  \* the changes the page may make to the keys of a provider
  EnvKeys,      \* the providers whose key is in the environment
  None,         \* no custom model of a name
  MaxRequests,  \* bound on the requests that change a store
  MaxCrashes    \* bound on the deaths of the process

Tiers == {"free", "paid"}
Files == {"custom", "overrides", "providers"}

\* An override sets each field or leaves it to the entry.
Override == [enabled : {"unset", "yes", "no"}, tier : Tiers \cup {"unset"}]
NoOverride == [enabled |-> "unset", tier |-> "unset"]

Entries == [provider : Providers, enabled : BOOLEAN, tier : Tiers, members : Seq(Names)]
Served == [name : Names, provider : Providers, tier : Tiers, members : SUBSET Names]

\* Whether a provider has keys of either tier, and whether its environment key is off.
KeyRows == [free : BOOLEAN, paid : BOOLEAN, noenv : BOOLEAN]
NoKeys == [free |-> FALSE, paid |-> FALSE, noenv |-> FALSE]

ASSUME RegistryAssumption ==
  /\ YamlNames \subseteq Names
  /\ Yaml \in [YamlNames -> Entries]
  /\ SaveRequests \subseteq Entries /\ OverrideRequests \subseteq Override
  /\ EnvKeys \subseteq Providers
  /\ None \notin Entries
  /\ MaxRequests \in Nat /\ MaxCrashes \in Nat

VARIABLES
  listed,     \* the names models.yaml lists
  custom,     \* custom_models.json
  over,       \* model_overrides.json
  keys,       \* providers.json
  torn,       \* the files whose last write was cut
  up,         \* the process runs
  registry,   \* the models in service
  saving,     \* saves whose probe has not answered
  edited,     \* models.yaml was edited since the last reload
  requests, crashes,
  asked,      \* history: what the answered requests ask for, by name
  cut         \* history: names whose last request was cut by a crash

stores == <<listed, custom, over, keys, torn>>
vars == <<stores, up, registry, saving, edited, requests, crashes, asked, cut>>
-----------------------------------------------------------------------------
(* Reading the stores. *)

\* The key a call of provider p at tier t is sent with: of its tier, else of the
\* other one, else the environment's, which is also used when the file is unreadable.
EnvKey(p) == IF p \in EnvKeys THEN "env" ELSE "none"
Other(t) == IF t = "free" THEN "paid" ELSE "free"
Key(p, t) ==
  IF "providers" \in torn THEN EnvKey(p)
  ELSE IF keys[p][t] THEN t
  ELSE IF keys[p][Other(t)] THEN Other(t)
  ELSE IF keys[p].noenv THEN "none" ELSE EnvKey(p)

\* What the pages say of the key of provider p.
KeySource(p) ==
  IF "providers" \in torn THEN EnvKey(p)
  ELSE IF keys[p].free \/ keys[p].paid THEN "store"
  ELSE IF keys[p].noenv THEN "none" ELSE EnvKey(p)

\* Custom models replace entries of models.yaml that have their name.
Known == {n \in Names : custom[n] # None \/ n \in listed}
Merged(n) == IF custom[n] # None THEN custom[n] ELSE Yaml[n]

Tiered(n) == over[n].tier # "unset"

\* A family without a tier of its own takes the first its members' overrides set.
FirstTiered(m, i) == Tiered(m.members[i]) /\ \A j \in 1..(i - 1) : ~Tiered(m.members[j])

TierOf(m, n) ==
  LET index == {i \in DOMAIN m.members : FirstTiered(m, i)}
  IN IF Tiered(n) THEN over[n].tier
     ELSE IF index # {} THEN over[m.members[CHOOSE i \in index : TRUE]].tier
     ELSE m.tier

\* Mutant: an override may show a model and never hides one.
EnabledOfEntry(m, n) == m.enabled \/ over[n].enabled = "yes"

EnabledOf(m, n) == IF over[n].enabled = "unset" THEN m.enabled ELSE over[n].enabled = "yes"

\* The members of a family that no override hides.  Weights, which order them and
\* which are stored and applied as tiers are, are left out.
Effective(m) == {x \in Range(m.members) : over[x].enabled # "no"}

Applied(n) ==
  LET m == Merged(n)
  IN [name |-> n, provider |-> m.provider, tier |-> TierOf(m, n), members |-> Effective(m)]

Ready(n) ==
  /\ EnabledOf(Merged(n), n)
  /\ Merged(n).members # <<>> => Effective(Merged(n)) # {}
  /\ Key(Applied(n).provider, Applied(n).tier) # "none"

\* What load_registry returns, and the roster cascade_manager_from_registry makes of it.
Loaded == {Applied(n) : n \in {k \in Known : Ready(k)}}
-----------------------------------------------------------------------------
Init ==
  /\ listed = YamlNames
  /\ custom = [n \in Names |-> None]
  /\ over = [n \in Names |-> NoOverride]
  /\ keys = [p \in Providers |-> NoKeys]
  /\ torn = {} /\ up = TRUE
  /\ registry = Loaded
  /\ saving = {} /\ edited = FALSE
  /\ requests = 0 /\ crashes = 0
  /\ asked = [n \in Names |-> NoOverride]
  /\ cut = {}

\* reload_registry: everything that routes reads the new list from now on.
Publish == registry' = Loaded' /\ edited' = FALSE

Request == up /\ requests < MaxRequests /\ requests' = requests + 1

\* A save fills in every field of the override, an override those it is given.
Set(ov, new) ==
  [enabled |-> IF new.enabled = "unset" THEN ov.enabled ELSE new.enabled,
   tier |-> IF new.tier = "unset" THEN ov.tier ELSE new.tier]

Filled(e) == [enabled |-> IF e.enabled THEN "yes" ELSE "no", tier |-> e.tier]

\* The order in which save_provider applies the fields of one request.
SavedKeys(row, b) ==
  LET has(t) == t \in b.add \cup b.replace \/ (row[t] /\ t \notin b.clear \cup b.blank)
  IN [free |-> has("free"), paid |-> has("paid"),
      noenv |-> IF b.env = "keep" THEN row.noenv \/ b.replace \cup b.blank # {}
                ELSE b.env = "off"]

\* Mutant: the new keys are stored and the registry is left as it was.
SaveProviderQuietly(p, b) ==
  /\ Request /\ "providers" \notin torn
  /\ keys' = [keys EXCEPT ![p] = SavedKeys(@, b)]
  /\ UNCHANGED <<listed, custom, over, torn, up, registry, saving, edited, crashes, asked, cut>>

\* An unreadable file makes save_provider raise before it writes.
SaveProvider(p, b) ==
  /\ Request /\ "providers" \notin torn
  /\ keys' = [keys EXCEPT ![p] = SavedKeys(@, b)]
  /\ UNCHANGED <<listed, custom, over, torn, up, saving, crashes, asked, cut>>
  /\ Publish

\* Mutant: the override an earlier request left is kept.
SaveModelKeepsOverride(n, e) ==
  /\ Request /\ n \notin saving
  /\ custom' = [custom EXCEPT ![n] = e]
  /\ saving' = saving \cup {n}
  /\ asked' = [asked EXCEPT ![n] = Filled(e)]
  /\ cut' = cut \ {n}
  /\ UNCHANGED <<listed, over, keys, torn, up, registry, edited, crashes>>

\* apply_model_save up to its probe: both files are written, nothing is reloaded.
\* Two saves of one name that are probed at a time are left out.
SaveModel(n, e) ==
  /\ Request /\ n \notin saving
  /\ custom' = [custom EXCEPT ![n] = e]
  /\ over' = [over EXCEPT ![n] = Set(@, Filled(e))]
  /\ saving' = saving \cup {n}
  /\ asked' = [asked EXCEPT ![n] = Filled(e)]
  /\ cut' = cut \ {n}
  /\ UNCHANGED <<listed, keys, torn, up, registry, edited, crashes>>

\* The probe answers, whatever it says: the registry is loaded either way.
SaveReturns(n) ==
  /\ up /\ n \in saving
  /\ saving' = saving \ {n}
  /\ UNCHANGED <<stores, up, requests, crashes, asked, cut>>
  /\ Publish

OverrideModel(n, new) ==
  /\ Request
  /\ over' = [over EXCEPT ![n] = Set(@, new)]
  /\ asked' = [asked EXCEPT ![n] = Set(@, new)]
  /\ UNCHANGED <<listed, custom, keys, torn, up, saving, crashes, cut>>
  /\ Publish

\* Mutant: the handler answers without a reload.
DeleteModelQuietly(n) ==
  /\ Request /\ custom[n] # None
  /\ custom' = [custom EXCEPT ![n] = None]
  /\ over' = [over EXCEPT ![n] = NoOverride]
  /\ asked' = [asked EXCEPT ![n] = NoOverride]
  /\ cut' = cut \ {n}
  /\ UNCHANGED <<listed, keys, torn, up, registry, saving, edited, crashes>>

\* A name without a custom model is answered 404 and its override stays.
DeleteModel(n) ==
  /\ Request /\ custom[n] # None
  /\ custom' = [custom EXCEPT ![n] = None]
  /\ over' = [over EXCEPT ![n] = NoOverride]
  /\ asked' = [asked EXCEPT ![n] = NoOverride]
  /\ cut' = cut \ {n}
  /\ UNCHANGED <<listed, keys, torn, up, saving, crashes>>
  /\ Publish

Reload ==
  /\ up
  /\ UNCHANGED <<stores, up, saving, requests, crashes, asked, cut>>
  /\ Publish

\* Somebody adds an entry to models.yaml or takes one out.
EditYaml(n) ==
  /\ requests < MaxRequests /\ requests' = requests + 1
  /\ listed' = (listed \ {n}) \cup ({n} \ listed)
  /\ edited' = TRUE
  /\ UNCHANGED <<custom, over, keys, torn, up, registry, saving, crashes, asked, cut>>
-----------------------------------------------------------------------------
(* Deaths.  The data of a file whose write is cut is lost. *)

Dies ==
  /\ up /\ crashes < MaxCrashes
  /\ up' = FALSE /\ crashes' = crashes + 1
  /\ registry' = {} /\ saving' = {} /\ edited' = FALSE
  /\ UNCHANGED <<listed, requests>>

Crash == Dies /\ UNCHANGED <<custom, over, keys, torn, asked, cut>>

\* Between the two writes of a save or a delete, or in the first or second of them.
Stored(n, e, file) ==
  /\ custom' = IF file = "custom" THEN [m \in Names |-> None] ELSE [custom EXCEPT ![n] = e]
  /\ over' = IF file = "overrides" THEN [m \in Names |-> NoOverride] ELSE over
  /\ torn' = torn \cup ({file} \ {"none"})
  /\ cut' = IF file = "none" THEN cut \cup {n} ELSE Names
  /\ UNCHANGED <<keys, asked>>

CrashInSave(n, e, file) == Dies /\ Stored(n, e, file)

CrashInDelete(n, file) ==
  /\ Dies /\ custom[n] # None
  /\ file = "overrides" => over[n] # NoOverride
  /\ Stored(n, None, file)

CrashInOverride ==
  /\ Dies
  /\ over' = [n \in Names |-> NoOverride] /\ torn' = torn \cup {"overrides"} /\ cut' = Names
  /\ UNCHANGED <<custom, keys, asked>>

CrashInKeys ==
  /\ Dies /\ "providers" \notin torn
  /\ keys' = [p \in Providers |-> NoKeys] /\ torn' = torn \cup {"providers"}
  /\ UNCHANGED <<custom, over, asked, cut>>

\* Mutant: an unreadable list does not keep the process from starting.
StartAnyway ==
  /\ ~up
  /\ up' = TRUE
  /\ UNCHANGED <<stores, saving, requests, crashes, asked, cut>>
  /\ Publish

\* The lists of models are read without a guard, the keys under one.
Start ==
  /\ ~up /\ torn \subseteq {"providers"}
  /\ up' = TRUE
  /\ UNCHANGED <<stores, saving, requests, crashes, asked, cut>>
  /\ Publish

\* The operator removes an unreadable file before the next start.
Repair(file) ==
  /\ ~up /\ file \in torn
  /\ torn' = torn \ {file}
  /\ UNCHANGED <<listed, custom, over, keys, up, registry, saving, edited, requests, crashes,
                 asked, cut>>

Next ==
  \/ \E p \in Providers, b \in KeyRequests : SaveProvider(p, b)
  \/ \E n \in Names, e \in SaveRequests : SaveModel(n, e)
  \/ \E n \in Names : SaveReturns(n)
  \/ \E n \in Names, new \in OverrideRequests : OverrideModel(n, new)
  \/ \E n \in Names : DeleteModel(n)
  \/ Reload
  \/ \E n \in YamlNames : EditYaml(n)
  \/ Crash
  \/ \E n \in Names, e \in SaveRequests, file \in {"none", "custom", "overrides"} :
       CrashInSave(n, e, file)
  \/ \E n \in Names, file \in {"none", "custom", "overrides"} : CrashInDelete(n, file)
  \/ CrashInOverride
  \/ CrashInKeys
  \/ Start
  \/ \E file \in Files : Repair(file)

Spec == Init /\ [][Next]_vars
=============================================================================
