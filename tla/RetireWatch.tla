----------------------------- MODULE RetireWatch -----------------------------
(***************************************************************************)
(* llmcascade/retire_watch.py: a second process that replaces the models      *)
(* which are out for good.  It asks the API for them, and for each finds a    *)
(* candidate in the provider's catalog, probes it, writes models.yaml, has    *)
(* the API reload it and records the replacement.                            *)
(*                                                                         *)
(* The module models the entries of models.yaml, the API as far as the       *)
(* watcher sees it, and one watcher, which may die at any moment and is       *)
(* started again.  A file is written in one step, and by the watcher alone.   *)
(* What a provider has retired shows only in what its answers are taken for:  *)
(* a failed call for a permanent or a passing failure, an answered probe for  *)
(* a free model or not, whatever the state of the model.                     *)
(***************************************************************************)
EXTENDS Naturals, FiniteSets

CONSTANTS
  Ids,        \* model ids
  NoId,
  Slots,      \* the entries of models.yaml
  Chats,      \* those with the capability "chat"
  Written,    \* models.yaml at the beginning
  Catalogs,   \* what a provider may answer when asked for its models
  MaxTries,   \* candidates tried for one target, 8 in the code
  MaxDoomed   \* bound: names that are ever out for good

\* An entry has a name; a request for it carries api_model, if there is one.
Entries == [name : Ids, api : Ids \cup {NoId}]

ASSUME WatchAssumption ==
  /\ NoId \notin Ids
  /\ Chats \subseteq Slots
  /\ Written \in [Slots -> Entries]
  /\ \A s, t \in Slots : Written[s].name = Written[t].name => s = t
  /\ Catalogs \subseteq SUBSET Ids
  /\ MaxTries \in Nat \ {0}
  /\ MaxDoomed \in Nat

VARIABLES
  file,          \* models.yaml
  served,        \* the entries in the API's registry
  row,           \* the API's pool, each name's row: "cooling" stands for the kinds
                 \* other than permanent
  doomed,        \* history: names that have been out for good
  pc,            \* where run_once is
  targets,       \* the targets still to be handled
  target,
  catalog,       \* the candidates not yet tried
  tries,
  choice,        \* the candidate being probed
  replacements,  \* the state file: each replaced id's successor
  abandoned      \* the state file: ids given up

apiVars == <<served, row, doomed>>
localVars == <<targets, target, catalog, tries, choice>>
stateVars == <<replacements, abandoned>>
vars == <<file, served, row, doomed, pc, targets, target, catalog, tries, choice,
          replacements, abandoned>>

Steps == {"down", "asleep", "targets", "catalog", "advice", "probe", "reload", "answer"}

Names(entries) == {entries[s].name : s \in Slots}

\* replace_model_id: as a name and as an api_model, in whichever entry.
Replaced(entries, old, new) ==
  [s \in Slots |-> [name |-> IF entries[s].name = old THEN new ELSE entries[s].name,
                    api  |-> IF entries[s].api = old THEN new ELSE entries[s].api]]

-----------------------------------------------------------------------------
(* The API. *)

\* A failure of an entry's model is filed under its name, for good if its status or
\* text is taken for that (classify_failure), for a while otherwise.
Fails(s) ==
  /\ row[served[s].name] # "permanent"
  /\ \E kind \in {"cooling", "permanent"} :
       /\ row' = [row EXCEPT ![served[s].name] = kind]
       /\ doomed' = IF kind = "permanent" THEN doomed \cup {served[s].name} ELSE doomed
  /\ Cardinality(doomed') <= MaxDoomed
  /\ UNCHANGED <<file, served, pc, localVars, stateVars>>

\* A health probe, or an operator's test, that the provider answers.
Promote(s) ==
  /\ row[served[s].name] # "none"
  /\ row' = [row EXCEPT ![served[s].name] = "none"]
  /\ UNCHANGED <<file, served, doomed, pc, localVars, stateVars>>

\* RouterClient.reload_registry: the pool forgets names that are gone.
LoadRegistry ==
  /\ served' = file
  /\ row' = [n \in Ids |-> IF n \in Names(file) THEN row[n] ELSE "none"]

\* An operator reloads the registry, or the API restarts.
ReloadByOthers ==
  /\ LoadRegistry
  /\ UNCHANGED <<file, doomed, pc, localVars, stateVars>>

-----------------------------------------------------------------------------
(* run_once. *)

\* Mutant: whatever is out of rotation is a target.
RetiredOrCooling == {file[s].name : s \in {t \in Chats : row[file[t].name] # "none"}}

\* retired_from_status.
Retired == {file[s].name : s \in {t \in Chats : row[file[t].name] = "permanent"}}

\* The state file is read here, so targets it knows are left out at once.
Poll ==
  /\ pc = "asleep"
  /\ targets' = {id \in Retired : replacements[id] = NoId /\ id \notin abandoned}
  /\ pc' = "targets"
  /\ UNCHANGED <<file, apiVars, target, catalog, tries, choice, stateVars>>

EndRun ==
  /\ pc = "targets" /\ targets = {}
  /\ pc' = "asleep"
  /\ UNCHANGED <<file, apiVars, localVars, stateVars>>

NextTarget ==
  /\ pc = "targets"
  /\ target' \in targets
  /\ pc' = "catalog"
  /\ UNCHANGED <<file, apiVars, targets, catalog, tries, choice, stateVars>>

\* The local variables of replace_one end with it.
Leave(rest) ==
  /\ targets' = rest
  /\ target' = NoId /\ catalog' = {} /\ tries' = 0 /\ choice' = NoId

Done == Leave(targets \ {target}) /\ pc' = "targets"

\* Mutant: a target without a replacement is not recorded.
AbandonSilently == Done /\ UNCHANGED <<file, apiVars, stateVars>>

\* RuntimeError: the target is given up and recorded.
Abandon ==
  /\ abandoned' = abandoned \cup {target}
  /\ Done
  /\ UNCHANGED <<file, apiVars, replacements>>

\* Mutant: only the target itself is left out.
CandidatesEvenListed(listed) == listed \ {target}

\* replace_one leaves out the target and what models.yaml holds by now.
Candidates(listed) == (listed \ {target}) \ Names(file)

Catalog(listed) ==
  /\ pc = "catalog"
  /\ IF Candidates(listed) = {}
     THEN Abandon
     ELSE /\ catalog' = Candidates(listed)
          /\ pc' = "advice"
          /\ UNCHANGED <<file, apiVars, targets, target, tries, choice, stateVars>>

CatalogFails == pc = "catalog" /\ Abandon

\* suggest_id: the API's own models pick one, or the first is taken.
Advise(candidate) ==
  /\ pc = "advice" /\ candidate \in catalog
  /\ choice' = candidate
  /\ catalog' = catalog \ {candidate}
  /\ tries' = tries + 1
  /\ pc' = "probe"
  /\ UNCHANGED <<file, apiVars, targets, target, stateVars>>

Exhausted == catalog = {} \/ tries >= MaxTries

ProbeRefused ==
  /\ pc = "probe"
  /\ \/ Exhausted /\ Abandon
     \/ /\ ~Exhausted
        /\ pc' = "advice"
        /\ UNCHANGED <<file, apiVars, localVars, stateVars>>

\* Any answer, any 429 and any daily limit pass for free; then apply_yaml.
ProbeFree ==
  /\ pc = "probe"
  /\ file' = Replaced(file, target, choice)
  /\ pc' = "reload"
  /\ UNCHANGED <<apiVars, localVars, stateVars>>

\* The API handles POST /v1/admin/reload-registry.
Reload ==
  /\ pc = "reload"
  /\ LoadRegistry
  /\ pc' = "answer"
  /\ UNCHANGED <<file, doomed, localVars, stateVars>>

Record ==
  /\ pc = "answer"
  /\ replacements' = [replacements EXCEPT ![target] = choice]
  /\ Done
  /\ UNCHANGED <<file, apiVars, abandoned>>

\* Mutant: the replacement is recorded although the reload failed.
HttpFailsRecorded ==
  /\ pc \in {"advice", "probe", "reload", "answer"}
  /\ replacements' = IF pc = "reload" THEN [replacements EXCEPT ![target] = choice]
                     ELSE replacements
  /\ Done
  /\ UNCHANGED <<file, apiVars, abandoned>>

\* Mutant: a job that failed before it wrote anything is tried again at once.
HttpFailsAgain ==
  /\ pc \in {"advice", "probe", "reload", "answer"}
  /\ Leave(IF pc \in {"advice", "probe"} THEN targets ELSE targets \ {target})
  /\ pc' = "targets"
  /\ UNCHANGED <<file, apiVars, stateVars>>

\* A request of the watcher fails, or its answer is lost: the job ends, and nothing
\* is recorded.
HttpFails ==
  /\ pc \in {"advice", "probe", "reload", "answer"}
  /\ Done
  /\ UNCHANGED <<file, apiVars, stateVars>>

Crash ==
  /\ pc # "down"
  /\ pc' = "down"
  /\ Leave({})
  /\ UNCHANGED <<file, apiVars, stateVars>>

Start ==
  /\ pc = "down"
  /\ pc' = "asleep"
  /\ UNCHANGED <<file, apiVars, localVars, stateVars>>

-----------------------------------------------------------------------------
Init ==
  /\ file = Written /\ served = Written
  /\ row = [n \in Ids |-> "none"]
  /\ doomed = {}
  /\ pc = "down"
  /\ targets = {} /\ target = NoId /\ catalog = {} /\ tries = 0 /\ choice = NoId
  /\ replacements = [id \in Ids |-> NoId] /\ abandoned = {}

World ==
  \/ \E s \in Slots : Fails(s) \/ Promote(s)
  \/ ReloadByOthers

Watcher ==
  \/ Start \/ Poll \/ EndRun \/ NextTarget
  \/ CatalogFails \/ (\E listed \in Catalogs : Catalog(listed))
  \/ \E candidate \in Ids : Advise(candidate)
  \/ ProbeRefused \/ ProbeFree \/ Reload \/ Record \/ HttpFails

Next == World \/ Watcher \/ Crash

Spec == Init /\ [][Next]_vars

\* The watcher's requests have timeouts, and pm2 starts it again.
FairSpec == Spec /\ WF_vars(Watcher)
==============================================================================
