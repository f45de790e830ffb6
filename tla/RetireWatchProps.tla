--------------------------- MODULE RetireWatchProps ---------------------------
(***************************************************************************)
(* What the watcher may do to models.yaml, and what its records are worth.    *)
(***************************************************************************)
EXTENDS RetireWatch

\* Every variable keeps its type; no more candidates are tried than replace_one
\* allows itself.
TypeOK ==
  /\ file \in [Slots -> Entries] /\ served \in [Slots -> Entries]
  /\ row \in [Ids -> {"none", "cooling", "permanent"}]
  /\ doomed \subseteq Ids
  /\ pc \in Steps
  /\ targets \subseteq Ids /\ target \in Ids \cup {NoId}
  /\ catalog \subseteq Ids /\ tries \in 0..MaxTries /\ choice \in Ids \cup {NoId}
  /\ replacements \in [Ids -> Ids \cup {NoId}] /\ abandoned \subseteq Ids

Distinct(entries) == \A s, t \in Slots : entries[s].name = entries[t].name => s = t

\* No model is listed twice, though two targets of one run choose from the same
\* catalog (retire_watch.py:526-530); two entries of one name would be one model to
\* the limiter, the pool and the selector.
NoTwice == Distinct(file) /\ Distinct(served)

\* The ids an entry mentions as its name or its api_model.
Mentioned(entries) == Names(entries) \cup {entries[s].api : s \in Slots}

\* When the state file and the administrator's mail call an id replaced, models.yaml and
\* the API's registry mention it no more and hold its successor, whatever requests
\* failed, whoever reloaded the registry and wherever the watcher died before
\* (retire_watch.py:549-551, 621-640).  It may come back as the successor of another.
RecordedWhenReplaced ==
  [][\A id \in Ids : replacements'[id] # replacements[id] =>
       /\ id \notin Mentioned(file) \cup Mentioned(served)
       /\ replacements'[id] \in Names(file) \cap Names(served)]_vars

\* The watcher rewrites only what has been out for good: the name of a chat entry, not of
\* one that is cooling, nor of one that was listed meanwhile, nor of an embedding; and an
\* api_model that equals such a name, in whichever entry it stands (yaml_edit.py:18).
OnlyCondemnedReplaced ==
  [][\A s \in Slots :
       /\ file'[s].name # file[s].name => s \in Chats /\ file[s].name \in doomed
       /\ file'[s].api # file[s].api => file[s].api \in doomed]_vars

\* Once requests stop failing and the watcher stops dying, no chat entry stays out for
\* good: it is replaced, promoted or given up, though the pool, the catalogs and the
\* registry change while the run works off its list (retire_watch.py:586).  An id that is
\* in the state file already is left alone, also where it has come back.
CondemnedAreHandled ==
  <>[][~HttpFails /\ ~Crash]_vars =>
    \A id \in Ids : []<>~(id \in Retired /\ replacements[id] = NoId /\ id \notin abandoned)

\* Every run ends, also when requests keep failing: the next poll is never far.
RunsEnd == []<>(pc = "asleep")
==============================================================================
