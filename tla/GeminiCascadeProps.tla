-------------------------- MODULE GeminiCascadeProps --------------------------
(***************************************************************************)
(* What the Gemini cascade promises to Google and to the requests.           *)
(***************************************************************************)
EXTENDS GeminiCascade

\* Every variable keeps its type, and a manager holds no cooldown of a member it
\* does not list: status() and the file would show it for ever
\* (cascade.py:310-313).
TypeOK ==
  /\ now \in Nat
  /\ manager \in Managers
  /\ models \in [Managers -> Rosters]
  /\ cooldown \in [Managers -> [Members -> Nat]]
  /\ walk \in [Walks -> [pc : {"idle", "calling"}, by : Nat, at : Nat]]
  /\ \A w \in Walks : walk[w].pc = "calling" =>
       walk[w].by \in 1..manager /\ walk[w].at \in 1..Len(models[walk[w].by])
  /\ \A g \in Managers : \A m \in Members : cooldown[g][m] > 0 => Lists(models[g], m)
  /\ owed \in [Members -> Nat]
  /\ missed \subseteq Members

\* A member is called by the manager in service only when the longest rest that
\* any of its failures called for is over: neither a shorter cooldown filed later
\* by another walk, nor a reload, nor going on to the next member after a failure
\* cuts a rest short.  Excepted are members with a failure that never reached
\* this manager.
RestsInService ==
  [][\A w \in Walks :
       walk'[w].pc = "calling" /\ walk'[w] # walk[w] /\ walk'[w].by = manager' =>
         Member(w)' \in missed' \/ owed'[Member(w)'] <= now]_vars

\* A walk ends, also when every failure is transient, cooldowns end while it goes
\* on and reloads change the roster (cascade.py:458-497).
WalksEnd == \A w \in Walks : walk[w].pc = "calling" ~> walk[w].pc = "idle"
==============================================================================
