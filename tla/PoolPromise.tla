----------------------------- MODULE PoolPromise -----------------------------
(***************************************************************************)
(* What llmcascade/model_pool.py promises of every model, whatever the       *)
(* instants, kinds and probes are: a model leaves rotation at any failure,   *)
(* its cooldown ends with time alone, and only a probe made after that end   *)
(* brings it back or retires it.  A reload that drops a model forgets what   *)
(* the pool held against it.                                                *)
(***************************************************************************)
CONSTANT Models

VARIABLES
  status,   \* the state of each model
  registry  \* the models loaded

vars == <<status, registry>>

\* "available": in rotation.  "cooling": out, cooldown running.  "due": out,
\* cooldown over, waiting for a probe.  "gone": retired by its provider.
Statuses == {"available", "cooling", "due", "gone"}

Init ==
  /\ status = [m \in Models |-> "available"]
  /\ registry = Models

\* A failure takes a model out or retires it; it revives nothing.
Impose(m) ==
  /\ status[m] # "gone"
  /\ \E s \in {"cooling", "gone"} : status' = [status EXCEPT ![m] = s]
  /\ UNCHANGED registry

\* Cooldowns end with time.
Elapse ==
  /\ status' \in [Models -> Statuses]
  /\ \A m \in Models : status'[m] # status[m] => status[m] = "cooling" /\ status'[m] = "due"
  /\ UNCHANGED registry

\* Probes decide about models whose cooldown is over, and about no others.
Probe ==
  /\ status' \in [Models -> Statuses]
  /\ \A m \in Models : status'[m] # status[m] => status[m] = "due"
  /\ UNCHANGED registry

\* A reload forgets exactly the models it drops.
Reload ==
  /\ registry' \subseteq Models
  /\ status' = [m \in Models |-> IF m \in registry' THEN status[m] ELSE "available"]

Next == (\E m \in Models : Impose(m)) \/ Elapse \/ Probe \/ Reload

Spec == Init /\ [][Next]_vars
==============================================================================
