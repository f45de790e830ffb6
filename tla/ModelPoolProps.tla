--------------------------- MODULE ModelPoolProps ---------------------------
(***************************************************************************)
(* What the pool of unavailable models must guarantee.                     *)
(***************************************************************************)
EXTENDS ModelPool

\* Every variable keeps its type.
TypeOK ==
  /\ now \in 0..MaxTime
  /\ registry \subseteq Models
  /\ unavail \in [Models -> Rows]
  /\ inflight \in [Models -> 0..MaxInflight]
  /\ loop \in [due : SUBSET Models, known : SUBSET Models, target : Models \cup {NoModel}]
  /\ test \in Models \cup {NoModel}
  /\ cache \in [Models -> [state : Verdicts, at : Nat]]
  /\ dash \in [on : BOOLEAN, polls : 0..MaxPolls, began : Nat, left : SUBSET Models,
               health : [Models -> Verdicts]]
  /\ owed \in [Models -> Nat]
  /\ forgotten \subseteq Models

\* A model is back in rotation only when every cooldown that any failure or any
\* probe ever imposed on it is over, and a row always reaches at least as far as
\* the longest of them: failures that arrive late, in any order and of any kind,
\* the health loop, tests and dashboard polls together never shorten one.  The
\* only models excepted are those whose row a reload has dropped.
CooldownHonoured ==
  \A m \in Models \ forgotten :
    IF IsUnavailable(m)
    THEN unavail[m].kind = "permanent" \/ unavail[m].until >= owed[m]
    ELSE owed[m] <= now

\* The pool's row read as a state of PoolPromise.
Status(m) ==
  CASE unavail[m].kind = "none"      -> "available"
    [] unavail[m].kind = "permanent" -> "gone"
    [] OTHER -> IF unavail[m].until > now THEN "cooling" ELSE "due"

Promise == INSTANCE PoolPromise WITH status <- [m \in Models |-> Status(m)]

\* The pool implements the promise: no interleaving of late failures, probes
\* that were in flight when a cooldown was imposed, tests and dashboard polls
\* takes a loaded model from a running cooldown, or from retirement, straight back
\* into rotation, and no probe touches a cooldown that is still running.
ImplementsPromise == Promise!Spec

\* The health loop gets round to every model whose cooldown is over, whatever
\* other models are due and however often their probes fail: no row stays due.
Overdue(m) ==
  m \in registry /\ unavail[m].kind \notin {"none", "permanent"} /\ unavail[m].until <= now

DueIsServed == \A m \in Models : Overdue(m) ~> ~Overdue(m)
==============================================================================
