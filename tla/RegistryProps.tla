---------------------------- MODULE RegistryProps ----------------------------
(***************************************************************************)
(* What the stores and the registry must agree on.                         *)
(***************************************************************************)
EXTENDS Registry

\* Every variable keeps its type; a process that runs could read its lists of
\* models, and one that does not serves nothing and probes nothing.
TypeOK ==
  /\ listed \subseteq YamlNames
  /\ custom \in [Names -> Entries \cup {None}]
  /\ over \in [Names -> Override]
  /\ keys \in [Providers -> KeyRows]
  /\ torn \subseteq Files
  /\ up \in BOOLEAN
  /\ registry \subseteq Served
  /\ saving \subseteq Names
  /\ edited \in BOOLEAN
  /\ requests \in 0..MaxRequests /\ crashes \in 0..MaxCrashes
  /\ asked \in [Names -> Override]
  /\ cut \subseteq Names
  /\ up => torn \subseteq {"providers"}
  /\ ~up => registry = {} /\ saving = {}

\* What is in service is what the files say, whichever handlers stored and
\* reloaded in whatever order and wherever the process died: they differ only
\* while a save waits for its probe or an edit of models.yaml for a reload.
ServedAsStored == up /\ saving = {} /\ ~edited => registry = Loaded

\* Every model in service has a key at this moment, also while saves wait, after
\* keys were cleared or the environment was switched off, and after a restart on
\* an unreadable key file; and the pages, which decide by other code, say so too.
ServedHasKey ==
  \A m \in registry : Key(m.provider, m.tier) # "none" /\ KeySource(m.provider) # "none"

\* An operator finds what the requests that were answered asked for, whatever
\* overrides and custom models of that name there were before: a plain model is
\* in service when they left it enabled and it has a key, and has the tier they
\* chose; what they never said is as in models.yaml.  Names whose last request was
\* cut by a crash are excepted.
Plain(n) == n \in Known /\ Merged(n).members = <<>>
InService(n) == \E m \in registry : m.name = n
Hidden(n) == asked[n].enabled = "no"
AskedTier(n) == IF asked[n].tier = "unset" THEN Yaml[n].tier ELSE asked[n].tier
AskedEnabled(n) ==
  IF asked[n].enabled = "unset" THEN Yaml[n].enabled ELSE asked[n].enabled = "yes"

AskedIsServed ==
  up /\ saving = {} /\ ~edited =>
    \A n \in Names \ cut :
      Plain(n) =>
        /\ InService(n) <=>
             AskedEnabled(n) /\ Key(Merged(n).provider, AskedTier(n)) # "none"
        /\ \A m \in registry : m.name = n => m.tier = AskedTier(n)

\* Once a model is hidden and out of service, no save of another model that is
\* still being probed, no reload, edit, crash or restart brings it back before
\* somebody asks for it again.
HiddenStaysOut ==
  [][\A n \in Names \ cut' :
       Hidden(n) /\ Hidden(n)' /\ ~InService(n) => ~InService(n)']_vars
==============================================================================
