----------------------------- MODULE MCRegistry -----------------------------
(***************************************************************************)
(* Two entries of models.yaml, one of them a family of two members, and a  *)
(* custom model that may take any of their names, over two providers of    *)
(* which one has a key in the environment.                                 *)
(***************************************************************************)
EXTENDS RegistryProps, TLC

CONSTANTS a, g, x, p, q

MCNames == {a, g, x}
MCProviders == {p, q}
MCYamlNames == {a, g}
Entry(provider, enabled, tier, members) ==
  [provider |-> provider, enabled |-> enabled, tier |-> tier, members |-> members]
MCYaml ==
  (a :> Entry(p, TRUE, "free", <<>>)) @@ (g :> Entry(q, TRUE, "free", <<x>>))
MCSaveRequests == {Entry(q, TRUE, "paid", <<>>), Entry(p, FALSE, "free", <<>>)}
MCOverrideRequests ==
  {[enabled |-> "no", tier |-> "unset"], [enabled |-> "yes", tier |-> "paid"]}
KeyRequest(clear, blank, replace, add, env) ==
  [clear |-> clear, blank |-> blank, replace |-> replace, add |-> add, env |-> env]
MCKeyRequests ==
  {KeyRequest({}, {}, {}, {"free"}, "keep"), KeyRequest({"free"}, {}, {"paid"}, {}, "keep"),
   KeyRequest({}, {"paid"}, {}, {}, "keep"), KeyRequest({"free", "paid"}, {}, {}, {}, "on")}
=============================================================================
