---------------------------- MODULE MCStatsStore ----------------------------
(***************************************************************************)
(* Calls for the run of StatsStore: two calls of one service to two models   *)
(* of one provider and one capability, so that they meet in every document   *)
(* but those of the models.                                                  *)
(***************************************************************************)
EXTENDS StatsStoreProps

CONSTANTS c1, c2, m1, m2, vendor, app, watch

MCProviderOf == [m \in Models |-> vendor]
MCCapabilityOf == [m \in Models |-> "chat"]
MCCall == [c \in Calls |-> [model |-> IF c = c1 THEN m1 ELSE m2, note |-> app]]
MCOutcomes == [c \in Calls |-> IF c = c1 THEN {"success"} ELSE {"success", "terminal"}]
MCFollowed == {<<"provider", vendor>>}
=============================================================================
