---------------------------- MODULE MCQuotaStore ----------------------------
(***************************************************************************)
(* One model, whose row passes through both stores.                          *)
(***************************************************************************)
EXTENDS QuotaStoreProps

CONSTANTS m1
=============================================================================
