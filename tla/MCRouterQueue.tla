----------------------------- MODULE MCRouterQueue ----------------------------
(***************************************************************************)
(* Names for the jobs and workers of the run.  No symmetry: the run checks   *)
(* liveness.                                                                *)
(***************************************************************************)
EXTENDS RouterQueueProps

CONSTANTS j1, j2, j3, w1, w2
==============================================================================
