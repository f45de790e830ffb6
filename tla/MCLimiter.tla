------------------------------ MODULE MCLimiter ------------------------------
(***************************************************************************)
(* Properties of Limiter and the symmetry of its requests.                   *)
(***************************************************************************)
EXTENDS LimiterProps, TLC

Symmetry == Permutations(Requests)
==============================================================================
