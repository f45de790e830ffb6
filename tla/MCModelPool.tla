----------------------------- MODULE MCModelPool -----------------------------
(***************************************************************************)
(* Properties of ModelPool and the operators the runs need.                *)
(***************************************************************************)
EXTENDS ModelPoolProps, TLC

\* The models are interchangeable.
Symmetry == Permutations(Models)
==============================================================================
