------------------------------- MODULE MCLimits -------------------------------
(***************************************************************************)
(* Symmetry for TLC: requests are interchangeable.                         *)
(***************************************************************************)
EXTENDS Limits, TLC

Symmetric == Permutations(Requests)
==============================================================================
