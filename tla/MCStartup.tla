------------------------------ MODULE MCStartup ------------------------------
(***************************************************************************)
(* Values of Startup's constants for TLC: two containers of two processes, *)
(* which are interchangeable.                                              *)
(***************************************************************************)
EXTENDS Startup, TLC

Symmetric == Permutations(Containers) \cup Permutations(Slots)
==============================================================================
