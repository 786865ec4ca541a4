----------------------------- MODULE MCAccounts -----------------------------
(***************************************************************************)
(* Symmetry for TLC: requests and emails are interchangeable.              *)
(***************************************************************************)
EXTENDS Accounts, TLC

Symmetric == Permutations(Requests) \cup Permutations(Emails)
==============================================================================
