----------------------------- MODULE MCPassword -----------------------------
(***************************************************************************)
(* PasswordAuth for TLC: requests, addresses, passwords and ids are model   *)
(* values.                                                                 *)
(***************************************************************************)
EXTENDS PasswordAuth, TLC

Symmetry == Permutations(Requests) \cup Permutations(UUIDs)
=============================================================================
