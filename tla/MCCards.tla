------------------------------ MODULE MCCards ------------------------------
(***************************************************************************)
(* BankCards for TLC: the users and requests are model values.             *)
(***************************************************************************)
EXTENDS BankCards, TLC

Symmetry == Permutations(Requests)
=============================================================================
