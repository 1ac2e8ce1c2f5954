------------------------------- MODULE MCBoot -------------------------------
(***************************************************************************)
(* Boot for TLC: the processes are model values.                           *)
(***************************************************************************)
EXTENDS Boot, TLC

Symmetry == Permutations(Processes)
=============================================================================
