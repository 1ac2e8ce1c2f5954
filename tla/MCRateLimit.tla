---------------------------- MODULE MCRateLimit ----------------------------
(***************************************************************************)
(* RateLimit for TLC: requests and clients are model values.               *)
(***************************************************************************)
EXTENDS RateLimit, TLC

Symmetry == Permutations(Requests) \cup Permutations(Clients)
=============================================================================
