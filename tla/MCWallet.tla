------------------------------ MODULE MCWallet ------------------------------
(***************************************************************************)
(* WalletAuth for TLC: the requests, wallets, nonces and hosts are model   *)
(* values; TLC takes users' ids from a bounded range.                      *)
(***************************************************************************)
EXTENDS WalletAuth, TLC

Symmetry == Permutations(Requests) \cup Permutations(Addresses) \cup Permutations(Nonces)
              \cup Permutations(Hosts)
=============================================================================
