--------------------------- MODULE MCVerification ---------------------------
(***************************************************************************)
(* KYCVerification for TLC: users, reviewers, forms, documents and requests *)
(* are model values.                                                       *)
(***************************************************************************)
EXTENDS KYCVerification, TLC

Symmetry == Permutations(Users) \cup Permutations(Forms) \cup Permutations(Requests)
              \cup Permutations(DocumentIds)
=============================================================================
