------------------------------ MODULE MCLedger ------------------------------
(***************************************************************************)
(* LedgerTransfer for TLC: four wallets that can hold at most 3, and        *)
(* transfers that cross (1 to 2, 2 to 1), reuse a key (with the same or     *)
(* other arguments, on the same or other wallets), overdraw, overflow, name *)
(* a wallet that does not exist, or fail a check before the transaction.    *)
(***************************************************************************)
EXTENDS LedgerTransfer, TLC

CONSTANTS c1, c2, c3

MCInitialBalance == 1 :> 2 @@ 2 :> 1 @@ 3 :> 2 @@ 4 :> 3

T(f, t, a, k) == [from |-> f, to |-> t, amount |-> a, key |-> k]

\* Calls meeting on wallets 1 and 2.
Crossing == {T(1, 2, 2, "k1"), T(2, 1, 1, "k2"), T(1, 2, 1, "k2")}
\* Calls that share nothing with those but the key.
Elsewhere == {T(3, 4, 1, "k1"), T(4, 3, 1, "k2")}
Refused == {T(1, 1, 1, "k1"), T(1, 2, 0, "k1"), T(1, 2, 1, ""), T(1, 9, 1, "k3")}

SomeInputs == Crossing \cup Elsewhere
AllInputs == SomeInputs \cup Refused
\* Calls that pay around the cycle 1, 2, 3.
Cycle == {T(1, 2, 2, "k1"), T(2, 3, 1, "k2"), T(3, 1, 1, "k3")}
CycleInputs == Cycle \cup {T(2, 1, 1, "k3"), T(4, 3, 1, "k1"), T(1, 9, 1, "k3")}

Symmetry == Permutations(Calls)
=============================================================================
