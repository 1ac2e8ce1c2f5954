---------------------------- MODULE AtomicLedger ----------------------------
(***************************************************************************)
(* What ledger.Service promises its callers, without transactions, locks   *)
(* or snapshots: a transfer moves an amount between two wallets and records *)
(* its idempotency key in one indivisible step, at most once per key, and  *)
(* never beyond what the paying wallet holds.                              *)
(***************************************************************************)
EXTENDS Integers

CONSTANTS
  Wallets,        \* the ids of the rows of the table wallets
  Inputs,         \* the TransferInput values callers use
  MaxBalance,     \* the largest balance the column can hold
  InitialBalance  \* the balance of each wallet before the first transfer

VARIABLES
  balance,        \* wallets.balance, by wallet id
  transactions    \* how many rows of transactions record each input

Recorded(key) == \E i \in Inputs : i.key = key /\ transactions[i] > 0

Init ==
  /\ balance = InitialBalance
  /\ transactions = [i \in Inputs |-> 0]

Apply(i) ==
  /\ i.from \in Wallets
  /\ i.to \in Wallets \ {i.from}
  /\ i.amount > 0
  /\ i.key # ""
  /\ ~Recorded(i.key)
  /\ i.amount <= balance[i.from]
  /\ balance[i.to] + i.amount <= MaxBalance
  /\ balance' = [balance EXCEPT ![i.from] = @ - i.amount,
                                ![i.to] = @ + i.amount]
  /\ transactions' = [transactions EXCEPT ![i] = @ + 1]

Next == \E i \in Inputs : Apply(i)

Spec == Init /\ [][Next]_<<balance, transactions>>
=============================================================================
