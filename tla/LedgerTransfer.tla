--------------------------- MODULE LedgerTransfer ---------------------------
(***************************************************************************)
(* ledger.Service.Transfer (internal/ledger/ledger.go): any number of calls *)
(* run concurrently, each in a SERIALIZABLE PostgreSQL transaction on the  *)
(* tables of migrations/0001_init.sql.  One action is one statement of the *)
(* transaction.  The database is external; of its rules the model keeps:   *)
(*  - the snapshot is taken by the first statement, before it waits;       *)
(*  - SELECT ... FOR UPDATE waits for the holder of the row, and fails with *)
(*    a serialization error if the row changed after the snapshot;         *)
(*  - a unique index ignores snapshots: an INSERT waits for the uncommitted *)
(*    row of another transaction with the same key, and fails if a row with *)
(*    the key is committed;                                                *)
(*  - any statement, the COMMIT included, may fail (cancelled context, lost *)
(*    connection, serialization failure), and a COMMIT may take effect      *)
(*    although its caller sees an error.                                   *)
(***************************************************************************)
EXTENDS Integers, FiniteSetsExt

CONSTANTS
  MaxId,           \* the largest value of a BIGSERIAL column
  Wallets,         \* ids of the rows of wallets
  Inputs,          \* the TransferInput values callers use, without the currency
                   \* and the reference, which Transfer only stores
  MaxBalance,      \* the largest value of the column balance (BIGINT)
  InitialBalance,  \* wallets.balance before the first transfer
  Calls,           \* the callers; each runs one Transfer at a time
  NoCall           \* the holder of a lock nobody holds

\* The zero TransferInput: the input of a caller that has not called yet.
NoInput == [from |-> 0, to |-> 0, amount |-> 0, key |-> ""]

Keys == {i.key : i \in Inputs}

ASSUME WalletsAssumption == MaxId \in Nat /\ Wallets \subseteq 1..MaxId
ASSUME InputsAssumption ==
  Inputs \subseteq [from : Int, to : Int, amount : Int, key : STRING]
\* Ids and amounts are int64, and a TEXT has a largest length.
ASSUME FiniteInputsAssumption == IsFiniteSet(Inputs)
ASSUME BalanceAssumption ==
  /\ MaxBalance \in Nat
  /\ InitialBalance \in [Wallets -> 0..MaxBalance]
ASSUME NoCallAssumption == NoCall \notin Calls

VARIABLES
  balance,       \* committed wallets.balance
  transactions,  \* committed rows of transactions, counted by what they record
  rowLock,       \* who holds the row lock of each wallet
  keyLock,       \* who has an uncommitted row with each idempotency key
  pc,            \* the statement each call is at
  input,         \* the argument of each caller's latest call
  outcome,       \* the result of each caller's latest call
  view,          \* the balances a call's transaction sees: snapshot plus its own updates
  seen,          \* the idempotency keys in a call's snapshot
  missed         \* the wallets others changed since a call's snapshot

committed == <<balance, transactions>>
locks == <<rowLock, keyLock>>
snapshot == <<view, seen, missed>>
vars == <<committed, locks, pc, input, outcome, snapshot>>

Recorded(key) == \E i \in Inputs : i.key = key /\ transactions[i] > 0

NoView == [w \in Wallets |-> 0]

Init ==
  /\ balance = InitialBalance
  /\ transactions = [i \in Inputs |-> 0]
  /\ rowLock = [w \in Wallets |-> NoCall]
  /\ keyLock = [k \in Keys |-> NoCall]
  /\ pc = [c \in Calls |-> "idle"]
  /\ input = [c \in Calls |-> NoInput]
  /\ outcome = [c \in Calls |-> "none"]
  /\ view = [c \in Calls |-> NoView]
  /\ seen = [c \in Calls |-> {}]
  /\ missed = [c \in Calls |-> {}]

-----------------------------------------------------------------------------
(* The body of Transfer.  A definition named after the one that follows it  *)
(* (LockOrderUnsorted, RecordUnchecked, ...) is a bug somebody could write; *)
(* put in the place of the other, it must make a property fail.            *)

Goto(c, label) == pc' = [pc EXCEPT ![c] = label]

ValidateAnyAmount(i) ==
  IF i.from = i.to THEN "same_wallet"
  ELSE IF i.key = "" THEN "key_required"
  ELSE "running"

\* The checks made before the transaction begins, in their order.
Validate(i) ==
  IF i.from = i.to THEN "same_wallet"
  ELSE IF i.amount <= 0 THEN "invalid_amount"
  ELSE IF i.key = "" THEN "key_required"
  ELSE "running"

Transfer(c, i) ==
  /\ pc[c] = "idle"
  /\ input' = [input EXCEPT ![c] = i]
  /\ outcome' = [outcome EXCEPT ![c] = Validate(i)]
  /\ Goto(c, IF Validate(i) = "running" THEN "begin" ELSE "idle")
  /\ UNCHANGED <<committed, locks, snapshot>>

\* The transaction of c ends: its locks are released, its snapshot dropped.
EndTx(c, result) ==
  /\ Goto(c, "idle")
  /\ outcome' = [outcome EXCEPT ![c] = result]
  /\ rowLock' = [w \in Wallets |-> IF rowLock[w] = c THEN NoCall ELSE rowLock[w]]
  /\ keyLock' = [k \in Keys |-> IF keyLock[k] = c THEN NoCall ELSE keyLock[k]]
  /\ view' = [view EXCEPT ![c] = NoView]
  /\ seen' = [seen EXCEPT ![c] = {}]
  /\ UNCHANGED input

RollbackForgotten(c, result) ==
  /\ Goto(c, "idle")
  /\ outcome' = [outcome EXCEPT ![c] = result]
  /\ UNCHANGED <<committed, locks, input, snapshot>>

\* The deferred tx.Rollback() of every return that did not commit.
Rollback(c, result) ==
  /\ EndTx(c, result)
  /\ missed' = [missed EXCEPT ![c] = {}]
  /\ UNCHANGED committed

\* BeginTx, and the first statement reaching the server.
Begin(c) ==
  /\ pc[c] = "begin"
  /\ view' = [view EXCEPT ![c] = balance]
  /\ seen' = [seen EXCEPT ![c] = {k \in Keys : Recorded(k)}]
  /\ Goto(c, "lockFirst")
  /\ UNCHANGED <<committed, locks, input, outcome, missed>>

LockOrderUnsorted(i) == <<i.from, i.to>>

\* The rows are locked in ascending order of their ids.
LockOrder(i) == IF i.to < i.from THEN <<i.to, i.from>> ELSE <<i.from, i.to>>

First(i) == LockOrder(i)[1]
Second(i) == LockOrder(i)[2]

StaleNever(c, w) == FALSE

\* The row of w changed after the snapshot of c.
Stale(c, w) == w \in missed[c]

LockWalletNotForUpdate(c, w, next) ==
  \/ /\ w \in Wallets
     /\ Goto(c, next)
     /\ UNCHANGED <<committed, locks, input, outcome, snapshot>>
  \/ /\ w \notin Wallets
     /\ Rollback(c, "error")

\* lockWallet: SELECT id FROM wallets WHERE id = w FOR UPDATE.
LockWallet(c, w, next) ==
  \/ /\ w \in Wallets
     /\ rowLock[w] = NoCall
     /\ ~Stale(c, w)
     /\ rowLock' = [rowLock EXCEPT ![w] = c]
     /\ Goto(c, next)
     /\ UNCHANGED <<committed, keyLock, input, outcome, snapshot>>
  \/ /\ w \notin Wallets \/ Stale(c, w)
     /\ Rollback(c, "error")

LockFirst(c) ==
  /\ pc[c] = "lockFirst"
  /\ LockWallet(c, First(input[c]), "lockSecond")

LockSecond(c) ==
  /\ pc[c] = "lockSecond"
  /\ LockWallet(c, Second(input[c]), "checkKey")

CheckKey(c) ==
  /\ pc[c] = "checkKey"
  /\ \/ /\ input[c].key \in seen[c]
        /\ Rollback(c, "duplicate")
     \/ /\ input[c].key \notin seen[c]
        /\ Goto(c, "checkFunds")
        /\ UNCHANGED <<committed, locks, input, outcome, snapshot>>

CheckFundsOfPayee(c) ==
  /\ pc[c] = "checkFunds"
  /\ \/ /\ view[c][input[c].to] < input[c].amount
        /\ Rollback(c, "insufficient")
     \/ /\ view[c][input[c].to] >= input[c].amount
        /\ Goto(c, "debit")
        /\ UNCHANGED <<committed, locks, input, outcome, snapshot>>

CheckFunds(c) ==
  /\ pc[c] = "checkFunds"
  /\ \/ /\ view[c][input[c].from] < input[c].amount
        /\ Rollback(c, "insufficient")
     \/ /\ view[c][input[c].from] >= input[c].amount
        /\ Goto(c, "debit")
        /\ UNCHANGED <<committed, locks, input, outcome, snapshot>>

UpdateBalanceUnbounded(c, w, delta, next) ==
  /\ view' = [view EXCEPT ![c][w] = @ + delta]
  /\ Goto(c, next)
  /\ UNCHANGED <<committed, locks, input, outcome, seen, missed>>

\* UPDATE wallets SET balance = balance + delta: refused by CHECK (balance >= 0)
\* and by the range of BIGINT.
UpdateBalance(c, w, delta, next) ==
  IF view[c][w] + delta \in 0..MaxBalance
  THEN /\ view' = [view EXCEPT ![c][w] = @ + delta]
       /\ Goto(c, next)
       /\ UNCHANGED <<committed, locks, input, outcome, seen, missed>>
  ELSE Rollback(c, "error")

Debit(c) ==
  /\ pc[c] = "debit"
  /\ UpdateBalance(c, input[c].from, -input[c].amount, "credit")

Credit(c) ==
  /\ pc[c] = "credit"
  /\ UpdateBalance(c, input[c].to, input[c].amount, "record")

RecordUnchecked(c) ==
  /\ pc[c] = "record"
  /\ keyLock' = [keyLock EXCEPT ![input[c].key] = c]
  /\ Goto(c, "commit")
  /\ UNCHANGED <<committed, rowLock, input, outcome, snapshot>>

\* INSERT INTO transactions under CONSTRAINT uq_tx_idem UNIQUE (idempotency_key).
Record(c) ==
  LET key == input[c].key IN
  /\ pc[c] = "record"
  /\ keyLock[key] = NoCall
  /\ \/ /\ Recorded(key)
        /\ Rollback(c, "error")
     \/ /\ ~Recorded(key)
        /\ keyLock' = [keyLock EXCEPT ![key] = c]
        /\ Goto(c, "commit")
        /\ UNCHANGED <<committed, rowLock, input, outcome, snapshot>>

\* The server makes the transaction's updates visible.  Every transaction that
\* already has its snapshot has now missed a change of the two wallets.
HasSnapshot(c) == pc[c] \notin {"idle", "begin"}

Publish(c) ==
  LET i == input[c] IN
  /\ balance' = [balance EXCEPT ![i.from] = view[c][i.from], ![i.to] = view[c][i.to]]
  /\ transactions' = [transactions EXCEPT ![i] = @ + 1]
  /\ missed' = [d \in Calls |-> IF d = c THEN {}
                                ELSE IF HasSnapshot(d) THEN missed[d] \cup {i.from, i.to}
                                ELSE missed[d]]

CommitErrorIgnored(c) ==
  /\ pc[c] = "commit"
  /\ \/ Publish(c) /\ EndTx(c, "ok")
     \/ Rollback(c, "ok")

Commit(c) ==
  /\ pc[c] = "commit"
  /\ Publish(c)
  /\ EndTx(c, "ok")

\* The server committed but tx.Commit() returns an error; the deferred Rollback
\* then finds the transaction done.
CommitUnacknowledged(c) ==
  /\ pc[c] = "commit"
  /\ Publish(c)
  /\ EndTx(c, "error")

\* Any statement fails: the transaction is rolled back.
Fail(c) ==
  /\ pc[c] # "idle"
  /\ Rollback(c, "error")

\* The statements of a call that is neither cancelled nor disconnected.
Step(c) ==
  \/ Begin(c)
  \/ LockFirst(c)
  \/ LockSecond(c)
  \/ CheckKey(c)
  \/ CheckFunds(c)
  \/ Debit(c)
  \/ Credit(c)
  \/ Record(c)
  \/ Commit(c)

Next ==
  \E c \in Calls :
    \/ \E i \in Inputs : Transfer(c, i)
    \/ Step(c)
    \/ CommitUnacknowledged(c)
    \/ Fail(c)

Spec == Init /\ [][Next]_vars

\* PostgreSQL queues the transactions that wait for a row, so a wait whose
\* holder keeps finishing ends; nothing obliges a caller to call, or a
\* statement to fail.
FairSpec == Spec /\ \A c \in Calls : SF_vars(Step(c))

-----------------------------------------------------------------------------
(* Properties.                                                             *)

Labels == {"idle", "begin", "lockFirst", "lockSecond", "checkKey", "checkFunds",
           "debit", "credit", "record", "commit"}
Outcomes == {"none", "running", "same_wallet", "invalid_amount", "key_required",
             "duplicate", "insufficient", "error", "ok"}

\* Every balance, committed or seen by a transaction, fits its column and its
\* CHECK (balance >= 0); locks are held by calls.
TypeOK ==
  /\ balance \in [Wallets -> 0..MaxBalance]
  /\ transactions \in [Inputs -> Nat]
  /\ rowLock \in [Wallets -> Calls \cup {NoCall}]
  /\ keyLock \in [Keys -> Calls \cup {NoCall}]
  /\ pc \in [Calls -> Labels]
  /\ input \in [Calls -> Inputs \cup {NoInput}]
  /\ outcome \in [Calls -> Outcomes]
  /\ view \in [Calls -> [Wallets -> 0..MaxBalance]]
  /\ seen \in [Calls -> SUBSET Keys]
  /\ missed \in [Calls -> SUBSET Wallets]

\* No interleaving of transfers loses or doubles an update: every balance is the
\* initial one plus what the committed rows of transactions credited to the
\* wallet, less what they debited from it.
BalancesMatchLog ==
  LET Credited(w) == MapThenSumSet(LAMBDA i : transactions[i] * i.amount, {i \in Inputs : i.to = w})
      Debited(w) == MapThenSumSet(LAMBDA i : transactions[i] * i.amount, {i \in Inputs : i.from = w})
  IN \A w \in Wallets : balance[w] = InitialBalance[w] + Credited(w) - Debited(w)

\* An idempotency key moves money at most once, however many calls use it at
\* the same time, on the same or on different wallets (uq_tx_idem).
AtMostOncePerKey ==
  \A i, j \in Inputs :
    i.key = j.key /\ transactions[i] > 0 /\ transactions[j] > 0
      => i = j /\ transactions[i] = 1

\* What Transfer answers is true of the log: nil means that this very transfer
\* is recorded, ErrDuplicate that a transfer with its key is.
AnswersMatchLog ==
  \A c \in Calls :
    /\ outcome[c] = "ok" => input[c] \in Inputs /\ transactions[input[c]] > 0
    /\ outcome[c] = "duplicate" => Recorded(input[c].key)

\* ErrInsufficientFunds is never answered from an outdated balance: when a call
\* gives up, the committed balance of the paying wallet is too small.
InsufficientIsCurrent ==
  [][\A c \in Calls :
       pc[c] # "idle" /\ outcome'[c] = "insufficient"
         => balance[input[c].from] < input[c].amount]_vars

\* The wallet whose row lock a call is asking for.
Wanted(c) ==
  IF pc[c] = "lockFirst" THEN First(input[c]) ELSE Second(input[c])

WaitsFor(c, d) ==
  \/ /\ pc[c] \in {"lockFirst", "lockSecond"}
     /\ Wanted(c) \in Wallets
     /\ ~Stale(c, Wanted(c))
     /\ rowLock[Wanted(c)] = d
  \/ /\ pc[c] = "record"
     /\ keyLock[input[c].key] = d

\* The comment of Transfer, "lock the rows in ascending order to prevent a
\* deadlock": among any calls, some call waits for none of them.
NoDeadlock ==
  \A S \in SUBSET Calls :
    S # {} => \E c \in S : \A d \in S : ~WaitsFor(c, d)

\* The parts of the inductive invariant.

LockedBoth == {"checkKey", "checkFunds", "debit", "credit", "record", "commit"}

\* The rows a call has locked, as its place in the code says.
Holds(c, w) ==
  \/ pc[c] = "lockSecond" /\ w = First(input[c])
  \/ pc[c] \in LockedBoth /\ w \in {input[c].from, input[c].to}

\* How far a call's own updates have moved its view of a wallet.
OwnDelta(c, w) ==
  IF pc[c] \in {"credit", "record", "commit"} /\ w = input[c].from THEN -input[c].amount
  ELSE IF pc[c] \in {"record", "commit"} /\ w = input[c].to THEN input[c].amount
  ELSE 0

\* A call that runs has an argument that passed the checks, and a call that
\* answered was given one.
RunningIsValid ==
  \A c \in Calls :
    /\ (pc[c] # "idle") <=> (outcome[c] = "running")
    /\ outcome[c] # "none" => input[c] \in Inputs
    /\ pc[c] # "idle" => Validate(input[c]) = "running"

\* A call owns exactly the locks its place in the code says.
LocksFollowCode ==
  \A c \in Calls :
    /\ \A w \in Wallets : (rowLock[w] = c) <=> Holds(c, w)
    /\ \A k \in Keys : (keyLock[k] = c) <=> (pc[c] = "commit" /\ input[c].key = k)
    /\ pc[c] = "lockSecond" => First(input[c]) \in Wallets
    /\ pc[c] \in LockedBoth => {input[c].from, input[c].to} \subseteq Wallets

\* What a call sees of a wallet it has not missed a change of is the committed
\* balance and its own updates; of the rows it locked it misses nothing.
ViewsAreFresh ==
  \A c \in Calls :
    /\ seen[c] \subseteq {k \in Keys : Recorded(k)}
    /\ \A w \in Wallets :
         /\ Holds(c, w) => w \notin missed[c]
         /\ HasSnapshot(c) /\ w \notin missed[c] => view[c][w] = balance[w] + OwnDelta(c, w)

\* A call past the check of the funds can pay, and one about to commit is the
\* only one to use its key.
ReadyToCommit ==
  \A c \in Calls :
    /\ pc[c] \in {"debit", "credit", "record", "commit"}
         => balance[input[c].from] >= input[c].amount
    /\ pc[c] = "commit" => ~Recorded(input[c].key)

\* The inductive invariant behind the theorems: the typing, the mutual exclusion
\* of the locks, the freshness of what is read under them, and its consequences.
IInv ==
  /\ TypeOK
  /\ RunningIsValid
  /\ LocksFollowCode
  /\ ViewsAreFresh
  /\ ReadyToCommit
  /\ AtMostOncePerKey
  /\ AnswersMatchLog

\* Concurrent transfers look as if each happened in one indivisible step.
Atomic == INSTANCE AtomicLedger
ImplementsAtomicLedger == Atomic!Spec

\* Every call returns: no wait for a row or for a key lasts forever.
EveryCallReturns == \A c \in Calls : pc[c] # "idle" ~> pc[c] = "idle"

\* The comment of Transfer on its duplicate check, "if this same key was already
\* recorded, return that same result": a transfer that is recorded was answered
\* nil, so its retry is too.
RetryReturnsSameResult ==
  \A c \in Calls :
    pc[c] = "idle" /\ outcome[c] = "duplicate" => transactions[input[c]] = 0
=============================================================================
