------------------------ MODULE LedgerTransferProofs ------------------------
(***************************************************************************)
(* Theorems about LedgerTransfer for every set of wallets, inputs and calls *)
(* and every initial balance: the inductive invariant IInv, the safety     *)
(* properties that follow from it, and the refinement of AtomicLedger.     *)
(***************************************************************************)
EXTENDS LedgerTransfer, FiniteSetTheorems, WellFoundedInduction, TLAPS

\* LockOrder sorts: the two wallets, the smaller first.
LEMMA LockOrderSorts ==
  ASSUME NEW i \in Inputs
  PROVE  /\ First(i) \in {i.from, i.to}
         /\ {First(i), Second(i)} = {i.from, i.to}
         /\ First(i) \in Int /\ Second(i) \in Int
         /\ i.from # i.to => First(i) < Second(i)
  <1>1. i.from \in Int /\ i.to \in Int
    BY InputsAssumption
  <1>2. CASE i.to < i.from
    BY <1>1, <1>2 DEF First, Second, LockOrder
  <1>3. CASE ~(i.to < i.from)
    BY <1>1, <1>3 DEF First, Second, LockOrder
  <1> QED
    BY <1>2, <1>3

\* What IInv says of the argument of a call that runs.
LEMMA RunningInput ==
  ASSUME IInv, NEW c \in Calls, pc[c] # "idle"
  PROVE  /\ input[c] \in Inputs
         /\ input[c].from \in Int /\ input[c].to \in Int /\ input[c].amount \in Int
         /\ input[c].from # input[c].to
         /\ input[c].amount > 0
         /\ input[c].key # ""
         /\ input[c].key \in Keys
  <1>1. input[c] \in Inputs /\ Validate(input[c]) = "running"
    BY DEF IInv, RunningIsValid
  <1>2. input[c].from \in Int /\ input[c].to \in Int /\ input[c].amount \in Int
    BY <1>1, InputsAssumption
  <1>3. input[c].from # input[c].to /\ input[c].amount > 0 /\ input[c].key # ""
    <2>1. input[c].from # input[c].to
      BY <1>1 DEF Validate
    <2>2. ~(input[c].amount <= 0)
      BY <1>1, <2>1 DEF Validate
    <2>3. input[c].key # ""
      BY <1>1, <2>1, <2>2 DEF Validate
    <2>4. input[c].amount > 0
      BY <1>2, <2>2
    <2> QED
      BY <2>1, <2>3, <2>4
  <1>4. input[c].key \in Keys
    BY <1>1 DEF Keys
  <1> QED
    BY <1>1, <1>2, <1>3, <1>4

LEMMA InitIInv == Init => IInv
  <1> SUFFICES ASSUME Init PROVE IInv
    OBVIOUS
  <1>1. TypeOK
    BY BalanceAssumption DEF Init, TypeOK, NoView, Labels, Outcomes
  <1>2. RunningIsValid /\ LocksFollowCode /\ ReadyToCommit /\ AnswersMatchLog
    BY NoCallAssumption DEF Init, RunningIsValid, LocksFollowCode, ReadyToCommit, AnswersMatchLog, Holds, LockedBoth
  <1>3. ViewsAreFresh
    BY DEF Init, ViewsAreFresh, Holds, LockedBoth, HasSnapshot
  <1>4. AtMostOncePerKey
    BY DEF Init, AtMostOncePerKey
  <1> QED
    BY <1>1, <1>2, <1>3, <1>4 DEF IInv

\* What IInv says of the two wallets of a call that has locked both.
LEMMA LockedWallets ==
  ASSUME IInv, NEW c \in Calls, pc[c] \in LockedBoth
  PROVE  LET from == input[c].from
             to == input[c].to
         IN /\ from \in Wallets /\ to \in Wallets
            /\ rowLock[from] = c /\ rowLock[to] = c
            /\ from \notin missed[c] /\ to \notin missed[c]
            /\ view[c][from] = balance[from] + OwnDelta(c, from)
            /\ view[c][to] = balance[to] + OwnDelta(c, to)
            /\ \A d \in Calls \ {c} : ~Holds(d, from) /\ ~Holds(d, to)
  <1> DEFINE from == input[c].from
             to == input[c].to
  <1>1. from \in Wallets /\ to \in Wallets
    BY DEF IInv, LocksFollowCode
  <1>2. Holds(c, from) /\ Holds(c, to) /\ HasSnapshot(c)
    BY DEF Holds, HasSnapshot, LockedBoth
  <1>3. rowLock[from] = c /\ rowLock[to] = c
    BY <1>1, <1>2 DEF IInv, LocksFollowCode
  <1>4. from \notin missed[c] /\ to \notin missed[c]
    BY <1>1, <1>2 DEF IInv, ViewsAreFresh
  <1>5. view[c][from] = balance[from] + OwnDelta(c, from) /\ view[c][to] = balance[to] + OwnDelta(c, to)
    BY <1>1, <1>2, <1>4 DEF IInv, ViewsAreFresh
  <1>6. ASSUME NEW d \in Calls \ {c} PROVE ~Holds(d, from) /\ ~Holds(d, to)
    BY <1>1, <1>3 DEF IInv, LocksFollowCode, Holds
  <1> QED
    BY <1>1, <1>3, <1>4, <1>5, <1>6

\* What a call about to commit sees of its two wallets.
LEMMA CommittingView ==
  ASSUME IInv, NEW c \in Calls, pc[c] = "commit"
  PROVE  LET i == input[c]
         IN /\ balance[i.from] \in 0..MaxBalance /\ balance[i.to] \in 0..MaxBalance
            /\ view[c][i.from] \in 0..MaxBalance /\ view[c][i.to] \in 0..MaxBalance
            /\ view[c][i.from] = balance[i.from] - i.amount
            /\ view[c][i.to] = balance[i.to] + i.amount
  <1> DEFINE i == input[c]
  <1>1. i.from \in Wallets /\ i.to \in Wallets
    BY LockedWallets DEF LockedBoth
  <1>2. /\ balance[i.from] \in 0..MaxBalance /\ balance[i.to] \in 0..MaxBalance
        /\ view[c][i.from] \in 0..MaxBalance /\ view[c][i.to] \in 0..MaxBalance
    BY <1>1 DEF IInv, TypeOK
  <1>3. /\ view[c][i.from] = balance[i.from] + OwnDelta(c, i.from)
        /\ view[c][i.to] = balance[i.to] + OwnDelta(c, i.to)
    BY LockedWallets DEF LockedBoth
  <1>4. i.from # i.to /\ i.amount \in Int
    BY RunningInput
  <1>5. OwnDelta(c, i.from) = -i.amount /\ OwnDelta(c, i.to) = i.amount
    BY <1>4 DEF OwnDelta
  <1>6. \A b, a \in Int : b + (-a) = b - a
    OBVIOUS
  <1> QED
    BY <1>2, <1>3, <1>4, <1>5, <1>6

-----------------------------------------------------------------------------
(* One lemma per way a step can change the state.                          *)

LEMMA TransferIInv ==
  ASSUME IInv, NEW c \in Calls, NEW i \in Inputs, Transfer(c, i)
  PROVE  IInv'
  <1> USE DEF Transfer, Goto, committed, locks, snapshot
  <1>1. TypeOK'
    BY DEF IInv, TypeOK, Labels, Outcomes, Validate
  <1>2. RunningIsValid'
    BY DEF IInv, TypeOK, RunningIsValid, Validate
  <1>3. LocksFollowCode'
    BY DEF IInv, TypeOK, LocksFollowCode, Holds, LockedBoth
  <1>4. ViewsAreFresh'
    BY DEF IInv, TypeOK, ViewsAreFresh, Holds, LockedBoth, HasSnapshot, OwnDelta, Recorded
  <1>5. ReadyToCommit'
    BY DEF IInv, TypeOK, ReadyToCommit, Recorded
  <1>6. AtMostOncePerKey' /\ AnswersMatchLog'
    BY DEF IInv, TypeOK, AtMostOncePerKey, AnswersMatchLog, Recorded, Validate
  <1> QED
    BY <1>1, <1>2, <1>3, <1>4, <1>5, <1>6 DEF IInv

LEMMA RollbackIInv ==
  ASSUME IInv, NEW c \in Calls, pc[c] # "idle",
         NEW r \in {"error", "duplicate", "insufficient"}, Rollback(c, r),
         r = "duplicate" => Recorded(input[c].key)
  PROVE  IInv'
  <1> USE DEF Rollback, EndTx, Goto, committed
  <1>1. TypeOK'
    BY BalanceAssumption DEF IInv, TypeOK, Labels, Outcomes, NoView
  <1>2. RunningIsValid'
    BY DEF IInv, TypeOK, RunningIsValid
  <1>3. LocksFollowCode'
    BY NoCallAssumption DEF IInv, TypeOK, LocksFollowCode, Holds, LockedBoth
  <1>4. ViewsAreFresh'
    BY DEF IInv, TypeOK, ViewsAreFresh, Holds, LockedBoth, HasSnapshot, OwnDelta, Recorded
  <1>5. ReadyToCommit'
    BY DEF IInv, TypeOK, ReadyToCommit, Recorded
  <1>6. AtMostOncePerKey' /\ AnswersMatchLog'
    BY DEF IInv, TypeOK, AtMostOncePerKey, AnswersMatchLog, Recorded
  <1> QED
    BY <1>1, <1>2, <1>3, <1>4, <1>5, <1>6 DEF IInv

LEMMA BeginIInv ==
  ASSUME IInv, NEW c \in Calls, Begin(c)
  PROVE  IInv'
  <1> USE DEF Begin, Goto, committed, locks
  <1>1. TypeOK'
    BY DEF IInv, TypeOK, Labels
  <1>2. RunningIsValid'
    BY DEF IInv, TypeOK, RunningIsValid
  <1>3. LocksFollowCode'
    BY DEF IInv, TypeOK, LocksFollowCode, Holds, LockedBoth
  <1>4. ViewsAreFresh'
    BY DEF IInv, TypeOK, ViewsAreFresh, Holds, LockedBoth, HasSnapshot, OwnDelta, Recorded
  <1>5. ReadyToCommit'
    BY DEF IInv, TypeOK, ReadyToCommit, Recorded
  <1>6. AtMostOncePerKey' /\ AnswersMatchLog'
    BY DEF IInv, TypeOK, AtMostOncePerKey, AnswersMatchLog, Recorded
  <1> QED
    BY <1>1, <1>2, <1>3, <1>4, <1>5, <1>6 DEF IInv

\* A check that lets the call go on.
LEMMA AdvanceIInv ==
  ASSUME IInv, NEW c \in Calls, 
         \/ pc[c] = "checkKey" /\ pc' = [pc EXCEPT ![c] = "checkFunds"]
         \/ /\ pc[c] = "checkFunds" /\ pc' = [pc EXCEPT ![c] = "debit"]
            /\ view[c][input[c].from] >= input[c].amount,
         UNCHANGED <<committed, locks, input, outcome, snapshot>>
  PROVE  IInv'
  <1> USE DEF committed, locks, snapshot
  <1>0. pc[c] = "checkFunds" => balance[input[c].from] >= input[c].amount
    <2> SUFFICES ASSUME pc[c] = "checkFunds"
                 PROVE  balance[input[c].from] >= input[c].amount
      OBVIOUS
    <2>1. input[c].from \in Wallets /\ view[c][input[c].from] = balance[input[c].from] + 0
      BY LockedWallets DEF LockedBoth, OwnDelta
    <2> QED
      BY <2>1 DEF IInv, TypeOK
  <1>1. TypeOK'
    BY <1>0 DEF IInv, TypeOK, Labels, Outcomes
  <1>2. RunningIsValid'
    BY <1>0 DEF IInv, TypeOK, RunningIsValid
  <1>3. LocksFollowCode'
    BY <1>0 DEF IInv, TypeOK, LocksFollowCode, Holds, LockedBoth
  <1>4. ViewsAreFresh'
    BY <1>0 DEF IInv, TypeOK, LocksFollowCode, ViewsAreFresh, Holds, LockedBoth, HasSnapshot, OwnDelta, Recorded
  <1>5. ReadyToCommit'
    BY <1>0 DEF IInv, TypeOK, ReadyToCommit, Recorded
  <1>6. AtMostOncePerKey' /\ AnswersMatchLog'
    BY <1>0 DEF IInv, TypeOK, AtMostOncePerKey, AnswersMatchLog, Recorded
  <1> QED
    BY <1>1, <1>2, <1>3, <1>4, <1>5, <1>6 DEF IInv

\* The lock of a row is granted: of the first wallet, then of the second.
LEMMA LockIInv ==
  ASSUME IInv, NEW c \in Calls, NEW w \in Wallets,
         \/ /\ pc[c] = "lockFirst" /\ w = First(input[c])
            /\ pc' = [pc EXCEPT ![c] = "lockSecond"]
         \/ /\ pc[c] = "lockSecond" /\ w = Second(input[c])
            /\ pc' = [pc EXCEPT ![c] = "checkKey"],
         rowLock[w] = NoCall, w \notin missed[c],
         rowLock' = [rowLock EXCEPT ![w] = c],
         UNCHANGED <<committed, keyLock, input, outcome, snapshot>>
  PROVE  IInv'
  <1> USE DEF committed, snapshot
  <1>a. /\ input[c] \in Inputs
        /\ {First(input[c]), Second(input[c])} = {input[c].from, input[c].to}
        /\ First(input[c]) # Second(input[c])
    <2>1. input[c] \in Inputs /\ input[c].from # input[c].to
      BY RunningInput
    <2>2. First(input[c]) < Second(input[c]) /\ First(input[c]) \in Int /\ Second(input[c]) \in Int
      BY <2>1, LockOrderSorts
    <2>3. First(input[c]) # Second(input[c])
      BY <2>2
    <2> QED
      BY <2>1, <2>3, LockOrderSorts
  <1>0. /\ \A d \in Calls : Holds(d, w) <=> FALSE
        /\ \A x \in Wallets : Holds(c, x)' <=> (x = w \/ Holds(c, x))
        /\ \A d \in Calls \ {c}, x \in Wallets : Holds(d, x)' <=> Holds(d, x)
    <2>1. \A d \in Calls : Holds(d, w) <=> FALSE
      BY NoCallAssumption DEF IInv, LocksFollowCode, Holds
    <2>2. \A x \in Wallets : Holds(c, x)' <=> (x = w \/ Holds(c, x))
      BY <1>a DEF IInv, TypeOK, Holds, LockedBoth
    <2>3. \A d \in Calls \ {c}, x \in Wallets : Holds(d, x)' <=> Holds(d, x)
      BY DEF IInv, TypeOK, Holds, LockedBoth
    <2> QED
      BY <2>1, <2>2, <2>3
  <1>1. TypeOK'
    BY DEF IInv, TypeOK, Labels
  <1>2. RunningIsValid'
    BY DEF IInv, TypeOK, RunningIsValid
  <1>3. LocksFollowCode'
    <2>1. ASSUME NEW d \in Calls, NEW x \in Wallets
          PROVE  (rowLock'[x] = d) <=> Holds(d, x)'
      <3>1. rowLock'[x] = (IF x = w THEN c ELSE rowLock[x])
        BY DEF IInv, TypeOK
      <3>2. (rowLock[x] = d) <=> Holds(d, x)
        BY DEF IInv, LocksFollowCode
      <3> QED
        BY <1>0, <3>1, <3>2 DEF Holds
    <2>2. ASSUME NEW d \in Calls, NEW k \in Keys
          PROVE  (keyLock'[k] = d) <=> (pc'[d] = "commit" /\ input'[d].key = k)
      BY DEF IInv, TypeOK, LocksFollowCode
    <2>3. ASSUME NEW d \in Calls
          PROVE  /\ pc'[d] = "lockSecond" => First(input'[d]) \in Wallets
                 /\ pc'[d] \in LockedBoth => {input'[d].from, input'[d].to} \subseteq Wallets
      <3>1. CASE d = c /\ pc[c] = "lockFirst"
        BY <3>1 DEF IInv, TypeOK, LockedBoth
      <3>2. CASE d = c /\ pc[c] = "lockSecond"
        <4>1. First(input[c]) \in Wallets /\ Second(input[c]) \in Wallets
          BY <3>2 DEF IInv, LocksFollowCode
        <4> QED
          BY <1>a, <3>2, <4>1 DEF IInv, TypeOK
      <3>3. CASE d # c
        BY <3>3 DEF IInv, TypeOK, LocksFollowCode
      <3> QED
        BY <3>1, <3>2, <3>3
    <2> QED
      BY <2>1, <2>2, <2>3 DEF LocksFollowCode
  <1>4. ViewsAreFresh'
    <2>1. ASSUME NEW d \in Calls, NEW x \in Wallets
          PROVE  /\ Holds(d, x)' => x \notin missed'[d]
                 /\ HasSnapshot(d)' /\ x \notin missed'[d] => view'[d][x] = balance'[x] + OwnDelta(d, x)'
      <3>1. Holds(d, x)' => x \notin missed'[d]
        BY <1>0 DEF IInv, ViewsAreFresh, Holds
      <3>2. HasSnapshot(d)' => HasSnapshot(d) /\ OwnDelta(d, x)' = OwnDelta(d, x)
        BY DEF IInv, TypeOK, HasSnapshot, OwnDelta
      <3> QED
        BY <3>1, <3>2 DEF IInv, ViewsAreFresh, HasSnapshot
    <2> QED
      BY <2>1 DEF IInv, ViewsAreFresh, Recorded
  <1>5. ReadyToCommit'
    BY <1>0 DEF IInv, TypeOK, ReadyToCommit, Recorded
  <1>6. AtMostOncePerKey' /\ AnswersMatchLog'
    BY <1>0 DEF IInv, TypeOK, AtMostOncePerKey, AnswersMatchLog, Recorded
  <1> QED
    BY <1>1, <1>2, <1>3, <1>4, <1>5, <1>6 DEF IInv

\* The debit is written into the view of the call.
LEMMA DebitIInv ==
  ASSUME IInv, NEW c \in Calls, pc[c] = "debit",
         view[c][input[c].from] + (-input[c].amount) \in 0..MaxBalance,
         view' = [view EXCEPT ![c][input[c].from] = @ + (-input[c].amount)],
         pc' = [pc EXCEPT ![c] = "credit"],
         UNCHANGED <<committed, locks, input, outcome, seen, missed>>
  PROVE  IInv'
  <1> USE DEF committed, locks
  <1>0. /\ input[c].from \in Wallets /\ input[c].to \in Wallets
        /\ input[c].from # input[c].to
        /\ input[c].amount \in Int
    BY LockedWallets, RunningInput DEF LockedBoth
  <1>1. TypeOK'
    BY <1>0 DEF IInv, TypeOK, Labels, Outcomes
  <1>2. RunningIsValid'
    BY <1>0 DEF IInv, TypeOK, RunningIsValid
  <1>3. LocksFollowCode'
    BY <1>0 DEF IInv, TypeOK, LocksFollowCode, Holds, LockedBoth
  <1>4. ViewsAreFresh'
    BY <1>0 DEF IInv, TypeOK, LocksFollowCode, ViewsAreFresh, Holds, LockedBoth, HasSnapshot, OwnDelta, Recorded
  <1>5. ReadyToCommit'
    BY <1>0 DEF IInv, TypeOK, ReadyToCommit, Recorded
  <1>6. AtMostOncePerKey' /\ AnswersMatchLog'
    BY <1>0 DEF IInv, TypeOK, AtMostOncePerKey, AnswersMatchLog, Recorded
  <1> QED
    BY <1>1, <1>2, <1>3, <1>4, <1>5, <1>6 DEF IInv

\* The credit is written into the view of the call.
LEMMA CreditIInv ==
  ASSUME IInv, NEW c \in Calls, pc[c] = "credit",
         view[c][input[c].to] + input[c].amount \in 0..MaxBalance,
         view' = [view EXCEPT ![c][input[c].to] = @ + input[c].amount],
         pc' = [pc EXCEPT ![c] = "record"],
         UNCHANGED <<committed, locks, input, outcome, seen, missed>>
  PROVE  IInv'
  <1> USE DEF committed, locks
  <1>0. /\ input[c].from \in Wallets /\ input[c].to \in Wallets
        /\ input[c].from # input[c].to
        /\ input[c].amount \in Int
    BY LockedWallets, RunningInput DEF LockedBoth
  <1>1. TypeOK'
    BY <1>0 DEF IInv, TypeOK, Labels, Outcomes
  <1>2. RunningIsValid'
    BY <1>0 DEF IInv, TypeOK, RunningIsValid
  <1>3. LocksFollowCode'
    BY <1>0 DEF IInv, TypeOK, LocksFollowCode, Holds, LockedBoth
  <1>4. ViewsAreFresh'
    BY <1>0 DEF IInv, TypeOK, LocksFollowCode, ViewsAreFresh, Holds, LockedBoth, HasSnapshot, OwnDelta, Recorded
  <1>5. ReadyToCommit'
    BY <1>0 DEF IInv, TypeOK, ReadyToCommit, Recorded
  <1>6. AtMostOncePerKey' /\ AnswersMatchLog'
    BY <1>0 DEF IInv, TypeOK, AtMostOncePerKey, AnswersMatchLog, Recorded
  <1> QED
    BY <1>1, <1>2, <1>3, <1>4, <1>5, <1>6 DEF IInv

\* The row of transactions is inserted, not yet committed.
LEMMA RecordIInv ==
  ASSUME IInv, NEW c \in Calls, pc[c] = "record",
         keyLock[input[c].key] = NoCall, ~Recorded(input[c].key),
         keyLock' = [keyLock EXCEPT ![input[c].key] = c],
         pc' = [pc EXCEPT ![c] = "commit"],
         UNCHANGED <<committed, rowLock, input, outcome, snapshot>>
  PROVE  IInv'
  <1> USE DEF committed, snapshot
  <1>0. input[c].key \in Keys
    BY RunningInput
  <1>1. TypeOK'
    BY <1>0 DEF IInv, TypeOK, Labels, Outcomes
  <1>2. RunningIsValid'
    BY <1>0 DEF IInv, TypeOK, RunningIsValid
  <1>3. LocksFollowCode'
    BY <1>0, NoCallAssumption DEF IInv, TypeOK, LocksFollowCode, Holds, LockedBoth
  <1>4. ViewsAreFresh'
    BY <1>0 DEF IInv, TypeOK, LocksFollowCode, ViewsAreFresh, Holds, LockedBoth, HasSnapshot, OwnDelta, Recorded
  <1>5. ReadyToCommit'
    BY <1>0 DEF IInv, TypeOK, ReadyToCommit, Recorded
  <1>6. AtMostOncePerKey' /\ AnswersMatchLog'
    BY <1>0 DEF IInv, TypeOK, AtMostOncePerKey, AnswersMatchLog, Recorded
  <1> QED
    BY <1>1, <1>2, <1>3, <1>4, <1>5, <1>6 DEF IInv

\* The transaction of a call commits, whether or not the call learns of it.
LEMMA PublishIInv ==
  ASSUME IInv, NEW c \in Calls, pc[c] = "commit",
         NEW r \in {"ok", "error"}, Publish(c), EndTx(c, r)
  PROVE  IInv'
  <1> DEFINE i == input[c]
  <1> USE DEF Publish, EndTx, Goto
  <1>1. /\ i \in Inputs
        /\ i.from \in Wallets /\ i.to \in Wallets /\ i.from # i.to
        /\ i.amount \in Int /\ i.amount > 0
    BY RunningInput, LockedWallets DEF LockedBoth
  <1>2. /\ view[c][i.from] = balance[i.from] - i.amount
        /\ view[c][i.to] = balance[i.to] + i.amount
    BY CommittingView
  <1>3. \A d \in Calls \ {c} : ~Holds(d, i.from) /\ ~Holds(d, i.to)
    BY LockedWallets DEF LockedBoth, Holds
  <1>4. ~Recorded(i.key) /\ i.key \in Keys
    BY RunningInput DEF IInv, ReadyToCommit
  <1>5. \A j \in Inputs : transactions'[j] = IF j = i THEN transactions[i] + 1 ELSE transactions[j]
    BY <1>1 DEF IInv, TypeOK
  <1>6. \A key : Recorded(key)' <=> (Recorded(key) \/ key = i.key)
    BY <1>1, <1>5 DEF IInv, TypeOK, Recorded
  <1>7. TypeOK'
    <2>1. balance' \in [Wallets -> 0..MaxBalance]
      BY <1>1 DEF IInv, TypeOK
    <2>2. transactions' \in [Inputs -> Nat]
      BY <1>1 DEF IInv, TypeOK
    <2>3. missed' \in [Calls -> SUBSET Wallets]
      BY <1>1 DEF IInv, TypeOK
    <2>4. /\ rowLock' \in [Wallets -> Calls \cup {NoCall}]
          /\ keyLock' \in [Keys -> Calls \cup {NoCall}]
      BY DEF IInv, TypeOK
    <2>5. /\ pc' \in [Calls -> Labels]
          /\ input' \in [Calls -> Inputs \cup {NoInput}]
          /\ outcome' \in [Calls -> Outcomes]
      BY DEF IInv, TypeOK, Labels, Outcomes
    <2>6. view' \in [Calls -> [Wallets -> 0..MaxBalance]] /\ seen' \in [Calls -> SUBSET Keys]
      BY BalanceAssumption DEF IInv, TypeOK, NoView
    <2> QED
      BY <2>1, <2>2, <2>3, <2>4, <2>5, <2>6 DEF TypeOK
  <1>8. RunningIsValid'
    BY DEF IInv, TypeOK, RunningIsValid
  <1>9. LocksFollowCode'
    BY NoCallAssumption DEF IInv, TypeOK, LocksFollowCode, Holds, LockedBoth
  <1>10. ViewsAreFresh'
    <2>1. ASSUME NEW d \in Calls
          PROVE  seen'[d] \subseteq {k \in Keys : Recorded(k)'}
      BY <1>6 DEF IInv, TypeOK, ViewsAreFresh
    <2>2. ASSUME NEW d \in Calls, NEW w \in Wallets
          PROVE  /\ Holds(d, w)' => w \notin missed'[d]
                 /\ HasSnapshot(d)' /\ w \notin missed'[d]
                      => view'[d][w] = balance'[w] + OwnDelta(d, w)'
      <3>1. CASE d = c
        BY <3>1 DEF IInv, TypeOK, Holds, HasSnapshot, LockedBoth
      <3>2. CASE d # c
        <4>1. Holds(d, w)' => Holds(d, w) /\ HasSnapshot(d)
          BY <3>2 DEF IInv, TypeOK, Holds, HasSnapshot, LockedBoth
        <4>2. Holds(d, w) => w \notin missed'[d]
          BY <1>3, <3>2 DEF IInv, TypeOK, ViewsAreFresh, Holds
        <4>3. ASSUME HasSnapshot(d)', w \notin missed'[d]
              PROVE  view'[d][w] = balance'[w] + OwnDelta(d, w)'
          <5>1. HasSnapshot(d) /\ w \notin missed[d] /\ w # i.from /\ w # i.to
            BY <3>2, <4>3 DEF IInv, TypeOK, HasSnapshot
          <5>2. balance'[w] = balance[w]
            BY <5>1 DEF IInv, TypeOK
          <5>3. view'[d] = view[d] /\ OwnDelta(d, w)' = OwnDelta(d, w)
            BY <3>2 DEF IInv, TypeOK, OwnDelta
          <5> QED
            BY <5>1, <5>2, <5>3 DEF IInv, ViewsAreFresh
        <4> QED
          BY <4>1, <4>2, <4>3 DEF Holds
      <3> QED
        BY <3>1, <3>2
    <2> QED
      BY <2>1, <2>2 DEF ViewsAreFresh
  <1>11. ReadyToCommit'
    <2> SUFFICES ASSUME NEW d \in Calls, d # c
                 PROVE  /\ pc[d] \in {"debit", "credit", "record", "commit"}
                             => balance'[input[d].from] >= input[d].amount
                        /\ pc[d] = "commit" => ~Recorded(input[d].key)'
      BY DEF IInv, TypeOK, ReadyToCommit
    <2>1. ASSUME pc[d] \in {"debit", "credit", "record", "commit"}
          PROVE  balance'[input[d].from] = balance[input[d].from]
      <3>1. input[d].from \in Wallets /\ Holds(d, input[d].from)
        BY <2>1, LockedWallets DEF LockedBoth, Holds
      <3>2. input[d].from # i.from /\ input[d].from # i.to
        BY <1>3, <3>1 DEF Holds
      <3> QED
        BY <3>1, <3>2 DEF IInv, TypeOK
    <2>2. ASSUME pc[d] = "commit"
          PROVE  input[d].key # i.key
      BY <1>4, <2>2 DEF IInv, LocksFollowCode
    <2> QED
      BY <1>6, <2>1, <2>2 DEF IInv, ReadyToCommit
  <1>12. AtMostOncePerKey'
    BY <1>1, <1>4, <1>5 DEF IInv, TypeOK, AtMostOncePerKey, Recorded
  <1>13. AnswersMatchLog'
    <2>1. \A j \in Inputs : transactions[j] > 0 => transactions'[j] > 0
      BY <1>5 DEF IInv, TypeOK
    <2>2. transactions'[i] > 0
      BY <1>1, <1>5 DEF IInv, TypeOK
    <2> QED
      BY <1>1, <1>6, <2>1, <2>2 DEF IInv, TypeOK, AnswersMatchLog
  <1> QED
    BY <1>7, <1>8, <1>9, <1>10, <1>11, <1>12, <1>13 DEF IInv

LEMMA StutterIInv == IInv /\ UNCHANGED vars => IInv'
  <1> SUFFICES ASSUME IInv, UNCHANGED vars PROVE IInv'
    OBVIOUS
  <1> USE DEF vars, committed, locks, snapshot
  <1>1. TypeOK' /\ RunningIsValid'
    BY DEF IInv, TypeOK, RunningIsValid
  <1>2. LocksFollowCode' /\ ReadyToCommit'
    BY DEF IInv, LocksFollowCode, ReadyToCommit, Holds, Recorded
  <1>3. ViewsAreFresh'
    BY DEF IInv, ViewsAreFresh, Holds, HasSnapshot, OwnDelta, Recorded
  <1>4. AtMostOncePerKey' /\ AnswersMatchLog'
    BY DEF IInv, AtMostOncePerKey, AnswersMatchLog, Recorded
  <1> QED
    BY <1>1, <1>2, <1>3, <1>4 DEF IInv

\* Every statement of Transfer preserves the inductive invariant.
LEMMA NextIInv == IInv /\ [Next]_vars => IInv'
  <1> SUFFICES ASSUME IInv, Next PROVE IInv'
    BY StutterIInv
  <1> PICK c \in Calls : (\E i \in Inputs : Transfer(c, i)) \/ Step(c) \/ CommitUnacknowledged(c) \/ Fail(c)
    BY DEF Next
  <1>1. ASSUME NEW i \in Inputs, Transfer(c, i) PROVE IInv'
    BY <1>1, TransferIInv
  <1>2. CASE Begin(c)
    BY <1>2, BeginIInv
  <1>3. CASE LockFirst(c)
    <2>1. CASE Rollback(c, "error")
      BY <1>3, <2>1, RollbackIInv DEF LockFirst
    <2>2. CASE ~Rollback(c, "error")
      BY <1>3, <2>2, LockIInv DEF LockFirst, LockWallet, Stale, Goto
    <2> QED
      BY <2>1, <2>2
  <1>4. CASE LockSecond(c)
    <2>1. CASE Rollback(c, "error")
      BY <1>4, <2>1, RollbackIInv DEF LockSecond
    <2>2. CASE ~Rollback(c, "error")
      BY <1>4, <2>2, LockIInv DEF LockSecond, LockWallet, Stale, Goto
    <2> QED
      BY <2>1, <2>2
  <1>5. CASE CheckKey(c)
    <2>1. CASE input[c].key \in seen[c] /\ Rollback(c, "duplicate")
      <3>1. Recorded(input[c].key)
        BY <2>1 DEF IInv, ViewsAreFresh
      <3> QED
        BY <1>5, <2>1, <3>1, RollbackIInv DEF CheckKey
    <2>2. CASE ~(input[c].key \in seen[c] /\ Rollback(c, "duplicate"))
      BY <1>5, <2>2, AdvanceIInv DEF CheckKey, Goto
    <2> QED
      BY <2>1, <2>2
  <1>6. CASE CheckFunds(c)
    <2>1. CASE Rollback(c, "insufficient")
      BY <1>6, <2>1, RollbackIInv DEF CheckFunds
    <2>2. CASE ~Rollback(c, "insufficient")
      BY <1>6, <2>2, AdvanceIInv DEF CheckFunds, Goto
    <2> QED
      BY <2>1, <2>2
  <1>7. CASE Debit(c)
    <2>1. CASE Rollback(c, "error")
      BY <1>7, <2>1, RollbackIInv DEF Debit
    <2>2. CASE ~Rollback(c, "error")
      BY <1>7, <2>2, DebitIInv DEF Debit, UpdateBalance, Goto
    <2> QED
      BY <2>1, <2>2
  <1>8. CASE Credit(c)
    <2>1. CASE Rollback(c, "error")
      BY <1>8, <2>1, RollbackIInv DEF Credit
    <2>2. CASE ~Rollback(c, "error")
      BY <1>8, <2>2, CreditIInv DEF Credit, UpdateBalance, Goto
    <2> QED
      BY <2>1, <2>2
  <1>9. CASE Record(c)
    <2>1. CASE Rollback(c, "error")
      BY <1>9, <2>1, RollbackIInv DEF Record
    <2>2. CASE ~Rollback(c, "error")
      BY <1>9, <2>2, RecordIInv DEF Record, Goto
    <2> QED
      BY <2>1, <2>2
  <1>10. CASE Commit(c)
    BY <1>10, PublishIInv DEF Commit
  <1>11. CASE CommitUnacknowledged(c)
    BY <1>11, PublishIInv DEF CommitUnacknowledged
  <1>12. CASE Fail(c)
    BY <1>12, RollbackIInv DEF Fail
  <1> QED
    BY <1>1, <1>2, <1>3, <1>4, <1>5, <1>6, <1>7, <1>8, <1>9, <1>10, <1>11, <1>12 DEF Step

-----------------------------------------------------------------------------
(* The theorems.                                                           *)

\* The inductive invariant holds in every reachable state.
THEOREM Invariance == Spec => []IInv
  BY InitIInv, NextIInv, PTL DEF Spec

\* No committed or uncommitted balance leaves the range 0..MaxBalance.
THEOREM TypeCorrectness == Spec => []TypeOK
  <1>1. IInv => TypeOK
    BY DEF IInv
  <1> QED
    BY Invariance, <1>1, PTL

\* An idempotency key moves money at most once.
THEOREM KeyMovesMoneyOnce == Spec => []AtMostOncePerKey
  <1>1. IInv => AtMostOncePerKey
    BY DEF IInv
  <1> QED
    BY Invariance, <1>1, PTL

\* What Transfer answers is true of the log.
THEOREM AnswersAreTrue == Spec => []AnswersMatchLog
  <1>1. IInv => AnswersMatchLog
    BY DEF IInv
  <1> QED
    BY Invariance, <1>1, PTL

\* A call is refused for lack of funds only while the funds are lacking.
THEOREM RefusalIsCurrent == Spec => InsufficientIsCurrent
  <1> DEFINE Current == \A c \in Calls : pc[c] # "idle" /\ outcome'[c] = "insufficient"
                           => balance[input[c].from] < input[c].amount
  <1>1. IInv /\ [Next]_vars => [Current]_vars
    <2> SUFFICES ASSUME IInv, Next, NEW d \in Calls, pc[d] # "idle", outcome'[d] = "insufficient"
                 PROVE  balance[input[d].from] < input[d].amount
      OBVIOUS
    <2>1. outcome[d] = "running"
      BY DEF IInv, RunningIsValid
    <2>2. PICK c \in Calls : (\E i \in Inputs : Transfer(c, i)) \/ Step(c) \/ CommitUnacknowledged(c) \/ Fail(c)
      BY DEF Next
    <2>3. c = d /\ CheckFunds(c) /\ view[c][input[c].from] < input[c].amount
      <3> USE DEF IInv, TypeOK, Rollback, EndTx, Goto, committed, locks, snapshot
      <3>1. ASSUME NEW i \in Inputs, Transfer(c, i) PROVE FALSE
        BY <2>1, <3>1 DEF Transfer, Validate
      <3>2. ASSUME Begin(c) PROVE FALSE
        BY <2>1, <3>2 DEF Begin
      <3>3. ASSUME LockFirst(c) \/ LockSecond(c) PROVE FALSE
        BY <2>1, <3>3 DEF LockFirst, LockSecond, LockWallet
      <3>4. ASSUME CheckKey(c) PROVE FALSE
        BY <2>1, <3>4 DEF CheckKey
      <3>5. ASSUME Debit(c) \/ Credit(c) PROVE FALSE
        BY <2>1, <3>5 DEF Debit, Credit, UpdateBalance
      <3>6. ASSUME Record(c) PROVE FALSE
        BY <2>1, <3>6 DEF Record
      <3>7. ASSUME Commit(c) \/ CommitUnacknowledged(c) \/ Fail(c) PROVE FALSE
        BY <2>1, <3>7 DEF Commit, CommitUnacknowledged, Fail
      <3>8. CASE CheckFunds(c)
        BY <2>1, <3>8 DEF CheckFunds
      <3> QED
        BY <2>2, <3>1, <3>2, <3>3, <3>4, <3>5, <3>6, <3>7, <3>8 DEF Step
    <2>4. input[d].from \in Wallets /\ view[d][input[d].from] = balance[input[d].from] + 0
      BY <2>3, LockedWallets DEF CheckFunds, LockedBoth, OwnDelta
    <2> QED
      BY <2>3, <2>4 DEF IInv, TypeOK
  <1> QED
    BY Invariance, <1>1, PTL DEF Spec, InsufficientIsCurrent

-----------------------------------------------------------------------------
(* The refinement of AtomicLedger.                                         *)

\* What commits is one indivisible transfer of the abstract ledger.
LEMMA PublishApplies ==
  ASSUME IInv, NEW c \in Calls, pc[c] = "commit", Publish(c)
  PROVE  Atomic!Next
  <1> DEFINE i == input[c]
  <1>1. /\ i \in Inputs
        /\ i.from \in Wallets /\ i.to \in Wallets /\ i.from # i.to
        /\ i.amount \in Int /\ i.amount > 0 /\ i.key # ""
    BY RunningInput, LockedWallets DEF LockedBoth
  <1>2. /\ view[c][i.from] = balance[i.from] - i.amount
        /\ view[c][i.to] = balance[i.to] + i.amount
    BY CommittingView
  <1>3. i.amount <= balance[i.from] /\ balance[i.to] + i.amount <= MaxBalance
    <2>1. balance[i.from] \in Int /\ balance[i.from] >= i.amount
      BY CommittingView DEF IInv, ReadyToCommit
    <2>2. view[c][i.to] <= MaxBalance
      BY CommittingView
    <2> QED
      BY <1>1, <1>2, <2>1, <2>2
  <1>4. ~Atomic!Recorded(i.key)
    BY DEF IInv, ReadyToCommit, Recorded, Atomic!Recorded
  <1>5. /\ balance' = [balance EXCEPT ![i.from] = @ - i.amount, ![i.to] = @ + i.amount]
        /\ transactions' = [transactions EXCEPT ![i] = @ + 1]
    BY <1>1, <1>2 DEF Publish, IInv, TypeOK
  <1>6. Atomic!Apply(i)
    BY <1>1, <1>3, <1>4, <1>5 DEF Atomic!Apply
  <1> QED
    BY <1>1, <1>6 DEF Atomic!Next

\* Every statement other than a COMMIT leaves the abstract ledger alone.
LEMMA StepRefines ==
  ASSUME IInv, [Next]_vars
  PROVE  Atomic!Next \/ UNCHANGED <<balance, transactions>>
  <1> USE DEF committed, locks, snapshot
  <1>1. CASE UNCHANGED vars
    BY <1>1 DEF vars
  <1>2. CASE Next
    <2> PICK c \in Calls : (\E i \in Inputs : Transfer(c, i)) \/ Step(c) \/ CommitUnacknowledged(c) \/ Fail(c)
      BY <1>2 DEF Next
    <2>1. CASE Commit(c) \/ CommitUnacknowledged(c)
      BY <2>1, PublishApplies DEF Commit, CommitUnacknowledged
    <2>2. CASE \E i \in Inputs : Transfer(c, i)
      BY <2>2 DEF Transfer
    <2>3. CASE Begin(c)
      BY <2>3 DEF Begin
    <2>4. CASE LockFirst(c) \/ LockSecond(c)
      BY <2>4 DEF LockFirst, LockSecond, LockWallet, Rollback
    <2>5. CASE CheckKey(c) \/ CheckFunds(c)
      BY <2>5 DEF CheckKey, CheckFunds, Rollback
    <2>6. CASE Debit(c) \/ Credit(c)
      BY <2>6 DEF Debit, Credit, UpdateBalance, Rollback
    <2>7. CASE Record(c) \/ Fail(c)
      BY <2>7 DEF Record, Fail, Rollback
    <2> QED
      BY <2>1, <2>2, <2>3, <2>4, <2>5, <2>6, <2>7 DEF Step
  <1> QED
    BY <1>1, <1>2

\* Concurrent transfers implement the indivisible ones.
THEOREM Refinement == Spec => ImplementsAtomicLedger
  <1>1. Init => Atomic!Init
    BY DEF Init, Atomic!Init
  <1>2. IInv /\ [Next]_vars => [Atomic!Next]_<<balance, transactions>>
    BY StepRefines
  <1> QED
    BY Invariance, <1>1, <1>2, PTL DEF Spec, ImplementsAtomicLedger, Atomic!Spec

-----------------------------------------------------------------------------
(* Freedom from deadlock.                                                  *)

Locking(c) == pc[c] \in {"lockFirst", "lockSecond"} /\ Wanted(c) \in Wallets

\* Whoever has a key is committing and waits for nobody.
LEMMA KeyWaitEnds ==
  ASSUME IInv, NEW c \in Calls, NEW d \in Calls, WaitsFor(c, d), ~Locking(c)
  PROVE  \A e \in Calls : ~WaitsFor(d, e)
  <1>1. keyLock[input[c].key] = d /\ input[c].key \in Keys
    BY RunningInput DEF WaitsFor, Locking
  <1>2. pc[d] = "commit"
    BY <1>1 DEF IInv, LocksFollowCode
  <1> QED
    BY <1>2 DEF WaitsFor

\* Whoever has the row a call wants and wants another wants a larger one.
LEMMA RowWaitClimbs ==
  ASSUME IInv, NEW c \in Calls, NEW d \in Calls, WaitsFor(c, d), Locking(c), Locking(d)
  PROVE  Wanted(c) < Wanted(d)
  <1>1. rowLock[Wanted(c)] = d /\ Wanted(c) \in Wallets
    BY DEF WaitsFor, Locking
  <1>2. pc[d] = "lockSecond" /\ Wanted(c) = First(input[d])
    BY <1>1 DEF IInv, LocksFollowCode, Holds, Locking, LockedBoth
  <1>3. First(input[d]) < Second(input[d])
    BY <1>2, RunningInput, LockOrderSorts
  <1> QED
    BY <1>2, <1>3 DEF Wanted

\* Among any calls, some call waits for none of them: no cycle, however long,
\* and no infinite chain either, since the wanted ids grow along it.
THEOREM DeadlockFreedom == Spec => []NoDeadlock
  <1>1. IInv => NoDeadlock
    <2> SUFFICES ASSUME IInv, NEW S \in SUBSET Calls, S # {},
                        \A c \in S : \E d \in S : WaitsFor(c, d)
                 PROVE  FALSE
      BY DEF NoDeadlock
    <2>1. \A c \in S : Locking(c)
      BY KeyWaitEnds
    <2> DEFINE Slack == {MaxId - Wanted(c) : c \in S}
    <2>2. ASSUME NEW c \in S
          PROVE  Wanted(c) \in Int /\ MaxId - Wanted(c) \in Nat
      <3>1. Wanted(c) \in 1..MaxId /\ MaxId \in Nat
        BY <2>1, WalletsAssumption DEF Locking
      <3> HIDE DEF Slack
      <3> QED
        BY <3>1
    <2>3. Slack \in SUBSET Nat /\ Slack # {}
      BY <2>2
    <2>4. PICK n \in Slack : \A m \in Slack : n <= m
      <3> HIDE DEF Slack
      <3>1. PICK n \in Slack : \A m \in Slack : <<m, n>> \notin OpToRel(<, Nat)
        BY <2>3, WFMin, NatLessThanWellFounded, Zenon
      <3>2. \A m \in Slack : ~(m < n)
        BY <2>3, <3>1, Zenon DEF OpToRel
      <3> QED
        BY <2>3, <3>2
    <2>5. PICK c \in S : n = MaxId - Wanted(c)
      BY <2>4
    <2>6. PICK d \in S : WaitsFor(c, d)
      OBVIOUS
    <2>7. Wanted(c) < Wanted(d)
      BY <2>1, <2>6, RowWaitClimbs
    <2>8. n <= MaxId - Wanted(d)
      BY <2>4
    <2> QED
      BY <2>2, <2>5, <2>7, <2>8, WalletsAssumption
  <1> QED
    BY Invariance, <1>1, PTL
-----------------------------------------------------------------------------
(* The balances and the log.                                               *)

\* A set of numbers that is not empty has a least element.
LEMMA NatMin ==
  ASSUME NEW T, T \subseteq Nat, T # {}
  PROVE  \E x \in T : \A y \in T : x <= y
  <1> DEFINE R == OpToRel(<, Nat)
  <1>1. IsWellFoundedOn(R, Nat)
    BY NatLessThanWellFounded
  <1>2. R = {ss \in Nat \X Nat : ss[1] < ss[2]}
    BY DEF OpToRel
  <1> HIDE DEF R
  <1>3. PICK x \in T : \A y \in T : <<y, x>> \notin R
    BY <1>1, WFMin
  <1>4. \A y \in Nat : y < x => <<y, x>> \in R
    BY <1>2
  <1>5. \A y \in T : ~(y < x)
    BY <1>3, <1>4
  <1> QED
    BY <1>5

Chosen(s) == CHOOSE x \in s : TRUE

\* A finite set without its chosen element is one smaller.
LEMMA ChosenLeaves ==
  ASSUME NEW S, IsFiniteSet(S), NEW s \in SUBSET S
  PROVE  /\ Cardinality(s) \in Nat /\ Cardinality(s) <= Cardinality(S)
         /\ s # {} => /\ s \ {Chosen(s)} \in SUBSET S
                      /\ Cardinality(s \ {Chosen(s)}) = Cardinality(s) - 1
         /\ Cardinality(s) = 0 => s = {}
  BY FS_Subset, FS_CardinalityType, FS_RemoveElement, FS_EmptySet DEF Chosen

\* What holds of the empty set and of every set of which it holds without its
\* chosen element holds of every finite set.
LEMMA SubsetInduction ==
  ASSUME NEW S, IsFiniteSet(S), NEW Good, {} \in Good,
         \A s \in SUBSET S : s # {} /\ s \ {Chosen(s)} \in Good => s \in Good
  PROVE  SUBSET S \subseteq Good
  <1> DEFINE Sizes == {Cardinality(s) : s \in (SUBSET S) \ Good}
  <1>2. SUFFICES ASSUME Sizes # {} PROVE FALSE
    OBVIOUS
  <1>3. Sizes \subseteq Nat
    <2>1. \A s \in SUBSET S : Cardinality(s) \in Nat
      BY ChosenLeaves
    <2> QED
      BY <2>1
  <1>4. PICK n \in Sizes : \A m \in Sizes : n <= m
    <2> HIDE DEF Sizes
    <2> QED
      BY <1>2, <1>3, NatMin
  <1>5. PICK s \in (SUBSET S) \ Good : n = Cardinality(s)
    BY <1>4
  <1>6. s \ {Chosen(s)} \in (SUBSET S) \ Good
    BY <1>5, ChosenLeaves
  <1>7. n <= Cardinality(s \ {Chosen(s)})
    BY <1>4, <1>6
  <1>8. n \in Nat /\ Cardinality(s \ {Chosen(s)}) = n - 1
    BY <1>5, ChosenLeaves
  <1> QED
    BY <1>7, <1>8

\* The sum of the amounts of the inputs in S, each as often as t says.
Total(t, S) == MapThenSumSet(LAMBDA i : t[i] * i.amount, S)

IsTotal(g, t, D) ==
  g = [s \in D |-> IF s = {} THEN 0 ELSE t[Chosen(s)] * Chosen(s).amount + g[s \ {Chosen(s)}]]

\* The recursive definition of the sum has a solution.
LEMMA TotalsExist ==
  ASSUME NEW t, NEW S, IsFiniteSet(S)
  PROVE  \E g : IsTotal(g, t, SUBSET S)
  <1> DEFINE
        Upto(m) == {s \in SUBSET S : Cardinality(s) <= m}
        Least == {m \in Nat : ~ \E g : IsTotal(g, t, Upto(m))}
  <1>2. Least = {}
    <2>1. SUFFICES ASSUME Least # {} PROVE FALSE
      OBVIOUS
    <2>2. PICK m \in Least : \A y \in Least : m <= y
      <3>1. Least \subseteq Nat
        OBVIOUS
      <3> HIDE DEF Least
      <3> QED
        BY <2>1, <3>1, NatMin
    <2>3. m \in Nat /\ ~ \E g : IsTotal(g, t, Upto(m))
      OBVIOUS
    <2>4. CASE m = 0
      <3> DEFINE g == [s \in Upto(0) |-> 0]
      <3>1. ASSUME NEW s \in Upto(0) PROVE s = {}
        <4>1. Cardinality(s) \in Nat /\ Cardinality(s) <= 0
          BY ChosenLeaves
        <4>2. Cardinality(s) = 0
          BY <4>1
        <4> QED
          BY <4>2, ChosenLeaves
      <3>2. IsTotal(g, t, Upto(0))
        BY <3>1 DEF IsTotal
      <3> QED
        BY <2>3, <2>4, <3>2
    <2>5. CASE m # 0
      <3>1. m - 1 \in Nat /\ ~(m <= m - 1)
        BY <2>3, <2>5
      <3>2. m - 1 \notin Least
        <4> HIDE DEF Least
        <4> QED
          BY <2>2, <3>1
      <3>3. PICK h : IsTotal(h, t, Upto(m - 1))
        BY <3>1, <3>2
      <3> DEFINE
            Sum(s) == t[Chosen(s)] * Chosen(s).amount + h[s \ {Chosen(s)}]
            g == [s \in Upto(m) |-> IF s = {} THEN 0 ELSE Sum(s)]
      <3>4. ASSUME NEW r \in Upto(m - 1) PROVE r \in Upto(m) /\ g[r] = h[r]
        <4>1. r \in Upto(m)
          <5>1. Cardinality(r) \in Nat /\ Cardinality(r) <= m - 1
            BY ChosenLeaves
          <5>2. Cardinality(r) <= m
            BY <2>3, <5>1
          <5> QED
            BY <5>2
        <4>2. h[r] = IF r = {} THEN 0 ELSE Sum(r)
          BY <3>3, <3>4 DEF IsTotal
        <4> QED
          BY <4>1, <4>2
      <3>5. ASSUME NEW s \in Upto(m), s # {} PROVE s \ {Chosen(s)} \in Upto(m - 1)
        <4>1. /\ Cardinality(s) \in Nat /\ Cardinality(s) <= m
              /\ s \ {Chosen(s)} \in SUBSET S
              /\ Cardinality(s \ {Chosen(s)}) = Cardinality(s) - 1
          BY <3>5, ChosenLeaves
        <4>2. Cardinality(s \ {Chosen(s)}) <= m - 1
          BY <2>3, <4>1
        <4> QED
          BY <4>1, <4>2
      <3>6. \A s \in Upto(m) : s # {} =>
              Sum(s) = t[Chosen(s)] * Chosen(s).amount + g[s \ {Chosen(s)}]
        BY <3>4, <3>5
      <3>7. IsTotal(g, t, Upto(m))
        <4>1. g = [s \in Upto(m) |-> IF s = {} THEN 0
                     ELSE t[Chosen(s)] * Chosen(s).amount + g[s \ {Chosen(s)}]]
          BY <3>6
        <4> QED
          BY <4>1 DEF IsTotal
      <3> QED
        BY <2>3, <3>7
    <2> QED
      BY <2>4, <2>5
  <1>3. Cardinality(S) \in Nat /\ Upto(Cardinality(S)) = SUBSET S
    <2>1. S \in SUBSET S
      OBVIOUS
    <2> QED
      BY <2>1, ChosenLeaves
  <1> QED
    BY <1>2, <1>3

LEMMA TotalDef ==
  ASSUME NEW t, NEW S, IsFiniteSet(S)
  PROVE  \E g : IsTotal(g, t, SUBSET S) /\ Total(t, S) = g[S]
  <1> DEFINE g == CHOOSE f : IsTotal(f, t, SUBSET S)
  <1>1. IsTotal(g, t, SUBSET S)
    BY TotalsExist
  <1>2. Total(t, S) = g[S]
    BY DEF Total, MapThenSumSet, MapThenFoldSet, IsTotal, Chosen
  <1> QED
    BY <1>1, <1>2

\* Where nothing was recorded, nothing was moved.
LEMMA TotalOfNothing ==
  ASSUME NEW t, NEW S, IsFiniteSet(S), \A x \in S : t[x] = 0 /\ x.amount \in Int
  PROVE  Total(t, S) = 0
  <1>1. PICK g : IsTotal(g, t, SUBSET S) /\ Total(t, S) = g[S]
    BY TotalDef
  <1> DEFINE Good == {s \in SUBSET S : g[s] = 0}
  <1>2. {} \in Good
    BY <1>1 DEF IsTotal
  <1>3. ASSUME NEW s \in SUBSET S, s # {}, s \ {Chosen(s)} \in Good
        PROVE  s \in Good
    <2>1. g[s] = t[Chosen(s)] * Chosen(s).amount + g[s \ {Chosen(s)}]
      BY <1>1, <1>3 DEF IsTotal
    <2>2. t[Chosen(s)] = 0 /\ Chosen(s).amount \in Int
      BY <1>3 DEF Chosen
    <2>3. \A a \in Int : 0 * a + 0 = 0
      OBVIOUS
    <2> QED
      BY <1>3, <2>1, <2>2, <2>3
  <1>4. SUBSET S \subseteq Good
    <2> HIDE DEF Good
    <2> QED
      BY <1>2, <1>3, SubsetInduction
  <1> QED
    BY <1>1, <1>4

\* One more transfer adds its amount to a sum it belongs to.
LEMMA TotalOfOneMore ==
  ASSUME NEW t, NEW u, NEW S, IsFiniteSet(S), NEW j,
         \A x \in S : /\ t[x] \in Int /\ x.amount \in Int
                      /\ u[x] = IF x = j THEN t[x] + 1 ELSE t[x]
  PROVE  /\ Total(t, S) \in Int
         /\ Total(u, S) = Total(t, S) + (IF j \in S THEN j.amount ELSE 0)
  <1>1. PICK g : IsTotal(g, t, SUBSET S) /\ Total(t, S) = g[S]
    BY TotalDef
  <1>2. PICK h : IsTotal(h, u, SUBSET S) /\ Total(u, S) = h[S]
    BY TotalDef
  <1> DEFINE
        More(s) == IF j \in s THEN j.amount ELSE 0
        Good == {s \in SUBSET S : g[s] \in Int /\ h[s] = g[s] + More(s)}
  <1>3. {} \in Good
    BY <1>1, <1>2 DEF IsTotal
  <1>4. ASSUME NEW s \in SUBSET S, s # {}, s \ {Chosen(s)} \in Good
        PROVE  s \in Good
    <2>1. PICK x \in s : x = Chosen(s)
      BY <1>4 DEF Chosen
    <2>2. g[s] = t[x] * x.amount + g[s \ {x}] /\ h[s] = u[x] * x.amount + h[s \ {x}]
      BY <1>1, <1>2, <1>4, <2>1 DEF IsTotal
    <2>3. g[s \ {x}] \in Int /\ h[s \ {x}] = g[s \ {x}] + More(s \ {x})
      BY <1>4, <2>1
    <2>4. /\ t[x] \in Int /\ x.amount \in Int /\ t[x] * x.amount \in Int
          /\ (t[x] + 1) * x.amount = t[x] * x.amount + x.amount
      <3>1. \A m, a \in Int : m * a \in Int /\ (m + 1) * a = m * a + a
        OBVIOUS
      <3> QED
        BY <3>1
    <2>5. CASE x = j
      <3>1. u[x] = t[x] + 1 /\ More(s) = x.amount /\ More(s \ {x}) = 0
        BY <2>5
      <3> QED
        BY <2>2, <2>3, <2>4, <3>1
    <2>6. CASE x # j
      <3>1. u[x] = t[x] /\ More(s) = More(s \ {x})
        BY <2>6
      <3>2. More(s) \in Int
        BY <1>4
      <3> QED
        BY <2>2, <2>3, <2>4, <3>1, <3>2
    <2> QED
      BY <2>5, <2>6
  <1>5. SUBSET S \subseteq Good
    <2> HIDE DEF Good
    <2> QED
      BY <1>3, <1>4, SubsetInduction
  <1>6. S \in Good
    BY <1>5
  <1> QED
    BY <1>1, <1>2, <1>6

To(w) == {i \in Inputs : i.to = w}
From(w) == {i \in Inputs : i.from = w}

\* The balance of w is what the log t says.
Matches(b, t) ==
  \A w \in Wallets : b[w] = InitialBalance[w] + Total(t, To(w)) - Total(t, From(w))

LEMMA InputsFinite ==
  ASSUME NEW w
  PROVE  /\ IsFiniteSet(To(w)) /\ IsFiniteSet(From(w))
         /\ \A i \in Inputs : i.amount \in Int
  BY FiniteInputsAssumption, InputsAssumption, FS_Subset DEF To, From

LEMMA BalancesMatch == BalancesMatchLog <=> Matches(balance, transactions)
  BY DEF BalancesMatchLog, Matches, Total, To, From

LEMMA BalancesMatchNext == BalancesMatchLog' <=> Matches(balance', transactions')
  BY DEF BalancesMatchLog, Matches, Total, To, From, MapThenSumSet, MapThenFoldSet

\* An indivisible transfer moves in the balances what it adds to the log.
LEMMA ApplyMatches ==
  ASSUME IInv, BalancesMatchLog, NEW j \in Inputs, Atomic!Apply(j)
  PROVE  BalancesMatchLog'
  <1>1. SUFFICES ASSUME NEW w \in Wallets
                 PROVE  balance'[w] = InitialBalance[w] + Total(transactions', To(w))
                                        - Total(transactions', From(w))
    BY BalancesMatchNext DEF Matches
  <1>2. balance[w] = InitialBalance[w] + Total(transactions, To(w))
                       - Total(transactions, From(w))
    BY BalancesMatch DEF Matches
  <1>3. /\ balance \in [Wallets -> 0..MaxBalance] /\ transactions \in [Inputs -> Nat]
        /\ InitialBalance[w] \in Int /\ balance[w] \in Int /\ j.amount \in Int
    BY BalanceAssumption, InputsAssumption DEF IInv, TypeOK
  <1>4. /\ balance' = [balance EXCEPT ![j.from] = @ - j.amount, ![j.to] = @ + j.amount]
        /\ transactions' = [transactions EXCEPT ![j] = @ + 1]
        /\ j.from # j.to
    BY DEF Atomic!Apply
  <1>5. \A x \in Inputs : /\ transactions[x] \in Int /\ x.amount \in Int
                          /\ transactions'[x] =
                               IF x = j THEN transactions[x] + 1 ELSE transactions[x]
    BY <1>3, <1>4, InputsFinite
  <1>6. /\ Total(transactions, To(w)) \in Int
        /\ Total(transactions', To(w)) =
             Total(transactions, To(w)) + (IF j \in To(w) THEN j.amount ELSE 0)
    <2>1. To(w) \subseteq Inputs /\ IsFiniteSet(To(w))
      BY InputsFinite DEF To
    <2>2. \A x \in To(w) : /\ transactions[x] \in Int /\ x.amount \in Int
                          /\ transactions'[x] =
                               IF x = j THEN transactions[x] + 1 ELSE transactions[x]
      BY <1>5, <2>1
    <2> QED
      BY <2>1, <2>2, TotalOfOneMore
  <1>7. /\ Total(transactions, From(w)) \in Int
        /\ Total(transactions', From(w)) =
             Total(transactions, From(w)) + (IF j \in From(w) THEN j.amount ELSE 0)
    <2>1. From(w) \subseteq Inputs /\ IsFiniteSet(From(w))
      BY InputsFinite DEF From
    <2>2. \A x \in From(w) : /\ transactions[x] \in Int /\ x.amount \in Int
                          /\ transactions'[x] =
                               IF x = j THEN transactions[x] + 1 ELSE transactions[x]
      BY <1>5, <2>1
    <2> QED
      BY <2>1, <2>2, TotalOfOneMore
  <1>8. (j \in To(w) <=> j.to = w) /\ (j \in From(w) <=> j.from = w)
    BY DEF To, From
  <1>9. balance'[w] = balance[w] + (IF j.to = w THEN j.amount ELSE 0)
                        - (IF j.from = w THEN j.amount ELSE 0)
    <2>1. CASE j.to = w
      BY <1>3, <1>4, <2>1
    <2>2. CASE j.from = w
      BY <1>3, <1>4, <2>2
    <2>3. CASE j.to # w /\ j.from # w
      BY <1>3, <1>4, <2>3
    <2> QED
      BY <2>1, <2>2, <2>3
  <1>10. \A b, init, to, from, a, d \in Int :
           b = init + to - from => b + a - d = init + (to + a) - (from + d)
    OBVIOUS
  <1> QED
    BY <1>2, <1>3, <1>6, <1>7, <1>8, <1>9, <1>10

\* No interleaving of transfers, failed and unacknowledged commits included, loses
\* or doubles an update: at all times the balances follow from the log.
THEOREM BalancesFollowLog == Spec => []BalancesMatchLog
  <1>1. Init => BalancesMatchLog
    <2>1. SUFFICES ASSUME Init, NEW w \in Wallets
                   PROVE  balance[w] = InitialBalance[w] + Total(transactions, To(w))
                                         - Total(transactions, From(w))
      BY BalancesMatch DEF Matches
    <2>2. Total(transactions, To(w)) = 0 /\ Total(transactions, From(w)) = 0
      <3>1. \A x \in Inputs : transactions[x] = 0 /\ x.amount \in Int
        BY <2>1, InputsFinite DEF Init
      <3>2. To(w) \subseteq Inputs /\ From(w) \subseteq Inputs
        BY DEF To, From
      <3> QED
        BY <3>1, <3>2, InputsFinite, TotalOfNothing
    <2>3. balance[w] = InitialBalance[w] /\ InitialBalance[w] \in Int
      BY <2>1, BalanceAssumption DEF Init
    <2> QED
      BY <2>2, <2>3
  <1>2. IInv /\ [Next]_vars /\ BalancesMatchLog => BalancesMatchLog'
    <2>1. SUFFICES ASSUME IInv, [Next]_vars, BalancesMatchLog PROVE BalancesMatchLog'
      OBVIOUS
    <2>2. CASE Atomic!Next
      BY <2>1, <2>2, ApplyMatches DEF Atomic!Next
    <2>3. CASE UNCHANGED <<balance, transactions>>
      BY <2>1, <2>3, BalancesMatch, BalancesMatchNext
    <2> QED
      BY <2>1, <2>2, <2>3, StepRefines
  <1> QED
    BY Invariance, <1>1, <1>2, PTL DEF Spec
=============================================================================
