--------------------------- MODULE BankCardsProofs ---------------------------
(***************************************************************************)
(* Theorems about BankCards for every set of users, every finite set of     *)
(* requests, every limit and any number of cards: the inductive invariant   *)
(* IInv, the overshoot of the limit and what a step may never do.          *)
(***************************************************************************)
EXTENDS BankCards, FiniteSetTheorems, TLAPS

BeforeRow == {"prefer", "remove", "rename"}
InTrigger == {"trigger", "clear"}

\* What a request carries at each of its statements.
RequestsComplete ==
  \A r \in Requests :
    /\ pc[r] # "idle" => request[r].user \in Users
    /\ pc[r] \in BeforeInsert => request[r].op = "add"
    /\ pc[r] \in BeforeRow => request[r].card \in CardIds /\ request[r].op = pc[r]
    /\ pc[r] = "prefer" => request[r].preferred
    /\ pc[r] \in InTrigger => newId[r] \in CardIds /\ request[r].op \in {"add", "prefer"}
    /\ pc[r] \notin InTrigger => newId[r] = 0

\* An id the sequence has not given has no row.
NoRowsAhead == \A i \in CardIds : i >= nextCard => cards[i] = NoCard

\* The row of an INSERT is not in the table, and nobody else inserts it; the row
\* of an UPDATE belongs to the user and stays locked.
TriggersOnOwnRow ==
  \A r \in Requests : pc[r] \in InTrigger =>
    \/ /\ request[r].op = "add"
       /\ newId[r] < nextCard
       /\ cards[newId[r]] = NoCard
       /\ \A q \in Requests : newId[q] = newId[r] => q = r
    \/ /\ request[r].op = "prefer"
       /\ request[r].preferred
       /\ rowLock[newId[r]] = r
       /\ cards[newId[r]].user = request[r].user

\* What the trigger found may be gone by now, but is never the row of another
\* user, nor one that is still to be inserted.
FindsOwnRows ==
  \A r \in Requests : \A i \in toClear[r] :
    /\ pc[r] = "clear"
    /\ i # newId[r]
    /\ i < nextCard
    /\ cards[i] = NoCard \/ cards[i].user = request[r].user
    /\ \A q \in Requests : pc[q] \in InTrigger /\ request[q].op = "add" => newId[q] # i

\* What the trigger has changed stays locked, and in the table, until it commits.
ClearsOwnRows ==
  \A r \in Requests : \A i \in cleared[r] :
    /\ pc[r] = "clear"
    /\ i # newId[r]
    /\ rowLock[i] = r
    /\ cards[i].user = request[r].user

\* The requests that will take an id from the sequence.
Inserting == {q \in Requests : pc[q] \in BeforeInsert}
IdsSuffice == Cardinality(Inserting) + nextCard <= MaxCards + 1

\* The requests that are past the limit's trigger and insert a card of a user.
Adding(u) ==
  {r \in Requests : pc[r] \in InTrigger /\ request[r].op = "add" /\ request[r].user = u}

\* What will be in the table when all of them have committed.
LimitWithAdding ==
  \A u \in Users : Cardinality(CardsOf(u)) + Cardinality(Adding(u)) <= Limit - 1 + Cardinality(Requests)

IInv ==
  /\ TypeOK
  /\ RequestsComplete
  /\ NoRowsAhead
  /\ TriggersOnOwnRow
  /\ FindsOwnRows
  /\ ClearsOwnRows
  /\ IdsSuffice
  /\ LimitWithAdding

-----------------------------------------------------------------------------
(* Cardinalities.                                                          *)

LEMMA RequestsFinite ==
  ASSUME NEW S \in SUBSET Requests
  PROVE  /\ IsFiniteSet(S)
         /\ Cardinality(S) \in Nat /\ Cardinality(Requests) \in Nat
         /\ Cardinality(S) <= Cardinality(Requests)
  BY RequestsAssumption, FS_Subset, FS_CardinalityType

LEMMA CardsFinite ==
  ASSUME NEW S \in SUBSET CardIds
  PROVE  IsFiniteSet(S) /\ Cardinality(S) \in Nat
  <1>1. IsFiniteSet(CardIds)
    BY LimitAssumption, FS_Interval DEF CardIds
  <1> QED
    BY <1>1, FS_Subset, FS_CardinalityType

LEMMA SubsetsShrink ==
  ASSUME NEW T, IsFiniteSet(T), NEW S \in SUBSET T
  PROVE  Cardinality(S) <= Cardinality(T) /\ Cardinality(S) \in Nat /\ Cardinality(T) \in Nat
  BY FS_Subset, FS_CardinalityType

\* A step that inserts nothing, and lets nothing past the limit's trigger.
LEMMA LimitShrinks ==
  ASSUME LimitWithAdding,
         \A u \in Users : CardsOf(u)' \subseteq CardsOf(u) /\ Adding(u)' \subseteq Adding(u)
  PROVE  LimitWithAdding'
  <1> SUFFICES ASSUME NEW u \in Users
               PROVE  Cardinality(CardsOf(u)') + Cardinality(Adding(u)')
                        <= Limit - 1 + Cardinality(Requests)
    BY DEF LimitWithAdding
  <1>1. CardsOf(u) \subseteq CardIds /\ Adding(u) \subseteq Requests
    BY DEF CardsOf, Adding
  <1>2. IsFiniteSet(CardsOf(u)) /\ IsFiniteSet(Adding(u))
    BY <1>1, CardsFinite, RequestsFinite
  <1>3. /\ Cardinality(CardsOf(u)') <= Cardinality(CardsOf(u))
        /\ Cardinality(CardsOf(u)') \in Nat /\ Cardinality(CardsOf(u)) \in Nat
    BY <1>2, SubsetsShrink
  <1>4. /\ Cardinality(Adding(u)') <= Cardinality(Adding(u))
        /\ Cardinality(Adding(u)') \in Nat /\ Cardinality(Adding(u)) \in Nat
    BY <1>2, SubsetsShrink
  <1>5. Limit \in Nat /\ Cardinality(Requests) \in Nat
    BY LimitAssumption, RequestsFinite
  <1>6. Cardinality(CardsOf(u)) + Cardinality(Adding(u)) <= Limit - 1 + Cardinality(Requests)
    BY DEF LimitWithAdding
  <1> QED
    BY <1>3, <1>4, <1>5, <1>6

\* A step after which fewer or the same requests will take an id.
LEMMA IdsStillSuffice ==
  ASSUME TypeOK, IdsSuffice, Inserting' \subseteq Inserting, UNCHANGED nextCard
  PROVE  IdsSuffice'
  <1>1. IsFiniteSet(Inserting)
    BY RequestsFinite DEF Inserting
  <1>2. /\ Cardinality(Inserting') <= Cardinality(Inserting)
        /\ Cardinality(Inserting') \in Nat /\ Cardinality(Inserting) \in Nat
    BY <1>1, SubsetsShrink
  <1>3. nextCard \in Nat /\ MaxCards \in Nat
    BY LimitAssumption DEF TypeOK
  <1> QED
    BY <1>2, <1>3 DEF IdsSuffice

\* An INSERT finds an id, and leaves one for each of the others.
LEMMA IdTaken ==
  ASSUME TypeOK, IdsSuffice, NEW r \in Requests, pc[r] = "limit"
  PROVE  /\ nextCard \in 1..MaxCards /\ MaxCards \in Nat
         /\ Cardinality(Inserting \ {r}) + (nextCard + 1) <= MaxCards + 1
  <1>1. r \in Inserting
    BY DEF Inserting, BeforeInsert
  <1>2. IsFiniteSet(Inserting) /\ Cardinality(Inserting) \in Nat
    BY RequestsFinite DEF Inserting
  <1>3. Cardinality(Inserting) # 0
    BY <1>1, <1>2, FS_EmptySet
  <1>4. Cardinality(Inserting \ {r}) = Cardinality(Inserting) - 1
    BY <1>1, <1>2, FS_RemoveElement
  <1>5. nextCard \in 1..(MaxCards + 1) /\ MaxCards \in Nat
    BY LimitAssumption DEF TypeOK
  <1>6. Cardinality(Inserting) + nextCard <= MaxCards + 1
    BY DEF IdsSuffice
  <1> HIDE DEF Inserting
  <1> QED
    BY <1>2, <1>3, <1>4, <1>5, <1>6

-----------------------------------------------------------------------------
LEMMA InitIInv == Init => IInv
  <1> SUFFICES ASSUME Init PROVE IInv
    OBVIOUS
  <1>1. TypeOK
    BY LimitAssumption DEF Init, TypeOK, NoCard, NoRequest
  <1>2. RequestsComplete /\ NoRowsAhead /\ TriggersOnOwnRow /\ FindsOwnRows /\ ClearsOwnRows
    BY DEF Init, RequestsComplete, NoRowsAhead, TriggersOnOwnRow, FindsOwnRows, ClearsOwnRows,
           BeforeInsert, BeforeRow, InTrigger
  <1>3. IdsSuffice
    <2>1. Inserting = {}
      BY DEF Init, Inserting, BeforeInsert
    <2> QED
      BY <2>1, FS_EmptySet, LimitAssumption DEF Init, IdsSuffice
  <1>4. LimitWithAdding
    <2> SUFFICES ASSUME NEW u \in Users
                 PROVE  Cardinality(CardsOf(u)) + Cardinality(Adding(u))
                          <= Limit - 1 + Cardinality(Requests)
      BY DEF LimitWithAdding
    <2>1. CardsOf(u) = {} /\ Adding(u) = {}
      BY NobodyAssumption DEF Init, CardsOf, NoCard, Adding, InTrigger
    <2>2. Limit \in Nat \ {0} /\ Cardinality(Requests) \in Nat
      BY LimitAssumption, RequestsFinite
    <2> QED
      BY <2>1, <2>2, FS_EmptySet
  <1> QED
    BY <1>1, <1>2, <1>3, <1>4 DEF IInv

-----------------------------------------------------------------------------
(* One lemma per action.                                                   *)

\* A request ends without effect: its locks and uncommitted changes are gone, and
\* the id that an INSERT took before the limit's trigger refused it.
LEMMA AnswerIInv ==
  ASSUME IInv, NEW r \in Requests, Answer(r), UNCHANGED cards,
         UNCHANGED nextCard \/ (pc[r] = "limit" /\ nextCard' = nextCard + 1)
  PROVE  IInv'
  <1> USE DEF Answer, Unlocked
  <1>0. /\ pc'[r] = "idle" /\ newId'[r] = 0 /\ toClear'[r] = {} /\ cleared'[r] = {}
        /\ \A q \in Requests \ {r} : pc'[q] = pc[q] /\ request'[q] = request[q] /\ newId'[q] = newId[q]
                                       /\ toClear'[q] = toClear[q] /\ cleared'[q] = cleared[q]
        /\ \A i \in CardIds : rowLock[i] # r => rowLock'[i] = rowLock[i]
        /\ \A i \in CardIds : rowLock[i] = r => rowLock'[i] = Nobody
    BY DEF IInv, TypeOK
  <1>a. nextCard' \in 1..(MaxCards + 1) /\ nextCard' >= nextCard /\ nextCard \in Nat
    <2>1. CASE UNCHANGED nextCard
      BY <2>1 DEF IInv, TypeOK
    <2>2. CASE pc[r] = "limit" /\ nextCard' = nextCard + 1
      <3>1. nextCard \in 1..MaxCards /\ MaxCards \in Nat
        BY <2>2, IdTaken DEF IInv
      <3> QED
        BY <2>2, <3>1
    <2> QED
      BY <2>1, <2>2
  <1>1. TypeOK'
    <2>1. NoRequest \in [op : {"none", "add", "prefer", "remove", "rename"},
                         user : Users \cup {Nobody}, card : 0..MaxCards, preferred : BOOLEAN]
      BY LimitAssumption DEF NoRequest
    <2>2. 0 \in 0..MaxCards
      BY LimitAssumption
    <2> QED
      BY <1>0, <1>a, <2>1, <2>2, NobodyAssumption DEF IInv, TypeOK
  <1>b. \A q \in Requests : newId[q] \in Nat /\ newId'[q] \in Nat /\ toClear[q] \subseteq Nat
    BY <1>1 DEF IInv, TypeOK, CardIds
  <1> HIDE DEF Answer, Unlocked
  <1>2. RequestsComplete' /\ NoRowsAhead'
    BY <1>0, <1>a DEF IInv, RequestsComplete, NoRowsAhead, BeforeInsert, BeforeRow, InTrigger, CardIds
  <1>3. TriggersOnOwnRow'
    <2>1. ASSUME NEW q \in Requests, pc'[q] \in InTrigger
          PROVE  /\ q # r /\ pc[q] \in InTrigger /\ newId'[q] = newId[q] /\ newId[q] \in CardIds
                 /\ newId[q] < nextCard => newId'[q] < nextCard'
                 /\ \A x \in Requests : newId'[x] = newId'[q] => x # r /\ newId[x] = newId[q]
      <3>1. q # r /\ pc[q] \in InTrigger /\ newId'[q] = newId[q] /\ newId[q] \in CardIds
        BY <1>0, <2>1 DEF IInv, RequestsComplete, InTrigger
      <3>2. newId[q] # 0
        BY <3>1 DEF CardIds
      <3>3. newId[q] < nextCard => newId'[q] < nextCard'
        BY <1>a, <1>b, <3>1
      <3> QED
        BY <1>0, <3>1, <3>2, <3>3
    <2> QED
      BY <1>0, <2>1 DEF IInv, TriggersOnOwnRow
  <1>4. FindsOwnRows'
    <2>1. \A q \in Requests : \A i \in toClear[q] : i < nextCard => i < nextCard'
      BY <1>a, <1>b
    <2> QED
      BY <1>0, <2>1 DEF IInv, FindsOwnRows, InTrigger
  <1>5. ClearsOwnRows'
    BY <1>0 DEF IInv, TypeOK, ClearsOwnRows
  <1>6. IdsSuffice'
    <2>1. CASE UNCHANGED nextCard
      <3>1. Inserting' \subseteq Inserting
        BY <1>0 DEF Inserting, BeforeInsert
      <3> QED
        BY <2>1, <3>1, IdsStillSuffice DEF IInv
    <2>2. CASE pc[r] = "limit" /\ nextCard' = nextCard + 1
      <3>1. Inserting' = Inserting \ {r}
        BY <1>0 DEF Inserting, BeforeInsert
      <3>2. Cardinality(Inserting \ {r}) + (nextCard + 1) <= MaxCards + 1
        BY <2>2, IdTaken DEF IInv
      <3>3. Cardinality(Inserting \ {r}) + nextCard' <= MaxCards + 1
        BY <2>2, <3>2
      <3> QED
        BY <3>1, <3>3 DEF IdsSuffice
    <2> QED
      BY <2>1, <2>2
  <1>7. LimitWithAdding'
    <2>1. \A u \in Users : CardsOf(u)' \subseteq CardsOf(u) /\ Adding(u)' \subseteq Adding(u)
      BY <1>0 DEF CardsOf, Adding, InTrigger
    <2> QED
      BY <2>1, LimitShrinks DEF IInv
  <1> QED
    BY <1>1, <1>2, <1>3, <1>4, <1>5, <1>6, <1>7 DEF IInv

\* HandleCards: there is an id for every addition under way.
LEMMA ReceiveAddIInv ==
  ASSUME IInv, NEW r \in Requests, NEW u \in Users, NEW preferred \in BOOLEAN,
         ReceiveAdd(r, u, preferred)
  PROVE  IInv'
  <1> USE DEF ReceiveAdd, Receive, Goto, working
  <1>0. /\ pc[r] = "idle" /\ pc'[r] = "eligible"
        /\ request'[r].user = u /\ request'[r].op = "add"
        /\ \A q \in Requests \ {r} : pc'[q] = pc[q] /\ request'[q] = request[q]
        /\ UNCHANGED <<cards, nextCard, rowLock, newId, toClear, cleared>>
    BY DEF IInv, TypeOK
  <1>1. TypeOK'
    BY LimitAssumption DEF IInv, TypeOK
  <1>a. Cardinality(Inserting) + nextCard <= MaxCards
    BY DEF Inserting
  <1> HIDE DEF ReceiveAdd, Receive, Goto
  <1>2. RequestsComplete' /\ NoRowsAhead'
    BY <1>0 DEF IInv, RequestsComplete, NoRowsAhead, BeforeInsert, BeforeRow, InTrigger
  <1>3. TriggersOnOwnRow' /\ FindsOwnRows' /\ ClearsOwnRows'
    BY <1>0 DEF IInv, TriggersOnOwnRow, FindsOwnRows, ClearsOwnRows, InTrigger
  <1>6. IdsSuffice'
    <2>1. Inserting' = Inserting \cup {r}
      BY <1>0 DEF Inserting, BeforeInsert
    <2>2. IsFiniteSet(Inserting) /\ Cardinality(Inserting) \in Nat
      BY RequestsFinite DEF Inserting
    <2>3. Cardinality(Inserting') \in {Cardinality(Inserting), Cardinality(Inserting) + 1}
      BY <2>1, <2>2, FS_AddElement
    <2>4. nextCard \in Nat /\ MaxCards \in Nat
      BY LimitAssumption DEF IInv, TypeOK
    <2> QED
      BY <1>0, <1>a, <2>2, <2>3, <2>4 DEF IdsSuffice
  <1>7. LimitWithAdding'
    <2>1. \A w \in Users : CardsOf(w)' \subseteq CardsOf(w) /\ Adding(w)' \subseteq Adding(w)
      BY <1>0 DEF CardsOf, Adding, InTrigger
    <2> QED
      BY <2>1, LimitShrinks DEF IInv
  <1> QED
    BY <1>1, <1>2, <1>3, <1>6, <1>7 DEF IInv

LEMMA ReceiveItemIInv ==
  ASSUME IInv, NEW r \in Requests, NEW u \in Users, NEW i \in CardIds, NEW op \in BeforeRow,
         ReceiveItem(r, u, i, op)
  PROVE  IInv'
  <1> USE DEF ReceiveItem, Receive, Goto, working
  <1>0. /\ pc[r] = "idle" /\ pc'[r] = op
        /\ request'[r].user = u /\ request'[r].op = op /\ request'[r].card = i
        /\ op = "prefer" => request'[r].preferred
        /\ \A q \in Requests \ {r} : pc'[q] = pc[q] /\ request'[q] = request[q]
        /\ UNCHANGED <<cards, nextCard, rowLock, newId, toClear, cleared>>
    BY DEF IInv, TypeOK
  <1>1. TypeOK'
    BY LimitAssumption DEF IInv, TypeOK, BeforeRow, CardIds
  <1> HIDE DEF ReceiveItem, Receive, Goto
  <1>2. RequestsComplete' /\ NoRowsAhead'
    BY <1>0 DEF IInv, RequestsComplete, NoRowsAhead, BeforeInsert, BeforeRow, InTrigger
  <1>3. TriggersOnOwnRow' /\ FindsOwnRows' /\ ClearsOwnRows'
    BY <1>0 DEF IInv, TriggersOnOwnRow, FindsOwnRows, ClearsOwnRows, InTrigger, BeforeRow
  <1>6. IdsSuffice'
    <2>1. Inserting' \subseteq Inserting
      BY <1>0 DEF Inserting, BeforeInsert, BeforeRow
    <2> QED
      BY <1>0, <2>1, IdsStillSuffice DEF IInv
  <1>7. LimitWithAdding'
    <2>1. \A w \in Users : CardsOf(w)' \subseteq CardsOf(w) /\ Adding(w)' \subseteq Adding(w)
      BY <1>0 DEF CardsOf, Adding, InTrigger, BeforeRow
    <2> QED
      BY <2>1, LimitShrinks DEF IInv
  <1> QED
    BY <1>1, <1>2, <1>3, <1>6, <1>7 DEF IInv

\* addCard goes on to its next statement.
LEMMA AdvanceIInv ==
  ASSUME IInv, NEW r \in Requests, NEW label \in BeforeInsert, NEW preferred \in BOOLEAN,
         pc[r] \in BeforeInsert,
         UNCHANGED request \/ request' = [request EXCEPT ![r].preferred = preferred],
         Goto(r, label),
         UNCHANGED <<cards, nextCard, rowLock, working>>
  PROVE  IInv'
  <1> USE DEF Goto, working
  <1>0. /\ pc'[r] = label
        /\ request'[r].user = request[r].user /\ request'[r].op = request[r].op
        /\ \A q \in Requests \ {r} : pc'[q] = pc[q] /\ request'[q] = request[q]
        /\ UNCHANGED <<cards, nextCard, rowLock, newId, toClear, cleared>>
    BY DEF IInv, TypeOK
  <1>1. TypeOK'
    <2>1. request' \in [Requests -> [op : {"none", "add", "prefer", "remove", "rename"},
                                     user : Users \cup {Nobody}, card : 0..MaxCards,
                                     preferred : BOOLEAN]]
      <3>1. CASE UNCHANGED request
        BY <3>1 DEF IInv, TypeOK
      <3>2. CASE request' = [request EXCEPT ![r].preferred = preferred]
        BY <3>2 DEF IInv, TypeOK
      <3> QED
        BY <3>1, <3>2
    <2> QED
      BY <2>1 DEF IInv, TypeOK, BeforeInsert
  <1> HIDE DEF Goto
  <1>2. RequestsComplete' /\ NoRowsAhead'
    BY <1>0 DEF IInv, RequestsComplete, NoRowsAhead, BeforeInsert, BeforeRow, InTrigger
  <1>3. TriggersOnOwnRow' /\ FindsOwnRows' /\ ClearsOwnRows'
    BY <1>0 DEF IInv, TriggersOnOwnRow, FindsOwnRows, ClearsOwnRows, InTrigger, BeforeInsert
  <1>6. IdsSuffice'
    <2>1. Inserting' \subseteq Inserting
      BY <1>0 DEF Inserting
    <2> QED
      BY <1>0, <2>1, IdsStillSuffice DEF IInv
  <1>7. LimitWithAdding'
    <2>1. \A w \in Users : CardsOf(w)' \subseteq CardsOf(w) /\ Adding(w)' \subseteq Adding(w)
      BY <1>0 DEF CardsOf, Adding, InTrigger, BeforeInsert
    <2> QED
      BY <2>1, LimitShrinks DEF IInv
  <1> QED
    BY <1>1, <1>2, <1>3, <1>6, <1>7 DEF IInv

\* INSERT passes the limit's trigger with an id of its own: while the table holds
\* fewer than Limit cards of the user, whoever else is adding one.
LEMMA PassLimitIInv ==
  ASSUME IInv, NEW r \in Requests, pc[r] = "limit", ~AtLimit(request[r].user),
         nextCard' = nextCard + 1,
         newId' = [newId EXCEPT ![r] = nextCard],
         Goto(r, "trigger"),
         UNCHANGED <<cards, rowLock, request, toClear, cleared>>
  PROVE  IInv'
  <1> USE DEF Goto
  <1>a. nextCard \in 1..MaxCards /\ MaxCards \in Nat
    BY IdTaken DEF IInv
  <1>0. /\ pc'[r] = "trigger" /\ newId'[r] = nextCard
        /\ \A q \in Requests \ {r} : pc'[q] = pc[q] /\ newId'[q] = newId[q]
        /\ request[r].op = "add" /\ request[r].user \in Users
        /\ cards[nextCard] = NoCard
        /\ toClear[r] = {} /\ cleared[r] = {}
    BY <1>a DEF IInv, TypeOK, RequestsComplete, BeforeInsert, NoRowsAhead, CardIds, FindsOwnRows,
                ClearsOwnRows
  <1>b. \A q \in Requests : newId[q] < nextCard
    <2>1. ASSUME NEW q \in Requests, pc[q] \in InTrigger, request[q].op = "prefer"
          PROVE  newId[q] < nextCard
      <3>1. newId[q] \in CardIds /\ cards[newId[q]].user \in Users
        BY <2>1 DEF IInv, RequestsComplete, TriggersOnOwnRow, InTrigger
      <3>2. cards[newId[q]] # NoCard
        BY <3>1, NobodyAssumption DEF NoCard
      <3> QED
        BY <1>a, <3>1, <3>2 DEF IInv, NoRowsAhead, CardIds
    <2> QED
      BY <1>a, <2>1 DEF IInv, RequestsComplete, TriggersOnOwnRow
  <1>1. TypeOK'
    BY <1>a DEF IInv, TypeOK
  <1> HIDE DEF Goto
  <1>2. RequestsComplete' /\ NoRowsAhead'
    BY <1>0, <1>a DEF IInv, RequestsComplete, NoRowsAhead, BeforeInsert, BeforeRow, InTrigger, CardIds
  <1>3. TriggersOnOwnRow'
    <2>1. ASSUME NEW q \in Requests, q # r, pc'[q] \in InTrigger
          PROVE  \/ /\ request'[q].op = "add"
                    /\ newId'[q] < nextCard'
                    /\ cards'[newId'[q]] = NoCard
                    /\ \A x \in Requests : newId'[x] = newId'[q] => x = q
                 \/ /\ request'[q].op = "prefer"
                    /\ request'[q].preferred
                    /\ rowLock'[newId'[q]] = q
                    /\ cards'[newId'[q]].user = request'[q].user
      BY <1>0, <1>a, <1>b, <2>1 DEF IInv, TypeOK, TriggersOnOwnRow
    <2>2. \A x \in Requests : newId'[x] = newId'[r] => x = r
      BY <1>0, <1>a, <1>b
    <2> QED
      BY <1>0, <1>a, <2>1, <2>2 DEF TriggersOnOwnRow
  <1>4. FindsOwnRows'
    BY <1>0, <1>a DEF IInv, TypeOK, FindsOwnRows, CardIds
  <1>5. ClearsOwnRows'
    BY <1>0 DEF IInv, ClearsOwnRows
  <1>6. IdsSuffice'
    <2>1. Inserting' = Inserting \ {r}
      BY <1>0 DEF Inserting, BeforeInsert
    <2>2. Cardinality(Inserting \ {r}) + (nextCard + 1) <= MaxCards + 1
      BY IdTaken DEF IInv
    <2>3. Cardinality(Inserting \ {r}) + nextCard' <= MaxCards + 1
      BY <2>2
    <2> QED
      BY <2>1, <2>3 DEF IdsSuffice
  <1>7. LimitWithAdding'
    <2> SUFFICES ASSUME NEW u \in Users
                 PROVE  Cardinality(CardsOf(u)') + Cardinality(Adding(u)')
                          <= Limit - 1 + Cardinality(Requests)
      BY DEF LimitWithAdding
    <2>1. CardsOf(u)' = CardsOf(u)
      BY DEF CardsOf
    <2>2. IsFiniteSet(Adding(u)) /\ Cardinality(Adding(u)) \in Nat /\ Cardinality(Requests) \in Nat
      BY RequestsFinite DEF Adding
    <2>3. CASE u = request[r].user
      <3>1. Cardinality(CardsOf(u)) \in Nat
        BY CardsFinite DEF CardsOf
      <3>2. Cardinality(CardsOf(u)) <= Limit - 1
        BY <2>3, <3>1, LimitAssumption DEF AtLimit
      <3>3. Adding(u)' \subseteq Requests
        BY DEF Adding
      <3>4. Cardinality(Adding(u)') <= Cardinality(Requests) /\ Cardinality(Adding(u)') \in Nat
        BY <3>3, RequestsFinite
      <3> QED
        BY <2>1, <2>2, <3>1, <3>2, <3>4, LimitAssumption
    <2>4. CASE u # request[r].user
      <3>1. Adding(u)' = Adding(u)
        BY <1>0, <2>4 DEF Adding
      <3> QED
        BY <2>1, <3>1 DEF IInv, LimitWithAdding
    <2> QED
      BY <2>3, <2>4
  <1> QED
    BY <1>1, <1>2, <1>3, <1>4, <1>5, <1>6, <1>7 DEF IInv

\* UPDATE locks a row of the user that nobody holds.
LEMMA LockTargetIInv ==
  ASSUME IInv, NEW r \in Requests, LockTarget(r)
  PROVE  IInv'
  <1> USE DEF LockTarget, Goto, Found, Free
  <1>0. PICK i \in CardIds :
          /\ i = request[r].card
          /\ pc[r] = "prefer" /\ pc'[r] = "trigger" /\ newId'[r] = i
          /\ request[r].op = "prefer" /\ request[r].preferred /\ request[r].user \in Users
          /\ cards[i].user = request[r].user
          /\ rowLock' = [rowLock EXCEPT ![i] = r]
          /\ rowLock[i] = Nobody
          /\ newId[r] = 0 /\ toClear[r] = {} /\ cleared[r] = {}
          /\ \A q \in Requests \ {r} : pc'[q] = pc[q] /\ newId'[q] = newId[q]
    <2>1. request[r].card \in CardIds
      BY DEF IInv, RequestsComplete, BeforeRow
    <2>2. rowLock[request[r].card] = Nobody
      BY <2>1 DEF IInv, TypeOK
    <2>3. toClear[r] = {} /\ cleared[r] = {}
      BY DEF IInv, FindsOwnRows, ClearsOwnRows
    <2>4. /\ pc'[r] = "trigger" /\ newId'[r] = request[r].card
          /\ \A q \in Requests \ {r} : pc'[q] = pc[q] /\ newId'[q] = newId[q]
      BY DEF IInv, TypeOK
    <2>5. newId[r] = 0 /\ request[r].op = "prefer" /\ request[r].preferred /\ request[r].user \in Users
      BY DEF IInv, RequestsComplete, BeforeRow, InTrigger
    <2> QED
      BY <2>1, <2>2, <2>3, <2>4, <2>5
  <1>a. cards[i] # NoCard
    BY <1>0, NobodyAssumption DEF NoCard
  <1>c. UNCHANGED <<cards, nextCard, request, toClear, cleared>>
    OBVIOUS
  <1>1. TypeOK'
    BY <1>0, NobodyAssumption DEF IInv, TypeOK, CardIds
  <1>b. \A j \in CardIds : j # i => rowLock'[j] = rowLock[j]
    BY <1>0
  <1>d. rowLock'[i] = r
    BY <1>0 DEF IInv, TypeOK
  <1> HIDE DEF LockTarget, Goto, Found, Free
  <1>2. RequestsComplete' /\ NoRowsAhead'
    BY <1>0, <1>c DEF IInv, RequestsComplete, NoRowsAhead, BeforeInsert, BeforeRow, InTrigger
  <1>3. TriggersOnOwnRow'
    <2>1. \A q \in Requests \ {r} : pc[q] \in InTrigger => newId[q] # i
      BY <1>0, <1>a, NobodyAssumption DEF IInv, TriggersOnOwnRow, InTrigger
    <2>2. ASSUME NEW q \in Requests, q # r, pc'[q] \in InTrigger
          PROVE  \/ /\ request'[q].op = "add"
                    /\ newId'[q] < nextCard'
                    /\ cards'[newId'[q]] = NoCard
                    /\ \A x \in Requests : newId'[x] = newId'[q] => x = q
                 \/ /\ request'[q].op = "prefer"
                    /\ request'[q].preferred
                    /\ rowLock'[newId'[q]] = q
                    /\ cards'[newId'[q]].user = request'[q].user
      <3>1. pc[q] \in InTrigger /\ newId[q] \in CardIds /\ newId[q] # i
        BY <1>0, <2>1, <2>2 DEF IInv, RequestsComplete
      <3> QED
        BY <1>0, <1>b, <1>c, <2>2, <3>1 DEF IInv, TriggersOnOwnRow
    <2> QED
      BY <1>0, <1>c, <1>d, <2>2 DEF TriggersOnOwnRow
  <1>4. FindsOwnRows'
    BY <1>0, <1>c DEF IInv, FindsOwnRows, InTrigger
  <1>5. ClearsOwnRows'
    <2>1. \A q \in Requests : \A j \in cleared[q] : j # i /\ j \in CardIds
      BY <1>0, NobodyAssumption DEF IInv, TypeOK, ClearsOwnRows
    <2> QED
      BY <1>0, <1>b, <1>c, <2>1 DEF IInv, ClearsOwnRows
  <1>6. IdsSuffice'
    <2>1. Inserting' \subseteq Inserting
      BY <1>0 DEF Inserting, BeforeInsert
    <2> QED
      BY <1>c, <2>1, IdsStillSuffice DEF IInv
  <1>7. LimitWithAdding'
    <2>1. \A u \in Users : CardsOf(u)' \subseteq CardsOf(u) /\ Adding(u)' \subseteq Adding(u)
      BY <1>0, <1>c DEF CardsOf, Adding
    <2> QED
      BY <2>1, LimitShrinks DEF IInv
  <1> QED
    BY <1>1, <1>2, <1>3, <1>4, <1>5, <1>6, <1>7 DEF IInv

\* DELETE takes a row of the user that nobody holds.
LEMMA RemoveIInv ==
  ASSUME IInv, NEW r \in Requests, Remove(r)
  PROVE  IInv'
  <1> USE DEF Remove, Answer, Unlocked, Found, Free
  <1>0. PICK i \in CardIds : i = request[r].card /\ rowLock[i] = Nobody /\ cards[i].user \in Users
    <2>1. request[r].card \in CardIds /\ request[r].user \in Users
      BY DEF IInv, RequestsComplete, BeforeRow
    <2> QED
      BY <2>1 DEF IInv, TypeOK
  <1>a. /\ pc[r] = "remove" /\ pc'[r] = "idle" /\ newId'[r] = 0 /\ toClear'[r] = {} /\ cleared'[r] = {}
        /\ \A q \in Requests \ {r} : pc'[q] = pc[q] /\ request'[q] = request[q] /\ newId'[q] = newId[q]
                                       /\ toClear'[q] = toClear[q] /\ cleared'[q] = cleared[q]
        /\ UNCHANGED nextCard
    BY DEF IInv, TypeOK
  <1>b. /\ cards'[i] = NoCard
        /\ \A j \in CardIds : cards'[j] \in {cards[j], NoCard} /\ (j # i => cards'[j] = cards[j])
    BY <1>0 DEF IInv, TypeOK
  <1>c. \A j \in CardIds : rowLock'[j] = rowLock[j]
    BY DEF IInv, TypeOK
  <1>1. TypeOK'
    <2>1. NoRequest \in [op : {"none", "add", "prefer", "remove", "rename"},
                         user : Users \cup {Nobody}, card : 0..MaxCards, preferred : BOOLEAN]
      BY LimitAssumption DEF NoRequest
    <2>2. 0 \in 0..MaxCards /\ NoCard \in [user : Users \cup {Nobody}, preferred : BOOLEAN]
      BY LimitAssumption DEF NoCard
    <2>3. cards' \in [CardIds -> [user : Users \cup {Nobody}, preferred : BOOLEAN]]
      BY <1>0, <2>2 DEF IInv, TypeOK
    <2> QED
      BY <1>a, <1>c, <2>1, <2>2, <2>3, NobodyAssumption DEF IInv, TypeOK
  <1> HIDE DEF Remove, Answer, Unlocked, Found, Free
  <1>2. RequestsComplete' /\ NoRowsAhead'
    BY <1>a, <1>b DEF IInv, RequestsComplete, NoRowsAhead, BeforeInsert, BeforeRow, InTrigger
  <1>3. TriggersOnOwnRow'
    <2>1. ASSUME NEW q \in Requests, pc'[q] \in InTrigger
          PROVE  /\ q # r /\ pc[q] \in InTrigger /\ newId'[q] = newId[q] /\ newId[q] \in CardIds
                 /\ rowLock[newId[q]] = q => newId[q] # i
                 /\ \A x \in Requests : newId'[x] = newId'[q] => newId[x] = newId[q]
      <3>1. q # r /\ pc[q] \in InTrigger /\ newId'[q] = newId[q] /\ newId[q] \in CardIds
        BY <1>a, <2>1 DEF IInv, RequestsComplete, InTrigger
      <3>2. newId[q] # 0
        BY <3>1 DEF CardIds
      <3> QED
        BY <1>0, <1>a, <3>1, <3>2, NobodyAssumption
    <2> QED
      BY <1>a, <1>b, <1>c, <2>1 DEF IInv, TriggersOnOwnRow
  <1>4. FindsOwnRows'
    <2>1. \A q \in Requests : toClear[q] \subseteq CardIds
      BY DEF IInv, TypeOK
    <2> QED
      BY <1>a, <1>b, <2>1 DEF IInv, FindsOwnRows, InTrigger
  <1>5. ClearsOwnRows'
    <2>1. \A q \in Requests : \A j \in cleared[q] : j # i /\ j \in CardIds
      BY <1>0, NobodyAssumption DEF IInv, TypeOK, ClearsOwnRows
    <2> QED
      BY <1>a, <1>b, <1>c, <2>1 DEF IInv, ClearsOwnRows
  <1>6. IdsSuffice'
    <2>1. Inserting' \subseteq Inserting
      BY <1>a DEF Inserting, BeforeInsert
    <2> QED
      BY <1>a, <2>1, IdsStillSuffice DEF IInv
  <1>7. LimitWithAdding'
    <2>1. \A u \in Users : CardsOf(u)' \subseteq CardsOf(u) /\ Adding(u)' \subseteq Adding(u)
      BY <1>a, <1>b, NobodyAssumption DEF CardsOf, Adding, InTrigger, NoCard
    <2> QED
      BY <2>1, LimitShrinks DEF IInv
  <1> QED
    BY <1>1, <1>2, <1>3, <1>4, <1>5, <1>6, <1>7 DEF IInv

\* The trigger's UPDATE finds rows that are in the table, of the user.
LEMMA PreferredTriggerIInv ==
  ASSUME IInv, NEW r \in Requests, PreferredTrigger(r)
  PROVE  IInv'
  <1> USE DEF PreferredTrigger, Goto
  <1>0. /\ pc[r] = "trigger" /\ pc'[r] = "clear" /\ request[r].user \in Users
        /\ toClear'[r] \subseteq PreferredOf(request[r].user) \ {newId[r]}
        /\ \A q \in Requests \ {r} : pc'[q] = pc[q] /\ toClear'[q] = toClear[q]
        /\ UNCHANGED <<cards, nextCard, rowLock, request, newId, cleared>>
    BY DEF IInv, TypeOK, RequestsComplete
  <1>a. \A i \in toClear'[r] :
          /\ i \in CardIds /\ i # newId[r]
          /\ cards[i].user = request[r].user /\ cards[i] # NoCard
          /\ i < nextCard
    <2>1. \A i \in toClear'[r] :
            i \in CardIds /\ i # newId[r] /\ cards[i].user = request[r].user
      BY <1>0 DEF PreferredOf, CardsOf
    <2>2. \A i \in toClear'[r] : cards[i] # NoCard
      BY <1>0, <2>1, NobodyAssumption DEF NoCard
    <2>3. nextCard \in Nat /\ CardIds \subseteq Nat
      BY DEF IInv, TypeOK, CardIds
    <2>4. \A i \in CardIds : cards[i] # NoCard => i < nextCard
      BY <2>3 DEF IInv, NoRowsAhead
    <2> QED
      BY <2>1, <2>2, <2>4
  <1>1. TypeOK'
    BY <1>0 DEF IInv, TypeOK, PreferredOf, CardsOf
  <1> HIDE DEF PreferredTrigger, Goto
  <1>2. RequestsComplete' /\ NoRowsAhead' /\ TriggersOnOwnRow'
    BY <1>0 DEF IInv, RequestsComplete, NoRowsAhead, TriggersOnOwnRow, BeforeInsert, BeforeRow, InTrigger
  <1>4. FindsOwnRows'
    <2>1. ASSUME NEW q \in Requests, pc[q] \in InTrigger, request[q].op = "add",
                 NEW i \in toClear'[r]
          PROVE  newId[q] # i
      BY <1>a, <2>1 DEF IInv, TriggersOnOwnRow
    <2>2. \A q \in Requests : pc'[q] \in InTrigger <=> pc[q] \in InTrigger
      BY <1>0 DEF InTrigger
    <2> QED
      BY <1>0, <1>a, <2>1, <2>2 DEF IInv, FindsOwnRows
  <1>5. ClearsOwnRows'
    BY <1>0 DEF IInv, ClearsOwnRows
  <1>6. IdsSuffice'
    <2>1. Inserting' \subseteq Inserting
      BY <1>0 DEF Inserting, BeforeInsert
    <2> QED
      BY <1>0, <2>1, IdsStillSuffice DEF IInv
  <1>7. LimitWithAdding'
    <2>1. \A u \in Users : CardsOf(u)' \subseteq CardsOf(u) /\ Adding(u)' \subseteq Adding(u)
      BY <1>0 DEF CardsOf, Adding, InTrigger
    <2> QED
      BY <2>1, LimitShrinks DEF IInv
  <1> QED
    BY <1>1, <1>2, <1>4, <1>5, <1>6, <1>7 DEF IInv

\* The trigger's UPDATE skips a row that is gone, and locks one that is not.
LEMMA ClearRowIInv ==
  ASSUME IInv, NEW r \in Requests, NEW i \in CardIds, ClearRow(r, i)
  PROVE  IInv'
  <1> USE DEF ClearRow, Free
  <1>0. /\ pc[r] = "clear" /\ i \in toClear[r]
        /\ toClear'[r] = toClear[r] \ {i}
        /\ \A q \in Requests \ {r} : toClear'[q] = toClear[q] /\ cleared'[q] = cleared[q]
        /\ UNCHANGED <<cards, nextCard, pc, request, newId>>
    BY DEF IInv, TypeOK
  <1>a. /\ \A j \in CardIds : rowLock'[j] = rowLock[j] \/ (rowLock[j] = Nobody /\ rowLock'[j] = r)
        /\ cleared'[r] \subseteq cleared[r] \cup {i}
        /\ i \in cleared'[r] /\ i \notin cleared[r] => rowLock'[i] = r /\ cards[i] # NoCard
        /\ rowLock' \in [CardIds -> Requests \cup {Nobody}]
        /\ cleared' \in [Requests -> SUBSET CardIds]
    <2>1. CASE cards[i] = NoCard
      BY <2>1 DEF IInv, TypeOK
    <2>2. CASE cards[i] # NoCard
      <3>1. rowLock' = [rowLock EXCEPT ![i] = r] /\ rowLock[i] \in {Nobody, r}
        BY <2>2
      <3>2. cleared' = [cleared EXCEPT ![r] = @ \cup {i}] \/ UNCHANGED cleared
        BY <2>2 DEF IInv, TypeOK
      <3> HIDE DEF ClearRow, Free
      <3> QED
        BY <2>2, <3>1, <3>2 DEF IInv, TypeOK
    <2> QED
      BY <2>1, <2>2
  <1>1. TypeOK'
    <2>1. toClear' \in [Requests -> SUBSET CardIds]
      BY DEF IInv, TypeOK
    <2>2. \A j \in CardIds : rowLock'[j] # Nobody => pc'[rowLock'[j]] \in {"trigger", "clear"}
      BY <1>0, <1>a DEF IInv, TypeOK
    <2> QED
      BY <1>0, <1>a, <2>1, <2>2 DEF IInv, TypeOK
  <1> HIDE DEF ClearRow, Free
  <1>2. RequestsComplete' /\ NoRowsAhead'
    BY <1>0 DEF IInv, RequestsComplete, NoRowsAhead
  <1>3. TriggersOnOwnRow'
    BY <1>0, <1>a, NobodyAssumption DEF IInv, RequestsComplete, TriggersOnOwnRow
  <1>4. FindsOwnRows'
    BY <1>0 DEF IInv, FindsOwnRows
  <1>5. ClearsOwnRows'
    <2>1. \A q \in Requests : \A j \in cleared[q] : j \in CardIds /\ rowLock'[j] = q
      BY <1>a, NobodyAssumption DEF IInv, TypeOK, ClearsOwnRows
    <2>2. i # newId[r] /\ (cards[i] = NoCard \/ cards[i].user = request[r].user)
      BY <1>0 DEF IInv, FindsOwnRows
    <2> QED
      BY <1>0, <1>a, <2>1, <2>2 DEF IInv, ClearsOwnRows
  <1>6. IdsSuffice'
    BY <1>0 DEF IInv, IdsSuffice, Inserting
  <1>7. LimitWithAdding'
    <2>1. \A u \in Users : CardsOf(u)' \subseteq CardsOf(u) /\ Adding(u)' \subseteq Adding(u)
      BY <1>0 DEF CardsOf, Adding
    <2> QED
      BY <2>1, LimitShrinks DEF IInv
  <1> QED
    BY <1>1, <1>2, <1>3, <1>4, <1>5, <1>6, <1>7 DEF IInv

\* What Commit writes: the row of the request, and of others only that a card of
\* the same user is not preferred any more.
LEMMA CommitWrites ==
  ASSUME IInv, NEW r \in Requests, Commit(r)
  PROVE  /\ newId[r] \in CardIds /\ request[r].user \in Users
         /\ cards'[newId[r]] = [user |-> request[r].user, preferred |-> request[r].preferred]
         /\ \A i \in CardIds : i # newId[r] /\ i \notin cleared[r] => cards'[i] = cards[i]
         /\ \A i \in cleared[r] : i \in CardIds /\ cards[i].user = request[r].user
         /\ \A i \in CardIds : i # newId[r] => cards'[i].user = cards[i].user
         /\ \A i \in CardIds : i # newId[r] /\ cards[i] = NoCard => cards'[i] = NoCard
         /\ cards' \in [CardIds -> [user : Users \cup {Nobody}, preferred : BOOLEAN]]
  <1> USE DEF Commit
  <1>1. newId[r] \in CardIds /\ request[r].user \in Users /\ request[r].preferred \in BOOLEAN
    BY DEF IInv, TypeOK, RequestsComplete, InTrigger
  <1>2. /\ \A i \in cleared[r] : i \in CardIds /\ i # newId[r] /\ cards[i].user = request[r].user
        /\ \A i \in CardIds : cards[i] \in [user : Users \cup {Nobody}, preferred : BOOLEAN]
    BY DEF IInv, TypeOK, ClearsOwnRows
  <1>3. ASSUME NEW i \in cleared[r]
        PROVE  /\ cards'[i].user = cards[i].user
               /\ cards'[i] \in [user : Users \cup {Nobody}, preferred : BOOLEAN]
               /\ cards[i] # NoCard
    <2>1. i \in CardIds /\ i # newId[r] /\ cards[i].user \in Users
      BY <1>1, <1>2
    <2>2. cards'[i] = [cards[i] EXCEPT !.preferred = FALSE]
      BY <2>1
    <2>3. cards[i] \in [user : Users \cup {Nobody}, preferred : BOOLEAN]
      BY <1>2, <2>1
    <2> HIDE DEF Commit
    <2>4. cards[i] # NoCard
      BY <2>1, NobodyAssumption DEF NoCard
    <2>5. cards'[i] = [user |-> cards[i].user, preferred |-> FALSE]
      BY <2>2, <2>3
    <2> QED
      BY <2>1, <2>4, <2>5
  <1>4. \A i \in CardIds : i # newId[r] /\ i \notin cleared[r] => cards'[i] = cards[i]
    OBVIOUS
  <1>5. cards'[newId[r]] = [user |-> request[r].user, preferred |-> request[r].preferred]
    BY <1>1
  <1>6. cards' = [i \in CardIds |-> cards'[i]]
    OBVIOUS
  <1> HIDE DEF Commit
  <1>7. ASSUME NEW i \in CardIds
        PROVE  cards'[i] \in [user : Users \cup {Nobody}, preferred : BOOLEAN]
    <2>1. CASE i = newId[r]
      BY <1>1, <1>5, <2>1
    <2>2. CASE i # newId[r]
      BY <1>2, <1>3, <1>4, <2>2
    <2> QED
      BY <2>1, <2>2
  <1>8. \A i \in CardIds : i # newId[r] => cards'[i].user = cards[i].user
    BY <1>3, <1>4
  <1>9. \A i \in CardIds : i # newId[r] /\ cards[i] = NoCard => cards'[i] = NoCard
    BY <1>3, <1>4
  <1> QED
    BY <1>1, <1>2, <1>4, <1>5, <1>6, <1>7, <1>8, <1>9

\* The row committed is nobody else's: no other request locked it, inserts it, or
\* found it as a card of another user.
LEMMA CommitIInv ==
  ASSUME IInv, NEW r \in Requests, Commit(r)
  PROVE  IInv'
  <1> USE DEF Commit, Answer, Unlocked
  <1>0. /\ pc[r] = "clear"
        /\ pc'[r] = "idle" /\ newId'[r] = 0 /\ toClear'[r] = {} /\ cleared'[r] = {}
        /\ \A q \in Requests \ {r} : pc'[q] = pc[q] /\ request'[q] = request[q] /\ newId'[q] = newId[q]
                                       /\ toClear'[q] = toClear[q] /\ cleared'[q] = cleared[q]
        /\ \A i \in CardIds : rowLock[i] # r => rowLock'[i] = rowLock[i]
        /\ \A i \in CardIds : rowLock[i] = r => rowLock'[i] = Nobody
        /\ UNCHANGED nextCard
    BY DEF IInv, TypeOK
  <1>w. /\ newId[r] \in CardIds /\ request[r].user \in Users
        /\ cards'[newId[r]].user = request[r].user
        /\ \A i \in CardIds : i # newId[r] => cards'[i].user = cards[i].user
        /\ \A i \in CardIds : i # newId[r] /\ cards[i] = NoCard => cards'[i] = NoCard
        /\ cards' \in [CardIds -> [user : Users \cup {Nobody}, preferred : BOOLEAN]]
    <2> HIDE DEF Commit
    <2>1. cards'[newId[r]] = [user |-> request[r].user, preferred |-> request[r].preferred]
      BY CommitWrites
    <2>2. cards'[newId[r]].user = request[r].user
      BY <2>1
    <2> QED
      BY <2>2, CommitWrites
  <1>a. \/ /\ request[r].op = "add"
           /\ newId[r] < nextCard
           /\ cards[newId[r]] = NoCard
           /\ \A q \in Requests : newId[q] = newId[r] => q = r
        \/ /\ request[r].op = "prefer"
           /\ rowLock[newId[r]] = r
           /\ cards[newId[r]].user = request[r].user
           /\ cards[newId[r]] # NoCard
    <2>1. cards[newId[r]].user = request[r].user => cards[newId[r]] # NoCard
      BY <1>w, NobodyAssumption DEF NoCard
    <2>2. pc[r] \in InTrigger
      BY <1>0 DEF InTrigger
    <2> HIDE DEF Commit, Answer, Unlocked
    <2> QED
      BY <2>1, <2>2 DEF IInv, TriggersOnOwnRow
  <1>1. TypeOK'
    <2>1. NoRequest \in [op : {"none", "add", "prefer", "remove", "rename"},
                         user : Users \cup {Nobody}, card : 0..MaxCards, preferred : BOOLEAN]
      BY LimitAssumption DEF NoRequest
    <2>2. 0 \in 0..MaxCards
      BY LimitAssumption
    <2>3. cards' \in [CardIds -> [user : Users \cup {Nobody}, preferred : BOOLEAN]]
      BY <1>w
    <2> HIDE DEF Commit
    <2>4. /\ nextCard' = nextCard
          /\ pc' = [pc EXCEPT ![r] = "idle"] /\ request' = [request EXCEPT ![r] = NoRequest]
          /\ newId' = [newId EXCEPT ![r] = 0] /\ toClear' = [toClear EXCEPT ![r] = {}]
          /\ cleared' = [cleared EXCEPT ![r] = {}] /\ rowLock' = Unlocked(r)
      BY DEF Commit
    <2> QED
      BY <1>0, <2>1, <2>2, <2>3, <2>4, NobodyAssumption DEF IInv, TypeOK
  <1> HIDE DEF Commit, Answer, Unlocked
  <1>2. RequestsComplete'
    BY <1>0 DEF IInv, RequestsComplete, BeforeInsert, BeforeRow, InTrigger
  <1>3. NoRowsAhead'
    <2>1. newId[r] < nextCard
      <3>1. nextCard \in Nat /\ newId[r] \in Nat
        BY DEF IInv, TypeOK
      <3>2. cards[newId[r]] # NoCard => newId[r] < nextCard
        BY <1>w, <3>1 DEF IInv, NoRowsAhead
      <3> QED
        BY <1>a, <3>2
    <2>2. nextCard \in Nat /\ newId[r] \in Nat /\ CardIds \subseteq Nat
      BY DEF IInv, TypeOK, CardIds
    <2>3. \A i \in CardIds : i >= nextCard => i # newId[r] /\ cards[i] = NoCard
      BY <2>1, <2>2 DEF IInv, NoRowsAhead
    <2> QED
      BY <1>0, <2>3, <1>w DEF NoRowsAhead
  <1>4. TriggersOnOwnRow'
    <2> SUFFICES ASSUME NEW q \in Requests, pc'[q] \in InTrigger
                 PROVE  \/ /\ request'[q].op = "add"
                           /\ newId'[q] < nextCard'
                           /\ cards'[newId'[q]] = NoCard
                           /\ \A x \in Requests : newId'[x] = newId'[q] => x = q
                        \/ /\ request'[q].op = "prefer"
                           /\ request'[q].preferred
                           /\ rowLock'[newId'[q]] = q
                           /\ cards'[newId'[q]].user = request'[q].user
      BY DEF TriggersOnOwnRow
    <2>1. q # r /\ pc[q] \in InTrigger /\ newId[q] \in CardIds /\ newId[q] # 0 /\ newId'[q] = newId[q]
      BY <1>0 DEF IInv, RequestsComplete, InTrigger, CardIds
    <2>2. CASE /\ request[q].op = "add"
               /\ newId[q] < nextCard
               /\ cards[newId[q]] = NoCard
               /\ \A x \in Requests : newId[x] = newId[q] => x = q
      <3>1. newId[q] # newId[r]
        BY <1>a, <2>1, <2>2
      <3> QED
        BY <1>0, <2>1, <2>2, <3>1, <1>w
    <2>3. CASE /\ request[q].op = "prefer"
               /\ request[q].preferred
               /\ rowLock[newId[q]] = q
               /\ cards[newId[q]].user = request[q].user
      <3>1. newId[q] # newId[r]
        BY <1>a, <2>1, <2>3
      <3> QED
        BY <1>0, <2>1, <2>3, <3>1, <1>w
    <2> QED
      BY <2>1, <2>2, <2>3 DEF IInv, TriggersOnOwnRow
  <1>5. FindsOwnRows'
    <2> SUFFICES ASSUME NEW q \in Requests, q # r, NEW i \in toClear[q]
                 PROVE  cards'[i] = NoCard \/ cards'[i].user = request[q].user
      BY <1>0 DEF IInv, FindsOwnRows, InTrigger
    <2>1. /\ i \in CardIds
          /\ cards[i] = NoCard \/ cards[i].user = request[q].user
          /\ request[r].op = "add" => newId[r] # i
      BY <1>0 DEF IInv, TypeOK, FindsOwnRows, InTrigger
    <2>2. CASE i = newId[r]
      BY <1>a, <2>1, <2>2, <1>w
    <2>3. CASE i # newId[r]
      BY <2>1, <2>3, <1>w
    <2> QED
      BY <2>2, <2>3
  <1>6. ClearsOwnRows'
    <2> SUFFICES ASSUME NEW q \in Requests, q # r, NEW i \in cleared[q]
                 PROVE  rowLock'[i] = q /\ cards'[i].user = request[q].user
      BY <1>0 DEF IInv, ClearsOwnRows
    <2>1. /\ i \in CardIds /\ rowLock[i] = q
          /\ cards[i].user = request[q].user /\ request[q].user \in Users
      BY DEF IInv, TypeOK, RequestsComplete, ClearsOwnRows
    <2>2. i # newId[r]
      BY <1>a, <2>1, NobodyAssumption DEF NoCard
    <2> QED
      BY <1>0, <2>1, <2>2, <1>w
  <1>7. IdsSuffice'
    <2>1. Inserting' \subseteq Inserting
      BY <1>0 DEF Inserting, BeforeInsert
    <2> QED
      BY <1>0, <2>1, IdsStillSuffice DEF IInv
  <1>8. LimitWithAdding'
    <2>1. \A u \in Users : Adding(u)' \subseteq Adding(u)
      BY <1>0 DEF Adding, InTrigger
    <2>2. \A u \in Users : u # request[r].user => CardsOf(u)' \subseteq CardsOf(u)
      BY <1>w DEF CardsOf
    <2>3. CASE request[r].op = "add"
      <3> SUFFICES ASSUME NEW u \in Users
                   PROVE  Cardinality(CardsOf(u)') + Cardinality(Adding(u)')
                            <= Limit - 1 + Cardinality(Requests)
        BY DEF LimitWithAdding
      <3>1. CardsOf(u) \subseteq CardIds /\ Adding(u) \subseteq Requests
        BY DEF CardsOf, Adding
      <3>2. IsFiniteSet(CardsOf(u)) /\ IsFiniteSet(Adding(u))
        BY <3>1, CardsFinite, RequestsFinite
      <3>3. /\ Cardinality(CardsOf(u)) \in Nat /\ Cardinality(Adding(u)) \in Nat
            /\ Limit \in Nat /\ Cardinality(Requests) \in Nat
        BY <3>1, CardsFinite, RequestsFinite, LimitAssumption
      <3>4. Cardinality(CardsOf(u)) + Cardinality(Adding(u)) <= Limit - 1 + Cardinality(Requests)
        BY DEF IInv, LimitWithAdding
      <3>5. CASE u = request[r].user
        <4>1. CardsOf(u)' = CardsOf(u) \cup {newId[r]} /\ newId[r] \notin CardsOf(u)
          BY <1>a, <2>3, <3>5, <1>w, NobodyAssumption DEF CardsOf, NoCard
        <4>2. Adding(u)' = Adding(u) \ {r} /\ r \in Adding(u)
          BY <1>0, <2>3, <3>5 DEF Adding, InTrigger
        <4>3. Cardinality(CardsOf(u)') = Cardinality(CardsOf(u)) + 1
          BY <3>2, <4>1, FS_AddElement
        <4>4. Cardinality(Adding(u)') = Cardinality(Adding(u)) - 1
          BY <3>2, <4>2, FS_RemoveElement
        <4> QED
          BY <3>3, <3>4, <4>3, <4>4
      <3>6. CASE u # request[r].user
        <4>1. Cardinality(CardsOf(u)') <= Cardinality(CardsOf(u)) /\ Cardinality(CardsOf(u)') \in Nat
          BY <2>2, <3>2, <3>6, SubsetsShrink
        <4>2. Cardinality(Adding(u)') <= Cardinality(Adding(u)) /\ Cardinality(Adding(u)') \in Nat
          BY <2>1, <3>2, SubsetsShrink
        <4> QED
          BY <3>3, <3>4, <4>1, <4>2
      <3> QED
        BY <3>5, <3>6
    <2>4. CASE request[r].op # "add"
      <3>1. \A u \in Users : CardsOf(u)' \subseteq CardsOf(u)
        BY <1>a, <2>2, <2>4, <1>w DEF CardsOf
      <3> QED
        BY <2>1, <3>1, LimitShrinks DEF IInv
    <2> QED
      BY <2>3, <2>4
  <1> QED
    BY <1>1, <1>2, <1>3, <1>4, <1>5, <1>6, <1>7, <1>8 DEF IInv

-----------------------------------------------------------------------------
LEMMA ArriveIInv ==
  ASSUME IInv, NEW r \in Requests, Arrive(r)
  PROVE  IInv'
  BY ReceiveAddIInv, ReceiveItemIInv DEF Arrive, BeforeRow

LEMMA ServeIInv ==
  ASSUME IInv, NEW r \in Requests, Serve(r)
  PROVE  IInv'
  <1>1. CASE CheckEligible(r)
    <2>1. CASE Answer(r)
      BY <1>1, <2>1, AnswerIInv DEF CheckEligible
    <2>2. CASE Goto(r, "count") /\ UNCHANGED <<rowLock, request, working>>
      BY <1>1, <2>2, AdvanceIInv DEF CheckEligible, BeforeInsert
    <2> QED
      BY <1>1, <2>1, <2>2 DEF CheckEligible
  <1>2. CASE CountCards(r)
    <2> DEFINE first == request[r].preferred \/ CardsOf(request[r].user) = {}
    <2>1. CASE Answer(r)
      BY <1>2, <2>1, AnswerIInv DEF CountCards
    <2>2. CASE /\ request' = [request EXCEPT ![r].preferred = first]
               /\ Goto(r, "limit")
               /\ UNCHANGED <<rowLock, working>>
      <3>1. first \in BOOLEAN
        BY DEF IInv, TypeOK
      <3> HIDE DEF first
      <3> QED
        BY <1>2, <2>2, <3>1, AdvanceIInv DEF CountCards, BeforeInsert
    <2> QED
      BY <1>2, <2>1, <2>2 DEF CountCards
  <1>3. CASE LimitTrigger(r)
    BY <1>3, AnswerIInv, PassLimitIInv DEF LimitTrigger
  <1>4. CASE NotFound(r)
    BY <1>4, AnswerIInv DEF NotFound
  <1>5. CASE LockTarget(r)
    BY <1>5, LockTargetIInv
  <1>6. CASE Remove(r)
    BY <1>6, RemoveIInv
  <1>7. CASE Rename(r)
    BY <1>7, AnswerIInv DEF Rename
  <1>8. CASE PreferredTrigger(r)
    BY <1>8, PreferredTriggerIInv
  <1>9. CASE \E i \in CardIds : ClearRow(r, i)
    BY <1>9, ClearRowIInv
  <1>10. CASE Commit(r)
    BY <1>10, CommitIInv
  <1>11. CASE BreakDeadlock(r)
    BY <1>11, AnswerIInv DEF BreakDeadlock
  <1> QED
    BY <1>1, <1>2, <1>3, <1>4, <1>5, <1>6, <1>7, <1>8, <1>9, <1>10, <1>11 DEF Serve

LEMMA NextIInv ==
  ASSUME IInv, [Next]_vars
  PROVE  IInv'
  <1>1. CASE \E r \in Requests : Arrive(r) \/ Serve(r)
    BY <1>1, ArriveIInv, ServeIInv
  <1>2. CASE \E r \in Requests : Fail(r)
    BY <1>2, AnswerIInv DEF Fail
  <1>3. CASE UNCHANGED vars
    BY <1>3 DEF vars, working, IInv, TypeOK, RequestsComplete, NoRowsAhead, TriggersOnOwnRow,
                FindsOwnRows, ClearsOwnRows, IdsSuffice, Inserting, LimitWithAdding, CardsOf, Adding
  <1> QED
    BY <1>1, <1>2, <1>3 DEF Next

\* The table is written by a commit and a deletion, and by nothing else.
LEMMA TableWrites ==
  ASSUME [Next]_vars
  PROVE  UNCHANGED cards \/ \E r \in Requests : Remove(r) \/ Commit(r)
  BY DEF Next, Arrive, ReceiveAdd, ReceiveItem, Receive, Serve, CheckEligible, CountCards, LimitTrigger,
         NotFound, LockTarget, Rename, PreferredTrigger, ClearRow, BreakDeadlock, Fail, vars

\* The row a commit writes is new, or of the user and to be preferred.
LEMMA CommittedRow ==
  ASSUME IInv, NEW r \in Requests, Commit(r)
  PROVE  \/ request[r].op = "add" /\ cards[newId[r]] = NoCard
         \/ request[r].preferred /\ cards[newId[r]].user = request[r].user
  BY DEF Commit, IInv, TriggersOnOwnRow, InTrigger

-----------------------------------------------------------------------------
\* The inductive invariant of the statements on bank_cards and their triggers: who
\* holds which row, whose rows a trigger has found and changed, which id an INSERT
\* will use, and how many cards are still to come.
THEOREM Invariance == Spec => []IInv
  <1> QED
    BY InitIInv, NextIInv, PTL DEF Spec

\* The state is well typed, and only a statement in its trigger holds rows.
THEOREM TypeCorrectness == Spec => []TypeOK
  <1>1. IInv => TypeOK
    BY DEF IInv
  <1> QED
    BY Invariance, <1>1, PTL

\* enforce_bank_card_limit counts what is committed, so that additions in flight
\* may exceed the limit, but never by more than there are requests.
THEOREM LimitExceededByConcurrency == Spec => []LimitOvershoot
  <1>1. IInv => LimitOvershoot
    <2> SUFFICES ASSUME IInv, NEW u \in Users
                 PROVE  Cardinality(CardsOf(u)) <= Limit - 1 + Cardinality(Requests)
      BY DEF LimitOvershoot
    <2>1. CardsOf(u) \subseteq CardIds /\ Adding(u) \subseteq Requests
      BY DEF CardsOf, Adding
    <2>2. /\ Cardinality(CardsOf(u)) \in Nat /\ Cardinality(Adding(u)) \in Nat
          /\ Limit \in Nat /\ Cardinality(Requests) \in Nat
      BY <2>1, CardsFinite, RequestsFinite, LimitAssumption
    <2>3. Cardinality(CardsOf(u)) + Cardinality(Adding(u)) <= Limit - 1 + Cardinality(Requests)
      BY DEF IInv, LimitWithAdding
    <2> QED
      BY <2>2, <2>3
  <1> QED
    BY Invariance, <1>1, PTL

\* Whatever card id a request names, it changes cards of its own user only: the
\* WHERE clauses look at user_id, and the trigger at NEW.user_id.
THEOREM RequestsKeepToTheirUser == Spec => OwnCardsOnly
  <1> DEFINE Owned(i) ==
               cards'[i] # cards[i] =>
                 \E r \in Requests :
                   /\ pc'[r] # pc[r]
                   /\ request[r].user \in {cards[i].user, cards'[i].user}
                   /\ {cards[i].user, cards'[i].user} \subseteq {request[r].user, Nobody}
  <1>1. ASSUME IInv, [Next]_vars, NEW i \in CardIds
        PROVE  Owned(i)
    <2> SUFFICES ASSUME cards'[i] # cards[i]
                 PROVE  \E r \in Requests :
                          /\ pc'[r] # pc[r]
                          /\ request[r].user \in {cards[i].user, cards'[i].user}
                          /\ {cards[i].user, cards'[i].user} \subseteq {request[r].user, Nobody}
      OBVIOUS
    <2>1. CASE \E r \in Requests : Remove(r)
      <3>1. PICK r \in Requests : Remove(r)
        BY <2>1
      <3>2. pc'[r] # pc[r]
        BY <1>1, <3>1 DEF Remove, Answer, IInv, TypeOK
      <3>3. i = request[r].card /\ cards[i].user = request[r].user /\ cards'[i] = NoCard
        BY <1>1, <3>1 DEF Remove, Found, IInv, TypeOK, RequestsComplete, BeforeRow
      <3> QED
        BY <3>2, <3>3 DEF NoCard
    <2>2. CASE \E r \in Requests : Commit(r)
      <3>1. PICK r \in Requests : Commit(r)
        BY <2>2
      <3>2. pc'[r] # pc[r]
        BY <1>1, <3>1 DEF Commit, Answer, IInv, TypeOK
      <3>3. /\ i # newId[r] => cards[i].user = request[r].user /\ cards'[i].user = request[r].user
            /\ cards'[newId[r]] = [user |-> request[r].user, preferred |-> request[r].preferred]
        BY <1>1, <3>1, CommitWrites
      <3>4. cards'[newId[r]].user = request[r].user
        BY <3>3
      <3>5. cards[newId[r]].user \in {request[r].user, Nobody}
        BY <1>1, <3>1, CommittedRow DEF NoCard
      <3> QED
        BY <3>2, <3>3, <3>4, <3>5
    <2> QED
      BY <1>1, <2>1, <2>2, TableWrites
  <1>2. ASSUME IInv, [Next]_vars
        PROVE  [\A i \in CardIds : Owned(i)]_vars
    BY <1>1, <1>2
  <1> QED
    BY Invariance, <1>2, PTL DEF Spec, OwnCardsOnly

\* enforce_single_preferred_card clears other cards only in the transaction that
\* makes one of that user preferred, so that moving the preference, failing or
\* racing, leaves nobody without a preferred card who had one.
THEOREM PreferenceOnlyMoves == Spec => NeverLosesPreferred
  <1> DEFINE Kept(u) == PreferredOf(u) # {} /\ PreferredOf(u)' = {} => CardsOf(u)' # CardsOf(u)
  <1>1. ASSUME IInv, [Next]_vars, NEW u \in Users
        PROVE  Kept(u)
    <2> SUFFICES ASSUME NEW i \in PreferredOf(u), PreferredOf(u)' = {}
                 PROVE  CardsOf(u)' # CardsOf(u)
      OBVIOUS
    <2>1. /\ i \in CardIds /\ cards[i].user = u /\ cards[i].preferred
          /\ cards'[i] # cards[i]
      BY DEF PreferredOf, CardsOf
    <2>2. CASE \E r \in Requests : Remove(r)
      <3>1. PICK r \in Requests : Remove(r)
        BY <2>2
      <3>2. cards'[i] = NoCard
        BY <1>1, <2>1, <3>1 DEF Remove, IInv, TypeOK
      <3>3. i \in CardsOf(u) /\ i \notin CardsOf(u)'
        BY <2>1, <3>2, NobodyAssumption DEF CardsOf, NoCard
      <3> QED
        BY <3>3
    <2>3. CASE \E r \in Requests : Commit(r)
      <3>1. PICK r \in Requests : Commit(r)
        BY <2>3
      <3>2. /\ newId[r] \in CardIds
            /\ i # newId[r] => cards[i].user = request[r].user
            /\ cards'[newId[r]] = [user |-> request[r].user, preferred |-> request[r].preferred]
        BY <1>1, <2>1, <3>1, CommitWrites
      <3>3. /\ cards'[newId[r]].user = request[r].user
            /\ cards'[newId[r]].preferred = request[r].preferred
        BY <3>2
      <3>4. CASE cards[newId[r]] = NoCard
        <4>1. u = request[r].user /\ newId[r] \notin CardsOf(u)
          BY <2>1, <3>2, <3>4, NobodyAssumption DEF CardsOf, NoCard
        <4>2. newId[r] \in CardsOf(u)'
          BY <3>2, <3>3, <4>1 DEF CardsOf
        <4> QED
          BY <4>1, <4>2
      <3>5. CASE request[r].preferred /\ cards[newId[r]].user = request[r].user
        <4>1. u = request[r].user
          BY <2>1, <3>2, <3>5
        <4>2. newId[r] \in PreferredOf(u)'
          BY <3>2, <3>3, <3>5, <4>1 DEF PreferredOf, CardsOf
        <4> QED
          BY <4>2
      <3> QED
        BY <1>1, <3>1, <3>4, <3>5, CommittedRow
    <2> QED
      BY <1>1, <2>1, <2>2, <2>3, TableWrites
  <1>2. ASSUME IInv, [Next]_vars
        PROVE  [\A u \in Users : Kept(u)]_vars
    BY <1>1, <1>2
  <1> QED
    BY Invariance, <1>2, PTL DEF Spec, NeverLosesPreferred
=============================================================================
