------------------------------ MODULE BankCards ------------------------------
(***************************************************************************)
(* The bank cards of a user: addCard, setPreferred, renameCard, removeCard  *)
(* (internal/api/card_handlers.go) on the table bank_cards and its two      *)
(* triggers (internal/db/cards_schema.go).  Every statement is a            *)
(* transaction of its own in READ COMMITTED.  Of PostgreSQL, which is not   *)
(* in src/, the model keeps:                                               *)
(*  - a statement, and each statement of a trigger function, reads what is  *)
(*    committed when it starts;                                            *)
(*  - UPDATE and DELETE wait for the holder of a row, then look at the row  *)
(*    again and skip it if it no longer matches; rows that only came to     *)
(*    match after the statement started are not found;                     *)
(*  - a row is locked before its BEFORE UPDATE trigger runs;               *)
(*  - a trigger's changes commit or roll back with the statement;          *)
(*  - a statement may fail, and one of a cycle of waiting statements does.  *)
(* What a request is answered is left out: no property is about it.        *)
(***************************************************************************)
EXTENDS Integers, FiniteSets

CONSTANTS
  Users,      \* the users whose tokens principalUserID64 accepts
  Approved,   \* those whom requireApprovedKYC lets add cards; no code under
              \* src/ changes what it reads
  Requests,   \* the requests being served, one at a time each
  Limit,      \* 3: the number in addCard and in the trigger
  MaxCards,   \* the last card id (a bound of the model)
  Nobody      \* no user, no request

ASSUME ApprovedAssumption == Approved \subseteq Users
ASSUME LimitAssumption == Limit \in Nat \ {0} /\ MaxCards \in Nat
ASSUME NobodyAssumption == Nobody \notin Users /\ Nobody \notin Requests
\* A server has finitely many requests at a time.
ASSUME RequestsAssumption == IsFiniteSet(Requests)

CardIds == 1..MaxCards

VARIABLES
  cards,     \* committed bank_cards by id: the owner and is_preferred
  nextCard,  \* the sequence behind bank_cards.id
  rowLock,   \* the request that holds each row
  pc,        \* the statement each request is at
  request,   \* operation, user, and card id or preferred flag of each request
  newId,     \* the id of the row each request inserts
  toClear,   \* the rows the trigger's UPDATE has found and not yet reached
  cleared    \* the rows it has set to not preferred, uncommitted

working == <<newId, toClear, cleared>>
vars == <<cards, nextCard, rowLock, pc, request, working>>

NoCard == [user |-> Nobody, preferred |-> FALSE]
NoRequest == [op |-> "none", user |-> Nobody, card |-> 0, preferred |-> FALSE]

CardsOf(u) == {i \in CardIds : cards[i].user = u}
PreferredOf(u) == {i \in CardsOf(u) : cards[i].preferred}

Init ==
  /\ cards = [i \in CardIds |-> NoCard]
  /\ nextCard = 1
  /\ rowLock = [i \in CardIds |-> Nobody]
  /\ pc = [r \in Requests |-> "idle"]
  /\ request = [r \in Requests |-> NoRequest]
  /\ newId = [r \in Requests |-> 0]
  /\ toClear = [r \in Requests |-> {}]
  /\ cleared = [r \in Requests |-> {}]

-----------------------------------------------------------------------------
Goto(r, label) == pc' = [pc EXCEPT ![r] = label]

Unlocked(r) == [i \in CardIds |-> IF rowLock[i] = r THEN Nobody ELSE rowLock[i]]

\* The statement ends, committed or not, and the request is answered.
AnswerKeepingLocks(r) ==
  /\ pc' = [pc EXCEPT ![r] = "idle"]
  /\ request' = [request EXCEPT ![r] = NoRequest]
  /\ newId' = [newId EXCEPT ![r] = 0]
  /\ toClear' = [toClear EXCEPT ![r] = {}]
  /\ cleared' = [cleared EXCEPT ![r] = {}]
  /\ UNCHANGED rowLock

Answer(r) ==
  /\ pc' = [pc EXCEPT ![r] = "idle"]
  /\ request' = [request EXCEPT ![r] = NoRequest]
  /\ newId' = [newId EXCEPT ![r] = 0]
  /\ toClear' = [toClear EXCEPT ![r] = {}]
  /\ cleared' = [cleared EXCEPT ![r] = {}]
  /\ rowLock' = Unlocked(r)

\* HandleCards and HandleCardItem: the operation a request asks for, once its
\* user and card id are parsed.
Receive(r, req) ==
  /\ pc[r] = "idle"
  /\ request' = [request EXCEPT ![r] = req]
  /\ UNCHANGED <<cards, nextCard, rowLock, working>>

BeforeInsert == {"eligible", "count", "limit"}

ReceiveAdd(r, u, preferred) ==
  /\ Cardinality({q \in Requests : pc[q] \in BeforeInsert}) + nextCard <= MaxCards
  /\ Receive(r, [op |-> "add", user |-> u, card |-> 0, preferred |-> preferred])
  /\ Goto(r, "eligible")

ReceiveItem(r, u, i, op) ==
  /\ Receive(r, [op |-> op, user |-> u, card |-> i, preferred |-> op = "prefer"])
  /\ Goto(r, op)

(* addCard *)

\* requireApprovedKYC.
CheckEligible(r) ==
  /\ pc[r] = "eligible"
  /\ \/ /\ request[r].user \in Approved
        /\ Goto(r, "count")
        /\ UNCHANGED <<rowLock, request, working>>
     \/ /\ request[r].user \notin Approved
        /\ Answer(r)
  /\ UNCHANGED <<cards, nextCard>>

AtLimitOffByOne(u) == Cardinality(CardsOf(u)) > Limit
AtLimit(u) == Cardinality(CardsOf(u)) >= Limit

\* SELECT COUNT(*): the first card of a user is preferred.
CountCards(r) ==
  LET u == request[r].user IN
  /\ pc[r] = "count"
  /\ \/ /\ AtLimit(u)
        /\ Answer(r)
     \/ /\ ~AtLimit(u)
        /\ request' = [request EXCEPT ![r].preferred = @ \/ CardsOf(u) = {}]
        /\ Goto(r, "limit")
        /\ UNCHANGED <<rowLock, working>>
  /\ UNCHANGED <<cards, nextCard>>

\* INSERT up to enforce_bank_card_limit; the id is taken from the sequence first.
LimitTrigger(r) ==
  /\ pc[r] = "limit"
  /\ nextCard' = nextCard + 1
  /\ \/ /\ AtLimit(request[r].user)
        /\ Answer(r)
     \/ /\ ~AtLimit(request[r].user)
        /\ newId' = [newId EXCEPT ![r] = nextCard]
        /\ Goto(r, "trigger")
        /\ UNCHANGED <<rowLock, request, toClear, cleared>>
  /\ UNCHANGED cards

(* setPreferred, removeCard, renameCard *)

FoundAnyOwner(r) == cards[request[r].card] # NoCard

\* WHERE id = card AND user_id = user.
Found(r) == cards[request[r].card].user = request[r].user

Free(i, r) == rowLock[i] \in {Nobody, r}

NotFound(r) ==
  /\ pc[r] \in {"prefer", "remove", "rename"}
  /\ ~Found(r)
  /\ Answer(r)
  /\ UNCHANGED <<cards, nextCard>>

\* UPDATE ... SET is_preferred = TRUE up to its trigger: the row is locked.
LockTarget(r) ==
  /\ pc[r] = "prefer"
  /\ Found(r)
  /\ Free(request[r].card, r)
  /\ rowLock' = [rowLock EXCEPT ![request[r].card] = r]
  /\ newId' = [newId EXCEPT ![r] = request[r].card]
  /\ Goto(r, "trigger")
  /\ UNCHANGED <<cards, nextCard, request, toClear, cleared>>

Remove(r) ==
  /\ pc[r] = "remove"
  /\ Found(r)
  /\ Free(request[r].card, r)
  /\ cards' = [cards EXCEPT ![request[r].card] = NoCard]
  /\ Answer(r)
  /\ UNCHANGED nextCard

\* The display name is left out: renaming waits for the row and touches nothing else.
Rename(r) ==
  /\ pc[r] = "rename"
  /\ Found(r)
  /\ Free(request[r].card, r)
  /\ Answer(r)
  /\ UNCHANGED <<cards, nextCard>>

(* enforce_single_preferred_card *)

TriggerSkipped(r) ==
  /\ pc[r] = "trigger"
  /\ Goto(r, "clear")
  /\ UNCHANGED <<cards, nextCard, rowLock, request, working>>

\* The rows the trigger's UPDATE finds.
PreferredTrigger(r) ==
  /\ pc[r] = "trigger"
  /\ toClear' = [toClear EXCEPT ![r] =
                   IF request[r].preferred THEN PreferredOf(request[r].user) \ {newId[r]} ELSE {}]
  /\ Goto(r, "clear")
  /\ UNCHANGED <<cards, nextCard, rowLock, request, newId, cleared>>

ClearRowAtOnce(r, i) ==
  /\ pc[r] = "clear"
  /\ i \in toClear[r]
  /\ Free(i, r)
  /\ toClear' = [toClear EXCEPT ![r] = @ \ {i}]
  /\ cards' = [cards EXCEPT ![i].preferred = FALSE]
  /\ UNCHANGED <<nextCard, rowLock, pc, request, newId, cleared>>

\* The UPDATE reaches one of them; a row that was deleted is skipped, one that is
\* no longer preferred is locked and left alone.
ClearRow(r, i) ==
  /\ pc[r] = "clear"
  /\ i \in toClear[r]
  /\ Free(i, r)
  /\ toClear' = [toClear EXCEPT ![r] = @ \ {i}]
  /\ \/ /\ cards[i] = NoCard
        /\ UNCHANGED <<rowLock, cleared>>
     \/ /\ cards[i] # NoCard
        /\ rowLock' = [rowLock EXCEPT ![i] = r]
        /\ cleared' = [cleared EXCEPT ![r] = IF cards[i].preferred THEN @ \cup {i} ELSE @]
  /\ UNCHANGED <<cards, nextCard, pc, request, newId>>

\* The statement commits: the cleared rows and the row itself.
Commit(r) ==
  /\ pc[r] = "clear"
  /\ toClear[r] = {}
  /\ cards' = [i \in CardIds |->
                 IF i = newId[r] THEN [user |-> request[r].user, preferred |-> request[r].preferred]
                 ELSE IF i \in cleared[r] THEN [cards[i] EXCEPT !.preferred = FALSE]
                 ELSE cards[i]]
  /\ Answer(r)
  /\ UNCHANGED nextCard

(* Failures *)

WaitsFor(r, q) ==
  /\ q # r
  /\ \/ /\ pc[r] \in {"prefer", "remove", "rename"}
        /\ Found(r)
        /\ rowLock[request[r].card] = q
     \/ /\ pc[r] = "clear"
        /\ \E i \in toClear[r] : rowLock[i] = q

\* deadlock_detected: one statement of a cycle is rolled back.
BreakDeadlock(r) ==
  /\ \E S \in SUBSET Requests : r \in S /\ \A q \in S : \E p \in S : WaitsFor(q, p)
  /\ Answer(r)
  /\ UNCHANGED <<cards, nextCard>>

\* Any statement fails and is rolled back.
Fail(r) ==
  /\ pc[r] # "idle"
  /\ Answer(r)
  /\ UNCHANGED <<cards, nextCard>>

Arrive(r) ==
  \E u \in Users :
    \/ \E preferred \in BOOLEAN : ReceiveAdd(r, u, preferred)
    \/ \E i \in CardIds, op \in {"prefer", "remove", "rename"} : ReceiveItem(r, u, i, op)

Serve(r) ==
  \/ CheckEligible(r)
  \/ CountCards(r)
  \/ LimitTrigger(r)
  \/ NotFound(r)
  \/ LockTarget(r)
  \/ Remove(r)
  \/ Rename(r)
  \/ PreferredTrigger(r)
  \/ \E i \in CardIds : ClearRow(r, i)
  \/ Commit(r)
  \/ BreakDeadlock(r)

Next == \E r \in Requests : Arrive(r) \/ Serve(r) \/ Fail(r)

Spec == Init /\ [][Next]_vars

\* Waiting statements queue for a row, and PostgreSQL looks for deadlocks.
FairSpec == Spec /\ \A r \in Requests : SF_vars(Serve(r))

-----------------------------------------------------------------------------
(* Properties.                                                             *)

\* Only a statement that is past locking its row has rows locked.
TypeOK ==
  /\ cards \in [CardIds -> [user : Users \cup {Nobody}, preferred : BOOLEAN]]
  /\ nextCard \in 1..(MaxCards + 1)
  /\ rowLock \in [CardIds -> Requests \cup {Nobody}]
  /\ \A i \in CardIds : rowLock[i] # Nobody => pc[rowLock[i]] \in {"trigger", "clear"}
  /\ pc \in [Requests -> {"idle", "eligible", "count", "limit", "prefer", "remove", "rename",
                          "trigger", "clear"}]
  /\ request \in [Requests -> [op : {"none", "add", "prefer", "remove", "rename"},
                               user : Users \cup {Nobody}, card : 0..MaxCards, preferred : BOOLEAN]]
  /\ newId \in [Requests -> 0..MaxCards]
  /\ toClear \in [Requests -> SUBSET CardIds]
  /\ cleared \in [Requests -> SUBSET CardIds]

\* Concurrent additions exceed the limit by no more than the number of requests
\* served at the same time, however long the server runs.
LimitOvershoot ==
  \A u \in Users : Cardinality(CardsOf(u)) <= Limit - 1 + Cardinality(Requests)

\* A request changes cards of its own user only, whatever card id it names.
OwnCardsOnly ==
  [][\A i \in CardIds :
       cards'[i] # cards[i] =>
         \E r \in Requests :
           /\ pc'[r] # pc[r]
           /\ request[r].user \in {cards[i].user, cards'[i].user}
           /\ {cards[i].user, cards'[i].user} \subseteq {request[r].user, Nobody}]_vars

\* Only the removal of a card leaves a user who had a preferred card without
\* one: moving the preference, racing or failing, never does.
NeverLosesPreferred ==
  [][\A u \in Users :
       PreferredOf(u) # {} /\ PreferredOf(u)' = {} => CardsOf(u)' # CardsOf(u)]_vars

\* Every request is answered: statements that wait for each other are found.
EveryRequestAnswered == \A r \in Requests : pc[r] # "idle" ~> pc[r] = "idle"

\* The trigger enforce_single_preferred_card.
SinglePreferred == \A u \in Users : Cardinality(PreferredOf(u)) <= 1
=============================================================================
