-------------------------- MODULE WalletAuthProofs --------------------------
(***************************************************************************)
(* Theorems about WalletAuth for every set of requests, wallets, nonces and *)
(* hosts, and every lifetime of a challenge: the inductive invariant IInv,  *)
(* the safety properties that follow from it, and the refinement of         *)
(* WalletLogin.                                                            *)
(***************************************************************************)
EXTENDS WalletAuth, TLAPS

\* Past the checks of HandleWalletVerify, and past its UPDATE.
AfterConsume == {"lookup", "lookupTx", "insertUser", "insertAccount", "lookupAgain",
                 "commitUser", "token"}
Verified == {"clock", "consume"} \cup AfterConsume

Passed(r) == pc[r] \in AfterConsume \/ result[r] = "ok"
Checked(r) == pc[r] \in Verified \/ result[r] = "ok"

\* Whoever is being served is served with a complete request.
RequestsComplete ==
  \A r \in Requests :
    /\ pc[r] # "done" => result[r] = "none"
    /\ pc[r] \notin {"new", "done"} \/ result[r] = "ok" =>
         /\ request[r].address \in Addresses
         /\ request[r].nonce \in Nonces
         /\ request[r].host \in Hosts
    /\ pc[r] \notin {"new", "insertChallenge", "done"} => request[r].signed \in shown

\* A challenge is stored once, under a nonce nobody else is storing, and was
\* issued in the past.
ChallengesIssued ==
  /\ \A n \in Nonces : Stored(n) =>
       challenges[n].address \in Addresses /\ challenges[n].issued <= now
  /\ \A r \in Requests : pc[r] = "insertChallenge" =>
       /\ ~Stored(request[r].nonce)
       /\ stamp[r] <= now
       /\ \A q \in Requests :
            pc[q] = "insertChallenge" /\ request[q].nonce = request[r].nonce => q = r

\* What a request read of its challenge is still true, but for consumed.
ReadsLast ==
  \A r \in Requests : pc[r] \in {"check", "clock", "consume"} =>
    LET c == challenges[request[r].nonce] IN
    /\ c.address = request[r].address
    /\ c.issued = chal[r].issued
    /\ c.expires = chal[r].expires

\* Whoever passed the checks signed the message of the challenge, and whoever
\* passed the UPDATE had read the clock within the time of the challenge.
ChecksLast ==
  \A r \in Requests :
    LET m == request[r].signed
        c == challenges[request[r].nonce]
    IN
    /\ Checked(r) =>
         /\ request[r].signer = request[r].address
         /\ m \in shown
         /\ m.address = request[r].address
         /\ m.nonce = request[r].nonce
         /\ m.host = request[r].host
         /\ m.issued = c.issued /\ m.expires = c.expires
         /\ Stored(request[r].nonce)
    /\ pc[r] = "consume" \/ Passed(r) => m.issued <= stamp[r]
    /\ Passed(r) => stamp[r] < m.expires

\* A challenge is burned by the one request that passed the UPDATE with it.
BurnedByOne ==
  /\ \A r \in Requests : Passed(r) => challenges[request[r].nonce].consumed
  /\ \A r, q \in Requests :
       Passed(r) /\ Passed(q) /\ request[r].nonce = request[q].nonce => r = q

\* Whoever holds the uncommitted row of a wallet is the only one who commits it.
HolderCommits ==
  /\ WaitsForCommitter
  /\ \A r \in Requests : pc[r] = "commitUser" =>
       adding[request[r].address] = r /\ accounts[request[r].address] = 0

\* Users belong to one wallet each; an id that is not committed yet is nobody's.
UsersOfWallets ==
  /\ users = {accounts[a] : a \in Addresses} \ {0}
  /\ \A a, b \in Addresses : accounts[a] = accounts[b] /\ accounts[a] # 0 => a = b
  /\ \A a \in Addresses : accounts[a] < nextUser
  /\ \A r \in Requests : pc[r] \in {"insertAccount", "commitUser"} =>
       /\ user[r] # 0 /\ user[r] < nextUser
       /\ \A a \in Addresses : accounts[a] # user[r]
       /\ \A q \in Requests :
            pc[q] \in {"insertAccount", "commitUser"} /\ user[q] = user[r] => q = r
  /\ \A r \in Requests : pc[r] = "token" \/ result[r] = "ok" =>
       user[r] # 0 /\ accounts[request[r].address] = user[r]

IInv ==
  /\ TypeOK
  /\ RequestsComplete
  /\ ChallengesIssued
  /\ ReadsLast
  /\ ChecksLast
  /\ BurnedByOne
  /\ HolderCommits
  /\ UsersOfWallets

-----------------------------------------------------------------------------
\* Truncate rounds down to a time that can be stored.
LEMMA TruncateRoundsDown ==
  ASSUME NEW t \in Nat
  PROVE  Truncate(t) \in 0..t
  BY TimeAssumption DEF Truncate

LEMMA InitIInv == Init => IInv
  <1> SUFFICES ASSUME Init PROVE IInv
    OBVIOUS
  <1>1. TypeOK
    BY TimeAssumption, SecretAssumption DEF Init, TypeOK, NoChallenge, NoRequest, NoMessage, Message,
       Challenges, Messages, Times, Labels, Results
  <1>2. RequestsComplete /\ ChallengesIssued /\ ReadsLast
    BY DEF Init, RequestsComplete, ChallengesIssued, ReadsLast, Stored
  <1>3. ChecksLast /\ BurnedByOne
    BY DEF Init, ChecksLast, BurnedByOne, Checked, Passed, Verified, AfterConsume
  <1>4. HolderCommits
    BY DEF Init, HolderCommits, WaitsForCommitter
  <1>5. UsersOfWallets
    BY DEF Init, UsersOfWallets
  <1> QED
    BY <1>1, <1>2, <1>3, <1>4, <1>5 DEF IInv

-----------------------------------------------------------------------------
(* One lemma per action.                                                   *)

\* Time passes.
LEMMA TickIInv ==
  ASSUME IInv, Tick
  PROVE  IInv'
  <1> USE DEF Tick, tables, locals
  <1>1. TypeOK'
    BY TimeAssumption DEF IInv, TypeOK
  <1>2. RequestsComplete' /\ ReadsLast' /\ ChecksLast' /\ BurnedByOne'
    BY DEF IInv, RequestsComplete, ReadsLast, ChecksLast, BurnedByOne, Checked, Passed, Stored
  <1>3. ChallengesIssued'
    BY TimeAssumption DEF IInv, TypeOK, Challenges, Times, ChallengesIssued, Stored
  <1>4. HolderCommits' /\ UsersOfWallets'
    BY DEF IInv, HolderCommits, WaitsForCommitter, UsersOfWallets
  <1> QED
    BY <1>1, <1>2, <1>3, <1>4 DEF IInv

\* A request is answered without a login, and gives up what it inserted.
LEMMA RefuseIInv ==
  ASSUME IInv, NEW r \in Requests, NEW text \in Results \ {"ok"}, Answer(r, text),
         \/ Release(r)
         \/ pc[r] # "commitUser" /\ UNCHANGED adding,
         UNCHANGED <<now, shown, secretSet, challenges, users, nextUser, accounts, locals>>
  PROVE  IInv'
  <1> USE DEF Answer, Release, locals
  <1>1. TypeOK'
    BY DEF IInv, TypeOK, Labels
  <1>2. RequestsComplete' /\ ChallengesIssued' /\ ReadsLast'
    BY DEF IInv, TypeOK, RequestsComplete, ChallengesIssued, ReadsLast, Stored
  <1>3. ChecksLast' /\ BurnedByOne'
    BY DEF IInv, TypeOK, ChecksLast, BurnedByOne, Checked, Passed, Verified, AfterConsume, Stored
  <1>4. HolderCommits'
    BY NobodyAssumption DEF IInv, TypeOK, RequestsComplete, HolderCommits, WaitsForCommitter
  <1>5. UsersOfWallets'
    BY DEF IInv, TypeOK, UsersOfWallets
  <1> QED
    BY <1>1, <1>2, <1>3, <1>4, <1>5 DEF IInv

LEMMA ChallengeIInv ==
  ASSUME IInv, NEW r \in Requests, NEW a \in Addresses, NEW h \in Hosts, NEW n \in Nonces,
         Challenge(r, a, h, n)
  PROVE  IInv'
  <1> USE DEF Challenge, Goto, tables
  <1>0. /\ Truncate(now) \in 0..now
        /\ result[r] = "none"
    BY TruncateRoundsDown DEF IInv, TypeOK, RequestsComplete
  <1>1. TypeOK'
    BY <1>0 DEF IInv, TypeOK, Labels
  <1>2. RequestsComplete' /\ ReadsLast'
    BY <1>0 DEF IInv, TypeOK, RequestsComplete, ReadsLast, Stored
  <1>3. ChallengesIssued'
    BY <1>0 DEF IInv, TypeOK, ChallengesIssued, Stored
  <1>4. ChecksLast' /\ BurnedByOne'
    BY <1>0 DEF IInv, TypeOK, ChecksLast, BurnedByOne, Checked, Passed, Verified, AfterConsume, Stored
  <1>5. HolderCommits' /\ UsersOfWallets'
    BY <1>0 DEF IInv, TypeOK, HolderCommits, WaitsForCommitter, UsersOfWallets
  <1> QED
    BY <1>1, <1>2, <1>3, <1>4, <1>5 DEF IInv

\* The challenge is stored; whoever reads it later reads what is stored here.
LEMMA InsertChallengeIInv ==
  ASSUME IInv, NEW r \in Requests, InsertChallenge(r)
  PROVE  IInv'
  <1> USE DEF InsertChallenge, StoreChallenge, Answer, locals
  <1>0. /\ request[r].nonce \in Nonces /\ request[r].address \in Addresses
        /\ request[r].host \in Hosts
        /\ ~Stored(request[r].nonce)
        /\ stamp[r] \in 0..now /\ now \in 0..MaxNow
        /\ result'[r] # "ok"
    BY DEF IInv, TypeOK, RequestsComplete, ChallengesIssued
  <1>1. TypeOK'
    <2>1. /\ stamp[r] \in Times /\ stamp[r] + Lifetime \in Times
      BY <1>0, TimeAssumption DEF Times
    <2>2. challenges' \in [Nonces -> Challenges] /\ shown' \subseteq Messages
      BY <1>0, <2>1 DEF IInv, TypeOK, Challenges, Messages, Message
    <2> QED
      BY <2>2 DEF IInv, TypeOK, Labels, Results
  <1>2. RequestsComplete'
    BY <1>0 DEF IInv, TypeOK, RequestsComplete
  <1>3. ChallengesIssued'
    BY <1>0 DEF IInv, TypeOK, ChallengesIssued, Stored
  <1>4. ReadsLast'
    BY <1>0, NobodyAssumption DEF IInv, TypeOK, RequestsComplete, ReadsLast, Stored, NoChallenge
  <1>5. ChecksLast' /\ BurnedByOne'
    <2>1. \A q \in Requests : Checked(q)' => Checked(q) /\ q # r /\ request[q].nonce # request[r].nonce
      BY <1>0 DEF IInv, TypeOK, ChecksLast, Checked, Verified, AfterConsume
    <2>2. \A q \in Requests : /\ Passed(q)' => Passed(q) /\ Checked(q)'
                              /\ pc'[q] = "consume" => pc[q] = "consume" /\ Checked(q)'
      BY <1>0 DEF IInv, TypeOK, Passed, Checked, Verified, AfterConsume
    <2>3. \A n \in Nonces \ {request[r].nonce} : challenges'[n] = challenges[n]
      BY DEF IInv, TypeOK
    <2> QED
      BY <1>0, <2>1, <2>2, <2>3 DEF IInv, TypeOK, ChecksLast, BurnedByOne, RequestsComplete, Stored
  <1>6. HolderCommits' /\ UsersOfWallets'
    BY <1>0 DEF IInv, TypeOK, HolderCommits, WaitsForCommitter, UsersOfWallets
  <1> QED
    BY <1>1, <1>2, <1>3, <1>4, <1>5, <1>6 DEF IInv

LEMMA VerifyIInv ==
  ASSUME IInv, NEW r \in Requests, NEW a \in Addresses, NEW h \in Hosts, NEW n \in Nonces,
         NEW m \in shown, NEW s \in Addresses \cup {Nobody}, Verify(r, a, h, n, m, s)
  PROVE  IInv'
  <1> USE DEF Verify, Goto, tables
  <1>0. result[r] = "none" /\ m \in Messages
    BY DEF IInv, TypeOK, RequestsComplete
  <1>1. TypeOK'
    BY <1>0 DEF IInv, TypeOK, Labels
  <1>2. RequestsComplete' /\ ReadsLast'
    BY <1>0 DEF IInv, TypeOK, RequestsComplete, ReadsLast, Stored
  <1>3. ChallengesIssued'
    BY <1>0 DEF IInv, TypeOK, ChallengesIssued, Stored
  <1>4. ChecksLast' /\ BurnedByOne'
    BY <1>0 DEF IInv, TypeOK, ChecksLast, BurnedByOne, Checked, Passed, Verified, AfterConsume, Stored
  <1>5. HolderCommits' /\ UsersOfWallets'
    BY <1>0 DEF IInv, TypeOK, HolderCommits, WaitsForCommitter, UsersOfWallets
  <1> QED
    BY <1>1, <1>2, <1>3, <1>4, <1>5 DEF IInv

\* The SELECT finds an open challenge of the wallet.
LEMMA SelectIInv ==
  ASSUME IInv, NEW r \in Requests, pc[r] = "select",
         challenges[request[r].nonce].address = request[r].address,
         chal' = [chal EXCEPT ![r] = challenges[request[r].nonce]],
         Goto(r, "check"),
         UNCHANGED <<now, shown, secretSet, tables, request, stamp, user>>
  PROVE  IInv'
  <1> USE DEF Goto, tables
  <1>0. request[r].nonce \in Nonces /\ result[r] = "none"
    BY DEF IInv, RequestsComplete
  <1>1. TypeOK'
    BY <1>0 DEF IInv, TypeOK, Labels
  <1>2. RequestsComplete' /\ ReadsLast' /\ ChallengesIssued'
    BY <1>0 DEF IInv, TypeOK, RequestsComplete, ReadsLast, ChallengesIssued, Stored
  <1>3. ChecksLast' /\ BurnedByOne'
    BY <1>0 DEF IInv, TypeOK, ChecksLast, BurnedByOne, Checked, Passed, Verified, AfterConsume, Stored
  <1>4. HolderCommits' /\ UsersOfWallets'
    BY <1>0 DEF IInv, TypeOK, HolderCommits, WaitsForCommitter, UsersOfWallets
  <1> QED
    BY <1>1, <1>2, <1>3, <1>4 DEF IInv

\* The signature is good: it is the wallet's, of the message of this challenge.
LEMMA CheckIInv ==
  ASSUME IInv, NEW r \in Requests, pc[r] = "check",
         RecoveredSigner(r) = request[r].address,
         Goto(r, "clock"),
         UNCHANGED <<now, shown, secretSet, tables, locals>>
  PROVE  IInv'
  <1> USE DEF Goto, tables, locals
  <1>0. /\ request[r].address \in Addresses /\ request[r].nonce \in Nonces
        /\ request[r].signed \in shown
        /\ result[r] = "none"
    BY DEF IInv, RequestsComplete
  <1>a. request[r].signed = ExpectedMessage(r) /\ request[r].signer = request[r].address
    BY <1>0, NobodyAssumption DEF RecoveredSigner
  <1>1. TypeOK'
    BY DEF IInv, TypeOK, Labels
  <1>2. RequestsComplete' /\ ReadsLast' /\ ChallengesIssued'
    BY <1>0 DEF IInv, TypeOK, RequestsComplete, ReadsLast, ChallengesIssued, Stored
  <1>3. ChecksLast' /\ BurnedByOne'
    <2>1. LET m == request[r].signed
              c == challenges[request[r].nonce]
          IN  /\ m.address = request[r].address /\ m.nonce = request[r].nonce
              /\ m.host = request[r].host
              /\ m.issued = c.issued /\ m.expires = c.expires
              /\ c # NoChallenge
      BY <1>0, <1>a, NobodyAssumption DEF IInv, ReadsLast, ExpectedMessage, Message, NoChallenge
    <2>2. \A q \in Requests : /\ Checked(q)' => Checked(q) \/ q = r
                              /\ Passed(q)' <=> Passed(q)
                              /\ pc'[q] = "consume" <=> pc[q] = "consume"
                              /\ Passed(q) => q # r
      BY <1>0 DEF IInv, TypeOK, Passed, Checked, Verified, AfterConsume
    <2>3. BurnedByOne'
      BY <2>2 DEF IInv, BurnedByOne
    <2>4. ChecksLast'
      BY <1>0, <1>a, <2>1, <2>2 DEF IInv, TypeOK, ChecksLast, Stored
    <2> QED
      BY <2>3, <2>4
  <1>4. HolderCommits' /\ UsersOfWallets'
    BY <1>0 DEF IInv, TypeOK, HolderCommits, WaitsForCommitter, UsersOfWallets
  <1> QED
    BY <1>1, <1>2, <1>3, <1>4 DEF IInv

\* The time the UPDATE will compare: it is not before the challenge was issued.
LEMMA ReadClockIInv ==
  ASSUME IInv, NEW r \in Requests, ReadClock(r)
  PROVE  IInv'
  <1> USE DEF ReadClock, Goto, tables
  <1>0. request[r].nonce \in Nonces /\ result[r] = "none"
    BY DEF IInv, RequestsComplete
  <1>1. TypeOK'
    BY <1>0 DEF IInv, TypeOK, Labels
  <1>2. RequestsComplete' /\ ReadsLast' /\ ChallengesIssued'
    BY <1>0 DEF IInv, TypeOK, RequestsComplete, ReadsLast, ChallengesIssued, Stored
  <1>3. ChecksLast' /\ BurnedByOne'
    <2>1. Checked(r) /\ ~Passed(r)
      BY <1>0 DEF Checked, Passed, Verified, AfterConsume
    <2>2. request[r].signed.issued <= now
      BY <1>0, <2>1 DEF IInv, ChecksLast, ChallengesIssued
    <2> QED
      BY <1>0, <2>1, <2>2 DEF IInv, TypeOK, ChecksLast, BurnedByOne, Checked, Passed, Verified,
         AfterConsume, Stored
  <1>4. HolderCommits' /\ UsersOfWallets'
    BY <1>0 DEF IInv, TypeOK, HolderCommits, WaitsForCommitter, UsersOfWallets
  <1> QED
    BY <1>1, <1>2, <1>3, <1>4 DEF IInv

\* The challenge is burned: no other request has passed the UPDATE with it, or will.
LEMMA ConsumeIInv ==
  ASSUME IInv, NEW r \in Requests, pc[r] = "consume", Consumable(r),
         challenges' = [challenges EXCEPT ![request[r].nonce].consumed = TRUE],
         Goto(r, "lookup") \/ Answer(r, "error"),
         UNCHANGED <<now, shown, secretSet, users, nextUser, accounts, adding, locals>>
  PROVE  IInv'
  <1> USE DEF Goto, Answer, locals
  <1>0. /\ request[r].nonce \in Nonces
        /\ request[r].address \in Addresses
        /\ result[r] = "none" /\ result'[r] # "ok"
        /\ ~challenges[request[r].nonce].consumed
        /\ stamp[r] < challenges[request[r].nonce].expires
        /\ Checked(r)
    BY DEF IInv, TypeOK, Challenges, Times, RequestsComplete, Consumable, Checked, Verified
  <1>a. \A n \in Nonces : /\ challenges'[n].address = challenges[n].address
                          /\ challenges'[n].issued = challenges[n].issued
                          /\ challenges'[n].expires = challenges[n].expires
                          /\ challenges[n].consumed => challenges'[n].consumed
                          /\ Stored(n)' <=> Stored(n)
    <2>1. Stored(request[r].nonce) /\ challenges'[request[r].nonce] # NoChallenge
      BY <1>0 DEF IInv, TypeOK, Challenges, ChecksLast, NoChallenge
    <2> QED
      BY <1>0, <2>1 DEF IInv, TypeOK, Challenges, Stored
  <1>b. /\ pc' \in [Requests -> Labels] /\ result' \in [Requests -> Results]
        /\ pc'[r] \in {"lookup", "done"} /\ (pc'[r] # "done" => result'[r] = "none")
        /\ \A q \in Requests \ {r} : pc'[q] = pc[q] /\ result'[q] = result[q]
    BY <1>0 DEF IInv, TypeOK, Labels, Results
  <1>1. TypeOK'
    <2>1. challenges' \in [Nonces -> Challenges]
      <3>1. \A c \in Challenges : [c EXCEPT !.consumed = TRUE] \in Challenges
        BY DEF Challenges
      <3> QED
        BY <1>0, <3>1 DEF IInv, TypeOK
    <2> QED
      BY <1>b, <2>1 DEF IInv, TypeOK
  <1>2. RequestsComplete' /\ ReadsLast'
    <2>1. \A q \in Requests : /\ pc'[q] \notin {"new", "done"} => pc[q] \notin {"new", "done"}
                              /\ pc'[q] \notin {"new", "insertChallenge", "done"}
                                   => pc[q] \notin {"new", "insertChallenge", "done"}
                              /\ pc'[q] \in {"check", "clock", "consume"} => q # r
      BY <1>0, <1>b
    <2> QED
      BY <1>0, <1>a, <1>b, <2>1 DEF IInv, RequestsComplete, ReadsLast
  <1>3. ChallengesIssued'
    BY <1>0, <1>a DEF IInv, TypeOK, RequestsComplete, ChallengesIssued
  <1>4. ChecksLast' /\ BurnedByOne'
    <2>1. \A q \in Requests : /\ Checked(q)' => Checked(q) /\ request[q].nonce \in Nonces
                              /\ pc'[q] = "consume" \/ Passed(q)' => pc[q] = "consume" \/ Passed(q)
                              /\ Passed(q)' => Passed(q) \/ q = r
      BY <1>0 DEF IInv, TypeOK, RequestsComplete, Passed, Checked, Verified, AfterConsume
    <2>2. \A q \in Requests : Passed(q) => request[q].nonce # request[r].nonce
      BY <1>0 DEF IInv, BurnedByOne
    <2>3. challenges'[request[r].nonce].consumed
      BY <1>0 DEF IInv, TypeOK, Challenges
    <2>4. BurnedByOne'
      BY <1>a, <2>1, <2>2, <2>3 DEF IInv, BurnedByOne, Passed, Checked, Verified
    <2>5. ChecksLast'
      <3>1. stamp[r] < request[r].signed.expires
        BY <1>0 DEF IInv, ChecksLast
      <3> QED
        BY <1>a, <2>1, <3>1 DEF IInv, ChecksLast, Passed, Checked, Verified
    <2> QED
      BY <2>4, <2>5
  <1>5. HolderCommits' /\ UsersOfWallets'
    BY <1>0 DEF IInv, TypeOK, HolderCommits, WaitsForCommitter, UsersOfWallets
  <1> QED
    BY <1>1, <1>2, <1>3, <1>4, <1>5 DEF IInv

\* A lookup finds the user of the wallet, or none and the request goes on or gives up.
LEMMA LookupIInv ==
  ASSUME IInv, NEW r \in Requests, pc[r] \in {"lookup", "lookupTx", "lookupAgain"},
         user' = [user EXCEPT ![r] = accounts[request[r].address]],
         \/ accounts[request[r].address] # 0 /\ Goto(r, "token")
         \/ accounts[request[r].address] = 0 /\ (Goto(r, "lookupTx") \/ Goto(r, "insertUser"))
         \/ accounts[request[r].address] = 0 /\ Answer(r, "error"),
         UNCHANGED <<now, shown, secretSet, tables, request, chal, stamp>>
  PROVE  IInv'
  <1> USE DEF Goto, Answer, tables
  <1>0. /\ request[r].address \in Addresses /\ accounts[request[r].address] \in Nat
        /\ result[r] = "none" /\ result'[r] # "ok" /\ Passed(r)
    BY DEF IInv, TypeOK, RequestsComplete, Passed, AfterConsume
  <1>b. /\ pc' \in [Requests -> Labels] /\ result' \in [Requests -> Results]
        /\ pc'[r] \in {"token", "lookupTx", "insertUser", "done"}
        /\ pc'[r] # "done" => result'[r] = "none"
        /\ \A q \in Requests \ {r} : pc'[q] = pc[q] /\ result'[q] = result[q]
    BY <1>0 DEF IInv, TypeOK, Labels, Results
  <1>1. TypeOK'
    BY <1>0, <1>b DEF IInv, TypeOK
  <1>2. RequestsComplete' /\ ReadsLast' /\ ChallengesIssued'
    BY <1>0, <1>b DEF IInv, RequestsComplete, ReadsLast, ChallengesIssued, Stored
  <1>3. ChecksLast' /\ BurnedByOne'
    BY <1>0, <1>b DEF IInv, ChecksLast, BurnedByOne, Checked, Passed, Verified, AfterConsume, Stored
  <1>4. HolderCommits'
    BY <1>0 DEF IInv, TypeOK, HolderCommits, WaitsForCommitter
  <1>5. UsersOfWallets'
    BY <1>0 DEF IInv, TypeOK, UsersOfWallets
  <1> QED
    BY <1>1, <1>2, <1>3, <1>4, <1>5 DEF IInv

\* The id is larger than any in use.
LEMMA InsertUserIInv ==
  ASSUME IInv, NEW r \in Requests, InsertUser(r)
  PROVE  IInv'
  <1> USE DEF InsertUser, Goto
  <1>0. result[r] = "none" /\ Passed(r) /\ request[r].address \in Addresses
    BY DEF IInv, TypeOK, RequestsComplete, Passed, AfterConsume
  <1>1. TypeOK'
    BY <1>0 DEF IInv, TypeOK, Labels
  <1>2. RequestsComplete' /\ ReadsLast' /\ ChallengesIssued'
    BY <1>0 DEF IInv, TypeOK, RequestsComplete, ReadsLast, ChallengesIssued, Stored
  <1>3. ChecksLast' /\ BurnedByOne'
    BY <1>0 DEF IInv, TypeOK, ChecksLast, BurnedByOne, Checked, Passed, Verified, AfterConsume, Stored
  <1>4. HolderCommits'
    BY <1>0 DEF IInv, TypeOK, HolderCommits, WaitsForCommitter
  <1>5. UsersOfWallets'
    BY <1>0 DEF IInv, TypeOK, UsersOfWallets
  <1> QED
    BY <1>1, <1>2, <1>3, <1>4, <1>5 DEF IInv

\* The row of the account is inserted, or the request looks the address up again.
LEMMA InsertAccountIInv ==
  ASSUME IInv, NEW r \in Requests, pc[r] = "insertAccount",
         LET a == request[r].address IN
         \/ /\ adding[a] = Nobody /\ accounts[a] = 0
            /\ adding' = [adding EXCEPT ![a] = r]
            /\ Goto(r, "commitUser")
         \/ UNCHANGED adding /\ Goto(r, "lookupAgain"),
         UNCHANGED <<now, shown, secretSet, challenges, users, nextUser, accounts, locals>>
  PROVE  IInv'
  <1> USE DEF Goto, locals
  <1>0. /\ request[r].address \in Addresses
        /\ result[r] = "none" /\ Passed(r)
    BY DEF IInv, TypeOK, RequestsComplete, Passed, AfterConsume
  <1>b. /\ pc' \in [Requests -> Labels] /\ UNCHANGED result
        /\ \A q \in Requests \ {r} : pc'[q] = pc[q]
        /\ \/ /\ adding[request[r].address] = Nobody /\ accounts[request[r].address] = 0
              /\ adding' = [adding EXCEPT ![request[r].address] = r]
              /\ pc'[r] = "commitUser"
           \/ UNCHANGED adding /\ pc'[r] = "lookupAgain"
    BY <1>0 DEF IInv, TypeOK, Labels
  <1>1. TypeOK'
    BY <1>0, <1>b DEF IInv, TypeOK
  <1>2. RequestsComplete' /\ ReadsLast' /\ ChallengesIssued'
    BY <1>0 DEF IInv, TypeOK, RequestsComplete, ReadsLast, ChallengesIssued, Stored
  <1>3. ChecksLast' /\ BurnedByOne'
    BY <1>0 DEF IInv, TypeOK, ChecksLast, BurnedByOne, Checked, Passed, Verified, AfterConsume, Stored
  <1>4. HolderCommits'
    <2>1. CASE UNCHANGED adding /\ pc'[r] = "lookupAgain"
      BY <1>0, <1>b, <2>1 DEF IInv, TypeOK, HolderCommits, WaitsForCommitter
    <2>2. CASE /\ adding[request[r].address] = Nobody /\ accounts[request[r].address] = 0
               /\ adding' = [adding EXCEPT ![request[r].address] = r]
               /\ pc'[r] = "commitUser"
      <3>1. \A q \in Requests : pc[q] = "commitUser" => request[q].address # request[r].address
        BY <1>0, <2>2, NobodyAssumption DEF IInv, HolderCommits
      <3>2. r # Nobody
        BY NobodyAssumption
      <3> QED
        BY <1>0, <1>b, <2>2, <3>1, <3>2 DEF IInv, TypeOK, RequestsComplete, HolderCommits, WaitsForCommitter
    <2> QED
      BY <1>b, <2>1, <2>2
  <1>5. UsersOfWallets'
    BY <1>0 DEF IInv, TypeOK, UsersOfWallets
  <1> QED
    BY <1>1, <1>2, <1>3, <1>4, <1>5 DEF IInv

\* The user and the account are committed together.
LEMMA CommitUserIInv ==
  ASSUME IInv, NEW r \in Requests, CommitUser(r)
  PROVE  IInv'
  <1> USE DEF CommitUser, Goto, Answer, Release, locals
  <1>0. /\ request[r].address \in Addresses
        /\ result[r] = "none" /\ Passed(r)
        /\ adding[request[r].address] = r /\ accounts[request[r].address] = 0
        /\ user[r] \in Nat \ {0} /\ user[r] < nextUser
        /\ \A a \in Addresses : accounts[a] # user[r]
    BY DEF IInv, TypeOK, RequestsComplete, HolderCommits, UsersOfWallets, Passed, AfterConsume
  <1>b. /\ pc' \in [Requests -> Labels] /\ result' \in [Requests -> Results]
        /\ pc'[r] \in {"token", "done"} /\ result'[r] # "ok"
        /\ pc'[r] # "done" => result'[r] = "none"
        /\ \A q \in Requests \ {r} : pc'[q] = pc[q] /\ result'[q] = result[q]
    BY <1>0 DEF IInv, TypeOK, Labels, Results
  <1>1. TypeOK'
    BY <1>0, <1>b DEF IInv, TypeOK
  <1>2. RequestsComplete' /\ ReadsLast' /\ ChallengesIssued'
    BY <1>0, <1>b DEF IInv, RequestsComplete, ReadsLast, ChallengesIssued, Stored
  <1>3. ChecksLast' /\ BurnedByOne'
    BY <1>0, <1>b DEF IInv, ChecksLast, BurnedByOne, Checked, Passed, Verified, AfterConsume, Stored
  <1>4. HolderCommits'
    <2>1. \A q \in Requests : pc'[q] = "commitUser" =>
            /\ request[q].address \in Addresses /\ request[q].address # request[r].address
            /\ adding[request[q].address] = q /\ accounts[request[q].address] = 0
      BY <1>0, <1>b DEF IInv, RequestsComplete, HolderCommits
    <2>2. WaitsForCommitter'
      BY <1>0, <1>b, NobodyAssumption DEF IInv, TypeOK, HolderCommits, WaitsForCommitter
    <2> QED
      BY <1>b, <2>1, <2>2 DEF IInv, TypeOK, HolderCommits
  <1>5. UsersOfWallets'
    <2>1. /\ \A a \in Addresses : accounts'[a] = IF a = request[r].address THEN user[r] ELSE accounts[a]
          /\ users' = users \cup {user[r]}
          /\ UNCHANGED <<request, user, nextUser>>
      BY DEF IInv, TypeOK
    <2>2. users' = {accounts'[a] : a \in Addresses} \ {0}
      BY <1>0, <2>1 DEF IInv, UsersOfWallets
    <2>3. \A a, b \in Addresses : accounts'[a] = accounts'[b] /\ accounts'[a] # 0 => a = b
      BY <1>0, <2>1 DEF IInv, UsersOfWallets
    <2>4. \A a \in Addresses : accounts'[a] < nextUser'
      BY <1>0, <2>1 DEF IInv, UsersOfWallets
    <2>5. ASSUME NEW q \in Requests, pc'[q] \in {"insertAccount", "commitUser"}
          PROVE  /\ user[q] # 0 /\ user[q] < nextUser
                 /\ \A a \in Addresses : accounts'[a] # user[q]
                 /\ \A p \in Requests :
                      pc'[p] \in {"insertAccount", "commitUser"} /\ user[p] = user[q] => p = q
      <3>1. q # r /\ pc[q] \in {"insertAccount", "commitUser"} /\ user[q] # user[r]
        BY <1>b, <2>5 DEF CommitUser, IInv, UsersOfWallets
      <3> QED
        BY <1>0, <1>b, <2>1, <3>1 DEF IInv, UsersOfWallets
    <2>6. ASSUME NEW q \in Requests, pc'[q] = "token" \/ result'[q] = "ok"
          PROVE  user[q] # 0 /\ accounts'[request[q].address] = user[q]
      BY <1>0, <1>b, <2>1, <2>6 DEF IInv, TypeOK, RequestsComplete, UsersOfWallets
    <2> QED
      BY <2>1, <2>2, <2>3, <2>4, <2>5, <2>6 DEF UsersOfWallets
  <1> QED
    BY <1>1, <1>2, <1>3, <1>4, <1>5 DEF IInv

\* The login: whoever gets here has passed everything an answer of "ok" promises.
LEMMA IssueTokenIInv ==
  ASSUME IInv, NEW r \in Requests, IssueToken(r)
  PROVE  IInv'
  <1> USE DEF IssueToken, Answer, tables, locals
  <1>0. /\ request[r].address \in Addresses
        /\ Passed(r)
        /\ result'[r] \in {"ok", "error"} /\ pc'[r] = "done"
        /\ \A q \in Requests \ {r} : pc'[q] = pc[q] /\ result'[q] = result[q]
    BY DEF IInv, TypeOK, RequestsComplete, Passed, AfterConsume
  <1>1. TypeOK'
    BY DEF IInv, TypeOK, Labels, Results
  <1>2. RequestsComplete' /\ ReadsLast' /\ ChallengesIssued'
    BY <1>0 DEF IInv, RequestsComplete, ReadsLast, ChallengesIssued, Stored
  <1>3. ChecksLast' /\ BurnedByOne'
    BY <1>0 DEF IInv, ChecksLast, BurnedByOne, Checked, Passed, Verified, AfterConsume, Stored
  <1>4. HolderCommits'
    BY <1>0 DEF IInv, TypeOK, HolderCommits, WaitsForCommitter
  <1>5. UsersOfWallets'
    BY <1>0 DEF IInv, TypeOK, UsersOfWallets
  <1> QED
    BY <1>1, <1>2, <1>3, <1>4, <1>5 DEF IInv

-----------------------------------------------------------------------------
LEMMA NextIInv == IInv /\ [Next]_vars => IInv'
  <1> SUFFICES ASSUME IInv, [Next]_vars
               PROVE  IInv'
    OBVIOUS
  <1> USE DEF Results
  <1>1. CASE UNCHANGED vars
    BY <1>1 DEF vars, tables, locals, IInv, TypeOK, RequestsComplete, ChallengesIssued, ReadsLast,
       ChecksLast, BurnedByOne, Checked, Passed, Stored, HolderCommits, WaitsForCommitter,
       UsersOfWallets
  <1>2. CASE Tick
    BY <1>2, TickIInv
  <1>3. ASSUME NEW r \in Requests, Arrive(r)
        PROVE  IInv'
    <2>1. CASE BadRequest(r)
      BY <2>1, RefuseIInv DEF BadRequest, tables
    <2>2. CASE \E a \in Addresses, h \in Hosts, n \in Nonces : Challenge(r, a, h, n)
      BY <2>2, ChallengeIInv
    <2>3. CASE \E a \in Addresses, h \in Hosts, n \in Nonces, m \in shown, s \in Addresses \cup {Nobody} :
                 Verify(r, a, h, n, m, s)
      BY <2>3, VerifyIInv
    <2> QED
      BY <1>3, <2>1, <2>2, <2>3 DEF Arrive
  <1>4. ASSUME NEW r \in Requests, Serve(r)
        PROVE  IInv'
    <2>1. CASE InsertChallenge(r)
      BY <2>1, InsertChallengeIInv
    <2>2. CASE SelectChallenge(r)
      BY <2>2, RefuseIInv, SelectIInv DEF SelectChallenge, tables, locals
    <2>3. CASE CheckChallenge(r)
      BY <2>3, RefuseIInv, CheckIInv DEF CheckChallenge, tables
    <2>4. CASE ReadClock(r)
      BY <2>4, ReadClockIInv
    <2>5. CASE Consume(r)
      BY <2>5, RefuseIInv, ConsumeIInv DEF Consume
    <2>6. CASE Lookup(r) \/ LookupTx(r) \/ LookupAgain(r)
      BY <2>6, LookupIInv DEF Lookup, LookupTx, LookupAgain, LookupAt
    <2>7. CASE InsertUser(r)
      BY <2>7, InsertUserIInv
    <2>8. CASE InsertAccount(r)
      BY <2>8, InsertAccountIInv DEF InsertAccount
    <2>9. CASE CommitUser(r)
      BY <2>9, CommitUserIInv
    <2>10. CASE IssueToken(r)
      BY <2>10, IssueTokenIInv
    <2> QED
      BY <1>4, <2>1, <2>2, <2>3, <2>4, <2>5, <2>6, <2>7, <2>8, <2>9, <2>10 DEF Serve
  <1>5. ASSUME NEW r \in Requests, InsertAccountFails(r)
        PROVE  IInv'
    BY <1>5, InsertAccountIInv DEF InsertAccountFails, tables
  <1>6. ASSUME NEW r \in Requests, Fail(r)
        PROVE  IInv'
    BY <1>6, RefuseIInv DEF Fail
  <1> QED
    BY <1>1, <1>2, <1>3, <1>4, <1>5, <1>6 DEF Next

\* The inductive invariant: what a request has read, checked, burned and inserted
\* stays as it was until the request is answered.
THEOREM Invariance == Spec => []IInv
  <1> QED
    BY InitIInv, NextIInv, PTL DEF Spec

\* Every row, message and request keeps its type, and every time its bounds.
THEOREM TypeCorrectness == Spec => []TypeOK
  <1>1. IInv => TypeOK
    BY DEF IInv
  <1> QED
    BY Invariance, <1>1, PTL

\* A challenge logs in at most one request, however many present it at once.
THEOREM ChallengeLogsInOnce == Spec => []SingleUse
  <1>1. IInv => SingleUse
    BY DEF IInv, BurnedByOne, Passed, SingleUse
  <1> QED
    BY Invariance, <1>1, PTL

\* A login was signed by the account of the wallet, for this nonce, wallet and host,
\* and the clock reading sent with its UPDATE is not past the challenge's expiry.
THEOREM LoginsAreSignedInTime == Spec => []SignedInTime
  <1>1. IInv => SignedInTime
    BY DEF IInv, ChecksLast, Checked, Passed, SignedInTime
  <1> QED
    BY Invariance, <1>1, PTL

\* However first logins race or fail, a wallet has one user and a user one wallet.
THEOREM WalletsHaveOneUser == Spec => []OneUserPerWallet
  <1>1. IInv => OneUserPerWallet
    <2> SUFFICES ASSUME IInv PROVE OneUserPerWallet
      OBVIOUS
    <2>1. ASSUME NEW r \in Requests, result[r] = "ok"
          PROVE  /\ request[r].address \in Addresses
                 /\ user[r] # 0 /\ accounts[request[r].address] = user[r]
                 /\ user[r] \in users
      BY <2>1 DEF IInv, RequestsComplete, UsersOfWallets
    <2>2. \A r, q \in Requests :
            result[r] = "ok" /\ result[q] = "ok" =>
              (user[r] = user[q] <=> request[r].address = request[q].address)
      BY <2>1 DEF IInv, UsersOfWallets
    <2> QED
      BY <2>1, <2>2 DEF IInv, UsersOfWallets, OneUserPerWallet
  <1> QED
    BY Invariance, <1>1, PTL

\* No uncommitted row outlives the request that inserted it.
THEOREM WaitsEnd == Spec => []WaitsForCommitter
  <1>1. IInv => WaitsForCommitter
    BY DEF IInv, HolderCommits
  <1> QED
    BY Invariance, <1>1, PTL

-----------------------------------------------------------------------------
(* The refinement of WalletLogin.                                          *)

\* What was granted changes only with a login.
LEMMA GrantedKept ==
  ASSUME \A q \in Requests : /\ result'[q] = "ok" <=> result[q] = "ok"
                             /\ result[q] = "ok" => request'[q].nonce = request[q].nonce
  PROVE  UNCHANGED granted
  <1>1. ASSUME NEW n \in Nonces
        PROVE  {r \in Requests : result'[r] = "ok" /\ request'[r].nonce = n}
                 = {r \in Requests : result[r] = "ok" /\ request[r].nonce = n}
    <2>1. \A r \in Requests : (result'[r] = "ok" /\ request'[r].nonce = n)
                               <=> (result[r] = "ok" /\ request[r].nonce = n)
      OBVIOUS
    <2> QED
      BY <2>1
  <1> QED
    BY <1>1 DEF granted

LEMMA PhaseKept ==
  ASSUME UNCHANGED challenges
  PROVE  UNCHANGED phase
  BY DEF phase, Stored

\* Storing a challenge issues it.
LEMMA InsertIssues ==
  ASSUME IInv, NEW r \in Requests, InsertChallenge(r)
  PROVE  Abstract!Next
  <1> DEFINE n == request[r].nonce
  <1>1. n \in Nonces /\ request[r].address \in Addresses /\ ~Stored(n) /\ result[r] = "none"
    BY DEF InsertChallenge, IInv, RequestsComplete, ChallengesIssued
  <1>2. \A k \in Nonces \ {n} : challenges'[k] = challenges[k]
    BY DEF InsertChallenge, StoreChallenge, IInv, TypeOK
  <1>3. challenges'[n] # NoChallenge /\ ~challenges'[n].consumed
    <2>1. challenges'[n] = [address |-> request[r].address, issued |-> stamp[r],
                            expires |-> stamp[r] + Lifetime, consumed |-> FALSE]
      BY <1>1 DEF InsertChallenge, StoreChallenge, IInv, TypeOK
    <2>2. challenges'[n].address \in Addresses /\ ~challenges'[n].consumed
      BY <1>1, <2>1
    <2>3. NoChallenge.address \notin Addresses
      BY NobodyAssumption DEF NoChallenge
    <2> QED
      BY <2>2, <2>3
  <1>4. phase[n] = "none" /\ phase' = [phase EXCEPT ![n] = "open"]
    <2>1. phase[n] = "none" /\ phase'[n] = "open"
      BY <1>1, <1>3 DEF phase, Stored
    <2>2. \A k \in Nonces \ {n} : phase'[k] = phase[k]
      BY <1>2 DEF phase, Stored
    <2> QED
      BY <2>1, <2>2 DEF phase
  <1>5. UNCHANGED <<granted, accounts>>
    BY <1>1, GrantedKept DEF InsertChallenge, Answer, locals, IInv, TypeOK
  <1> QED
    BY <1>1, <1>4, <1>5 DEF Abstract!Next, Abstract!Issue

\* The UPDATE burns it.
LEMMA ConsumeBurns ==
  ASSUME IInv, NEW r \in Requests, Consume(r), Consumable(r)
  PROVE  Abstract!Next
  <1> DEFINE n == request[r].nonce
  <1>1. /\ n \in Nonces /\ result[r] = "none"
        /\ ~challenges[n].consumed /\ Stored(n)
    BY DEF Consume, Consumable, IInv, RequestsComplete, ChecksLast, Checked, Verified
  <1>2. \A k \in Nonces \ {n} : challenges'[k] = challenges[k]
    BY DEF Consume, IInv, TypeOK
  <1>3. challenges'[n] # NoChallenge /\ challenges'[n].consumed
    <2>1. challenges'[n].consumed
      BY <1>1 DEF Consume, IInv, TypeOK, Challenges
    <2>2. ~NoChallenge.consumed
      BY DEF NoChallenge
    <2> QED
      BY <2>1, <2>2
  <1>4. phase[n] = "open" /\ phase' = [phase EXCEPT ![n] = "burned"]
    <2>1. phase[n] = "open" /\ phase'[n] = "burned"
      BY <1>1, <1>3 DEF phase, Stored
    <2>2. \A k \in Nonces \ {n} : phase'[k] = phase[k]
      BY <1>2 DEF phase, Stored
    <2> QED
      BY <2>1, <2>2 DEF phase
  <1>5. UNCHANGED <<granted, accounts>>
    BY <1>1, GrantedKept DEF Consume, Goto, Answer, locals, IInv, TypeOK
  <1> QED
    BY <1>1, <1>4, <1>5 DEF Abstract!Next, Abstract!Burn

\* An issued token grants the login its challenge is good for.
LEMMA TokenGrants ==
  ASSUME IInv, NEW r \in Requests, IssueToken(r), secretSet
  PROVE  Abstract!Next
  <1> DEFINE n == request[r].nonce
  <1>1. n \in Nonces /\ result[r] = "none" /\ Passed(r)
    BY DEF IssueToken, IInv, RequestsComplete, Passed, AfterConsume
  <1>2. challenges[n].consumed /\ Stored(n)
    BY <1>1 DEF IInv, BurnedByOne, ChecksLast, Checked, Passed, Verified
  <1>3. phase[n] = "burned"
    BY <1>1, <1>2 DEF phase
  <1>4. \A q \in Requests : result[q] = "ok" => request[q].nonce # n
    BY <1>1 DEF IInv, BurnedByOne, Passed
  <1>5. granted[n] = {}
    BY <1>1, <1>4 DEF granted
  <1>6. \A q \in Requests : result'[q] = "ok" <=> result[q] = "ok" \/ q = r
    BY DEF IssueToken, Answer, IInv, TypeOK
  <1>7. granted' = [granted EXCEPT ![n] = {r}]
    <2>1. UNCHANGED request
      BY DEF IssueToken, locals
    <2>2. \A k \in Nonces : granted'[k] = IF k = n THEN {r} ELSE granted[k]
      BY <1>4, <1>6, <2>1 DEF granted
    <2> QED
      BY <2>2 DEF granted
  <1>8. UNCHANGED <<phase, accounts>>
    BY PhaseKept DEF IssueToken, tables
  <1> QED
    BY <1>1, <1>3, <1>5, <1>7, <1>8 DEF Abstract!Next, Abstract!Grant

\* The COMMIT links the wallet to a user no other wallet has.
LEMMA CommitLinks ==
  ASSUME IInv, NEW r \in Requests, CommitUser(r)
  PROVE  Abstract!Next
  <1> DEFINE a == request[r].address
  <1>1. a \in Addresses /\ result[r] = "none"
    BY DEF CommitUser, IInv, RequestsComplete
  <1>2. /\ accounts[a] = 0 /\ user[r] \in Nat \ {0}
        /\ \A b \in Addresses : accounts[b] # user[r]
    BY DEF CommitUser, IInv, TypeOK, HolderCommits, UsersOfWallets
  <1>3. accounts'[a] = user[r] /\ accounts' = [accounts EXCEPT ![a] = accounts'[a]]
    BY <1>1 DEF CommitUser, IInv, TypeOK
  <1>4. UNCHANGED <<phase, granted>>
    BY <1>1, PhaseKept, GrantedKept DEF CommitUser, Goto, Answer, locals, IInv, TypeOK
  <1>5. Abstract!Link(a)
    BY <1>1, <1>2, <1>3, <1>4 DEF Abstract!Link
  <1> QED
    BY <1>1, <1>5 DEF Abstract!Next

\* Every other step is none of WalletLogin.
LEMMA StepRefines ==
  ASSUME IInv, [Next]_vars
  PROVE  Abstract!Next \/ UNCHANGED <<phase, granted, accounts>>
  <1> USE GrantedKept, PhaseKept
  <1> USE DEF Goto, Answer, tables, locals, IInv, TypeOK
  <1>1. CASE UNCHANGED vars \/ Tick
    BY <1>1 DEF vars, Tick
  <1>2. ASSUME NEW r \in Requests, Arrive(r)
        PROVE  UNCHANGED <<phase, granted, accounts>>
    BY <1>2 DEF Arrive, BadRequest, Challenge, Verify, RequestsComplete
  <1>3. ASSUME NEW r \in Requests, Serve(r)
        PROVE  Abstract!Next \/ UNCHANGED <<phase, granted, accounts>>
    <2>1. CASE InsertChallenge(r)
      BY <2>1, InsertIssues
    <2>2. CASE SelectChallenge(r)
      BY <2>2 DEF SelectChallenge, RequestsComplete
    <2>3. CASE CheckChallenge(r)
      BY <2>3 DEF CheckChallenge, RequestsComplete
    <2>4. CASE ReadClock(r)
      BY <2>4 DEF ReadClock, RequestsComplete
    <2>5. CASE Consume(r)
      <3>1. CASE Consumable(r)
        BY <2>5, <3>1, ConsumeBurns
      <3>2. CASE ~Consumable(r)
        BY <2>5, <3>2 DEF Consume, RequestsComplete
      <3> QED
        BY <3>1, <3>2
    <2>6. CASE Lookup(r) \/ LookupTx(r) \/ LookupAgain(r)
      BY <2>6 DEF Lookup, LookupTx, LookupAgain, LookupAt, RequestsComplete
    <2>7. CASE InsertUser(r) \/ InsertAccount(r)
      BY <2>7 DEF InsertUser, InsertAccount, RequestsComplete
    <2>8. CASE CommitUser(r)
      BY <2>8, CommitLinks
    <2>9. CASE IssueToken(r)
      <3>1. CASE secretSet
        BY <2>9, <3>1, TokenGrants
      <3>2. CASE ~secretSet
        BY <2>9, <3>2 DEF IssueToken, RequestsComplete
      <3> QED
        BY <3>1, <3>2
    <2> QED
      BY <1>3, <2>1, <2>2, <2>3, <2>4, <2>5, <2>6, <2>7, <2>8, <2>9 DEF Serve
  <1>4. ASSUME NEW r \in Requests, InsertAccountFails(r) \/ Fail(r)
        PROVE  UNCHANGED <<phase, granted, accounts>>
    BY <1>4 DEF InsertAccountFails, Fail, RequestsComplete
  <1> QED
    BY <1>1, <1>2, <1>3, <1>4 DEF Next

\* The handlers, statement by statement and in any order of their requests,
\* implement the indivisible issues, logins and links of WalletLogin.
THEOREM Refinement == Spec => ImplementsWalletLogin
  <1>1. Init => Abstract!Init
    BY DEF Init, Abstract!Init, phase, granted, Stored
  <1>2. IInv /\ [Next]_vars => [Abstract!Next]_<<phase, granted, accounts>>
    BY StepRefines
  <1> QED
    BY Invariance, <1>1, <1>2, PTL DEF Spec, ImplementsWalletLogin, Abstract!Spec
=============================================================================
