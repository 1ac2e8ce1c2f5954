----------------------------- MODULE WalletAuth -----------------------------
(***************************************************************************)
(* Sign-in with an Ethereum wallet (internal/api/wallet_handlers.go, with   *)
(* internal/auth/wallet_auth.go): a request of HandleWalletChallenge stores *)
(* a challenge, one of HandleWalletVerify consumes it and answers a token  *)
(* for the user of the wallet, whom it creates if need be.  Every request   *)
(* is served once, by a goroutine of its own; one action is one statement   *)
(* sent to PostgreSQL, or the code between two statements.                  *)
(*                                                                         *)
(* Outside src/: PostgreSQL in READ COMMITTED (a statement sees what is     *)
(* committed; INSERT waits for an uncommitted row with the same unique key; *)
(* any statement may fail, and one that takes effect may be reported as     *)
(* failed), the clock, the wallets, which sign the messages they are shown, *)
(* and crypto.SigToPub, which recovers the signer from the message that was *)
(* signed and an address nobody has from any other.                         *)
(***************************************************************************)
EXTENDS Integers

CONSTANTS
  Requests,   \* the requests clients send
  Addresses,  \* the wallet addresses in use
  Nonces,     \* the values GenerateNonce may return; 16 random bytes do not repeat
  Hosts,      \* the values of the Host header
  Lifetime,   \* five minutes, in ticks of the clock
  Second,     \* one second, in ticks of the clock
  MaxNow,     \* the last tick (a bound of the model)
  SecretSets, \* whether a JWT secret is configured: {TRUE}, {FALSE} or BOOLEAN
  Nobody      \* no address, nonce, host or request

ASSUME TimeAssumption ==
  /\ Lifetime \in Nat \ {0}
  /\ Second \in Nat \ {0}
  /\ MaxNow \in Nat
ASSUME SecretAssumption == SecretSets \subseteq BOOLEAN
ASSUME NobodyAssumption == Nobody \notin Requests \cup Addresses \cup Nonces \cup Hosts

VARIABLES
  now,         \* time.Now()
  challenges,  \* wallet_challenges, by nonce
  shown,       \* the messages clients were asked to sign
  users,       \* committed ids of users; all have the role 'user'
  nextUser,    \* the sequence behind users.id
  accounts,    \* committed wallet_accounts: the user of each address, or 0
  adding,      \* who has an uncommitted row of wallet_accounts for each address
  secretSet,   \* whether the process was given a JWT secret
  pc,          \* the statement each request is at
  request,     \* what each request carries; a challenge request gets its nonce here
  chal,        \* the row of wallet_challenges each request read
  stamp,       \* the time each request sends along with its UPDATE
  user,        \* the user id each request found or created, or 0
  result       \* how each request was answered

tables == <<challenges, users, nextUser, accounts, adding>>
locals == <<request, chal, stamp, user>>
vars == <<now, shown, secretSet, tables, pc, locals, result>>

Message(host, address, nonce, issued, expires) ==
  [host |-> host, address |-> address, nonce |-> nonce, issued |-> issued, expires |-> expires]

NoMessage == Message(Nobody, Nobody, Nobody, 0, 0)
NoChallenge == [address |-> Nobody, issued |-> 0, expires |-> 0, consumed |-> FALSE]
NoRequest == [address |-> Nobody, nonce |-> Nobody, host |-> Nobody,
              signer |-> Nobody, signed |-> NoMessage]

Init ==
  /\ now = 0
  /\ challenges = [n \in Nonces |-> NoChallenge]
  /\ shown = {}
  /\ users = {}
  /\ nextUser = 1
  /\ accounts = [a \in Addresses |-> 0]
  /\ adding = [a \in Addresses |-> Nobody]
  /\ secretSet \in SecretSets
  /\ pc = [r \in Requests |-> "new"]
  /\ request = [r \in Requests |-> NoRequest]
  /\ chal = [r \in Requests |-> NoChallenge]
  /\ stamp = [r \in Requests |-> 0]
  /\ user = [r \in Requests |-> 0]
  /\ result = [r \in Requests |-> "none"]

\* The tables as a transaction sees them that locks nothing.
Stored(n) == challenges[n] # NoChallenge

-----------------------------------------------------------------------------
(* Steps of a request.                                                     *)

Goto(r, label) ==
  /\ pc' = [pc EXCEPT ![r] = label]
  /\ UNCHANGED result

Answer(r, text) ==
  /\ pc' = [pc EXCEPT ![r] = "done"]
  /\ result' = [result EXCEPT ![r] = text]

\* The address is missing or malformed, or the nonce or the signature missing.
BadRequest(r) ==
  /\ pc[r] = "new"
  /\ Answer(r, "bad_request")
  /\ UNCHANGED <<now, shown, secretSet, tables, locals>>

(* HandleWalletChallenge *)

RoundUp(t) == t + (Second - (t % Second))
Truncate(t) == t - (t % Second)

\* GenerateNonce and the time stamps, up to the INSERT.
Challenge(r, a, h, n) ==
  /\ pc[r] = "new"
  /\ ~Stored(n)
  /\ \A q \in Requests : request[q].nonce # n
  /\ request' = [request EXCEPT ![r].address = a, ![r].host = h, ![r].nonce = n]
  /\ stamp' = [stamp EXCEPT ![r] = Truncate(now)]
  /\ Goto(r, "insertChallenge")
  /\ UNCHANGED <<now, shown, secretSet, tables, chal, user>>

StoreChallenge(r) ==
  challenges' = [challenges EXCEPT ![request[r].nonce] =
                   [address |-> request[r].address, issued |-> stamp[r],
                    expires |-> stamp[r] + Lifetime, consumed |-> FALSE]]

\* The row is stored and the message reaches the client, or it does not.
InsertChallenge(r) ==
  /\ pc[r] = "insertChallenge"
  /\ StoreChallenge(r)
  /\ \/ /\ shown' = shown \cup {Message(request[r].host, request[r].address, request[r].nonce,
                                        stamp[r], stamp[r] + Lifetime)}
        /\ Answer(r, "challenge")
     \/ /\ UNCHANGED shown
        /\ Answer(r, "error")
  /\ UNCHANGED <<now, secretSet, users, nextUser, accounts, adding, locals>>

(* HandleWalletVerify *)

\* A client sends an address, a nonce, and a message it was shown with the
\* signature of one of its accounts, or with a signature that is none.
Verify(r, a, h, n, m, signer) ==
  /\ pc[r] = "new"
  /\ request' = [request EXCEPT ![r] = [address |-> a, nonce |-> n, host |-> h,
                                        signer |-> signer, signed |-> m]]
  /\ Goto(r, "select")
  /\ UNCHANGED <<now, shown, secretSet, tables, chal, stamp, user>>

\* SELECT created_at, expires_at, consumed FROM wallet_challenges.
SelectChallenge(r) ==
  LET c == challenges[request[r].nonce] IN
  /\ pc[r] = "select"
  /\ \/ /\ c.address # request[r].address
        /\ Answer(r, "not_found")
        /\ UNCHANGED chal
     \/ /\ c.address = request[r].address
        /\ c.consumed
        /\ Answer(r, "already_used")
        /\ UNCHANGED chal
     \/ /\ c.address = request[r].address
        /\ ~c.consumed
        /\ chal' = [chal EXCEPT ![r] = c]
        /\ Goto(r, "check")
  /\ UNCHANGED <<now, shown, secretSet, tables, request, stamp, user>>

ExpectedMessage(r) ==
  Message(request[r].host, request[r].address, request[r].nonce, chal[r].issued, chal[r].expires)

\* RecoverSigner(ExpectedMessage, signature); a signature that is none is refused
\* before it is compared.
RecoveredSigner(r) ==
  IF request[r].signed = ExpectedMessage(r) THEN request[r].signer ELSE Nobody

\* The expiry and the signature, in this order.
CheckChallenge(r) ==
  /\ pc[r] = "check"
  /\ \/ /\ now > chal[r].expires
        /\ Answer(r, "expired")
     \/ /\ now <= chal[r].expires
        /\ RecoveredSigner(r) # request[r].address
        /\ Answer(r, "bad_signature")
     \/ /\ now <= chal[r].expires
        /\ RecoveredSigner(r) = request[r].address
        /\ Goto(r, "clock")
  /\ UNCHANGED <<now, shown, secretSet, tables, locals>>

\* The third argument of the UPDATE is evaluated before the statement is sent.
ReadClock(r) ==
  /\ pc[r] = "clock"
  /\ stamp' = [stamp EXCEPT ![r] = now]
  /\ Goto(r, "consume")
  /\ UNCHANGED <<now, shown, secretSet, tables, request, chal, user>>

ConsumableAgain(r) ==
  LET c == challenges[request[r].nonce] IN
  /\ c.address = request[r].address
  /\ c.expires > stamp[r]

ConsumableLate(r) ==
  LET c == challenges[request[r].nonce] IN
  /\ c.address = request[r].address
  /\ ~c.consumed

\* The WHERE clause of the UPDATE.
Consumable(r) ==
  LET c == challenges[request[r].nonce] IN
  /\ c.address = request[r].address
  /\ ~c.consumed
  /\ c.expires > stamp[r]

ConsumeErrorIgnored(r) ==
  /\ pc[r] = "consume"
  /\ \/ /\ ~Consumable(r)
        /\ Answer(r, "already_used")
        /\ UNCHANGED challenges
     \/ /\ Consumable(r)
        /\ \/ challenges' = [challenges EXCEPT ![request[r].nonce].consumed = TRUE]
           \/ UNCHANGED challenges
        /\ Goto(r, "lookup")
  /\ UNCHANGED <<now, shown, secretSet, users, nextUser, accounts, adding, locals>>

\* UPDATE wallet_challenges SET consumed = TRUE, and RowsAffected; the statement
\* may take effect although it is reported as failed.
Consume(r) ==
  /\ pc[r] = "consume"
  /\ \/ /\ ~Consumable(r)
        /\ Answer(r, "already_used")
        /\ UNCHANGED challenges
     \/ /\ Consumable(r)
        /\ challenges' = [challenges EXCEPT ![request[r].nonce].consumed = TRUE]
        /\ Goto(r, "lookup") \/ Answer(r, "error")
  /\ UNCHANGED <<now, shown, secretSet, users, nextUser, accounts, adding, locals>>

(* walletFindOrCreateUser *)

\* walletLookupUser, before the transaction and again in it.
LookupAt(r, label, ifMissing) ==
  LET u == accounts[request[r].address] IN
  /\ pc[r] = label
  /\ user' = [user EXCEPT ![r] = u]
  /\ \/ /\ u # 0
        /\ Goto(r, "token")
     \/ /\ u = 0
        /\ ifMissing # "error"
        /\ Goto(r, ifMissing)
     \/ /\ u = 0
        /\ ifMissing = "error"
        /\ Answer(r, "error")
  /\ UNCHANGED <<now, shown, secretSet, tables, request, chal, stamp>>

Lookup(r) == LookupAt(r, "lookup", "lookupTx")
LookupTx(r) == LookupAt(r, "lookupTx", "insertUser")
LookupAgain(r) == LookupAt(r, "lookupAgain", "error")

\* INSERT INTO users ... RETURNING id: an id no rollback gives back.
InsertUser(r) ==
  /\ pc[r] = "insertUser"
  /\ user' = [user EXCEPT ![r] = nextUser]
  /\ nextUser' = nextUser + 1
  /\ Goto(r, "insertAccount")
  /\ UNCHANGED <<now, shown, secretSet, challenges, users, accounts, adding, request, chal, stamp>>

\* INSERT INTO wallet_accounts under UNIQUE (address): waits for an uncommitted
\* row with the address, and fails if there is a committed one.
InsertAccount(r) ==
  LET a == request[r].address IN
  /\ pc[r] = "insertAccount"
  /\ \/ /\ adding[a] = Nobody /\ accounts[a] = 0
        /\ adding' = [adding EXCEPT ![a] = r]
        /\ Goto(r, "commitUser")
     \/ /\ adding[a] = Nobody /\ accounts[a] # 0
        /\ UNCHANGED adding
        /\ Goto(r, "lookupAgain")
  /\ UNCHANGED <<now, shown, secretSet, challenges, users, nextUser, accounts, locals>>

\* If that INSERT fails for another reason the address is looked up all the same.
InsertAccountFails(r) ==
  /\ pc[r] = "insertAccount"
  /\ Goto(r, "lookupAgain")
  /\ UNCHANGED <<now, shown, secretSet, tables, locals>>

Release(r) == adding' = [a \in Addresses |-> IF adding[a] = r THEN Nobody ELSE adding[a]]

CommitUserErrorIgnored(r) ==
  /\ pc[r] = "commitUser"
  /\ Release(r)
  /\ \/ /\ users' = users \cup {user[r]}
        /\ accounts' = [accounts EXCEPT ![request[r].address] = user[r]]
     \/ UNCHANGED <<users, accounts>>
  /\ Goto(r, "token")
  /\ UNCHANGED <<now, shown, secretSet, challenges, nextUser, locals>>

\* COMMIT of the user and the account, which may be reported as failed.
CommitUser(r) ==
  /\ pc[r] = "commitUser"
  /\ Release(r)
  /\ users' = users \cup {user[r]}
  /\ accounts' = [accounts EXCEPT ![request[r].address] = user[r]]
  /\ Goto(r, "token") \/ Answer(r, "error")
  /\ UNCHANGED <<now, shown, secretSet, challenges, nextUser, locals>>

\* IssueToken fails if, and only if, the process has no secret.
IssueToken(r) ==
  /\ pc[r] = "token"
  /\ Answer(r, IF secretSet THEN "ok" ELSE "error")
  /\ UNCHANGED <<now, shown, secretSet, tables, locals>>

FailKeepingRow(r) ==
  /\ pc[r] \in {"insertChallenge", "select", "consume", "lookup", "lookupTx",
                "insertUser", "lookupAgain", "commitUser"}
  /\ Answer(r, "error")
  /\ UNCHANGED <<now, shown, secretSet, tables, locals>>

\* A statement fails without effect: the request is answered 500, after the
\* deferred Rollback of the transaction if there is one.
Fail(r) ==
  /\ pc[r] \in {"insertChallenge", "select", "consume", "lookup", "lookupTx",
                "insertUser", "lookupAgain", "commitUser"}
  /\ Answer(r, "error")
  /\ Release(r)
  /\ UNCHANGED <<now, shown, secretSet, challenges, users, nextUser, accounts, locals>>

Arrive(r) ==
  \/ BadRequest(r)
  \/ \E a \in Addresses, h \in Hosts, n \in Nonces : Challenge(r, a, h, n)
  \/ \E a \in Addresses, h \in Hosts, n \in Nonces, m \in shown, s \in Addresses \cup {Nobody} :
       Verify(r, a, h, n, m, s)

Serve(r) ==
  \/ InsertChallenge(r)
  \/ SelectChallenge(r)
  \/ CheckChallenge(r)
  \/ ReadClock(r)
  \/ Consume(r)
  \/ Lookup(r)
  \/ LookupTx(r)
  \/ InsertUser(r)
  \/ InsertAccount(r)
  \/ LookupAgain(r)
  \/ CommitUser(r)
  \/ IssueToken(r)

Tick ==
  /\ now < MaxNow
  /\ now' = now + 1
  /\ UNCHANGED <<shown, secretSet, tables, pc, locals, result>>

Next ==
  \/ \E r \in Requests : Arrive(r) \/ Serve(r) \/ InsertAccountFails(r) \/ Fail(r)
  \/ Tick

Spec == Init /\ [][Next]_vars

-----------------------------------------------------------------------------
(* Properties.                                                             *)

Labels == {"new", "insertChallenge", "select", "check", "clock", "consume", "lookup", "lookupTx",
           "insertUser", "insertAccount", "lookupAgain", "commitUser", "token", "done"}
Results == {"none", "bad_request", "challenge", "not_found", "already_used", "expired",
            "bad_signature", "error", "ok"}

Times == 0..(MaxNow + Lifetime)
Challenges == [address : Addresses \cup {Nobody}, issued : Times, expires : Times, consumed : BOOLEAN]
Messages == [host : Hosts \cup {Nobody}, address : Addresses \cup {Nobody},
             nonce : Nonces \cup {Nobody}, issued : Times, expires : Times]

TypeOK ==
  /\ now \in 0..MaxNow
  /\ challenges \in [Nonces -> Challenges]
  /\ shown \subseteq Messages
  /\ users \subseteq Nat \ {0}
  /\ nextUser \in Nat \ {0}
  /\ accounts \in [Addresses -> Nat]
  /\ adding \in [Addresses -> Requests \cup {Nobody}]
  /\ secretSet \in BOOLEAN
  /\ pc \in [Requests -> Labels]
  /\ request \in [Requests -> [address : Addresses \cup {Nobody}, nonce : Nonces \cup {Nobody},
                               host : Hosts \cup {Nobody}, signer : Addresses \cup {Nobody},
                               signed : Messages]]
  /\ chal \in [Requests -> Challenges]
  /\ stamp \in [Requests -> 0..MaxNow]
  /\ user \in [Requests -> Nat]
  /\ result \in [Requests -> Results]

\* A challenge logs in at most one request, however many present it at the same
\* time (CHANGELOG.md:6, "single-use").
SingleUse ==
  \A r, q \in Requests :
    result[r] = "ok" /\ result[q] = "ok" /\ request[r].nonce = request[q].nonce => r = q

\* Nobody is logged in to a wallet unless the account of that wallet signed the
\* message shown for this very nonce, wallet and host, and unless the clock reading
\* sent with the UPDATE is between the two times that message names: a challenge
\* that expired after it was first looked at is refused.  (One that expires after
\* that reading, before the UPDATE runs, is burned all the same.)
SignedInTime ==
  \A r \in Requests :
    LET m == request[r].signed IN
    result[r] = "ok" =>
      /\ request[r].signer = request[r].address
      /\ m \in shown
      /\ m.address = request[r].address
      /\ m.nonce = request[r].nonce
      /\ m.host = request[r].host
      /\ m.issued <= stamp[r] /\ stamp[r] < m.expires

\* Two logins are logins of the same user if, and only if, they are of the same
\* wallet, and the user they name is the one the tables link to the wallet; first
\* logins that race or fail half-way leave no user without a wallet, and no
\* wallet without its user.
OneUserPerWallet ==
  /\ \A r, q \in Requests :
       result[r] = "ok" /\ result[q] = "ok" =>
         (user[r] = user[q] <=> request[r].address = request[q].address)
  /\ \A r \in Requests :
       result[r] = "ok" => user[r] \in users /\ accounts[request[r].address] = user[r]
  /\ users = {accounts[a] : a \in Addresses} \ {0}

\* A request only ever waits for one that is about to commit or roll back: no
\* uncommitted row outlives the request that inserted it, however that ended.
WaitsForCommitter ==
  \A a \in Addresses : adding[a] # Nobody =>
    /\ pc[adding[a]] = "commitUser"
    /\ request[adding[a]].address = a

\* The handlers implement WalletLogin.
phase == [n \in Nonces |-> IF ~Stored(n) THEN "none"
                           ELSE IF challenges[n].consumed THEN "burned" ELSE "open"]
granted == [n \in Nonces |-> {r \in Requests : result[r] = "ok" /\ request[r].nonce = n}]
Abstract == INSTANCE WalletLogin WITH owner <- accounts
ImplementsWalletLogin == Abstract!Spec

=============================================================================
