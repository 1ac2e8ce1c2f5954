---------------------------- MODULE PasswordAuth ----------------------------
(***************************************************************************)
(* Accounts with a password: NewRegistrationHandler and HandleLogin         *)
(* (internal/api), the tokens of internal/auth, and the one route that      *)
(* main.go puts behind auth.Middleware.  A process starts with the secret   *)
(* and the database it finds (cmd/api/main.go), serves every request in a   *)
(* goroutine of its own, and may end at any moment; its successor finds the *)
(* tables, and nothing of what the first kept in memory: schemaOnce,        *)
(* schemaErr and the secret.                                                *)
(*                                                                         *)
(* Outside src/: the clients, PostgreSQL (a statement takes effect at once, *)
(* may fail, and may be reported as failed although it took effect; the     *)
(* requests' contexts end when clients go away, which is one way to fail),  *)
(* bcrypt, which refuses to hash more than 72 bytes, and the clock.  (bcrypt *)
(* compares the first 72 bytes only; a longer password in the model differs *)
(* from the stored one within them.)                                       *)
(***************************************************************************)
EXTENDS Integers

CONSTANTS
  Requests,   \* the requests clients send, each served once
  Names,      \* e-mail addresses, in lower case and without blanks
  Passwords,  \* passwords of 8 to 72 bytes
  UUIDs,      \* the values uuid.New may return, which do not repeat
  Secrets,    \* the values JWT_SECRET may have when a process starts,
              \* among them Unset and Blank
  MaxStarts,  \* how often the process is started (a bound of the model)
  Unset,      \* JWT_SECRET is not set
  Blank,      \* JWT_SECRET holds nothing but blanks
  None        \* no name, password, id or secret

\* What the checks of HandleLogin and registration tell apart of other passwords.
TooShort == "under 8 bytes"
TooLong == "over 72 bytes"

AnyPassword == Passwords \cup {TooShort, TooLong}

\* An address as it is typed: strings.ToLower and TrimSpace undo the rest.
Typed == [name : Names, upper : BOOLEAN]

ASSUME NoneAssumption ==
  /\ None \notin Names \cup Passwords \cup UUIDs \cup Secrets
  /\ {TooShort, TooLong} \cap Passwords = {}
ASSUME StartsAssumption == MaxStarts \in Nat

VARIABLES
  users,      \* committed rows of bricspay_users: what is stored under each id
  table,      \* whether bricspay_users exists
  starts,     \* how often the process was started
  running,    \* whether it runs
  secret,     \* jwtSecret, or None
  database,   \* whether main connected and created the other tables
  once,       \* schemaOnce: "new", "running" or "done"
  schemaErr,  \* whether schemaErr is an error
  tokens,     \* the tokens clients were given
  expired,    \* those that are more than 24 hours old
  pc,         \* where each request is
  request,    \* what each request carries
  id,         \* the id each registration drew, or each login or upload found
  result      \* how each request was answered

process == <<starts, running, secret, database>>
schema == <<once, schemaErr>>
vars == <<users, table, process, schema, tokens, expired, pc, request, id, result>>

NoRow == [email |-> None, password |-> None]
NoToken == [user |-> None, secret |-> None, login |-> None]
NoRequest == [email |-> None, password |-> None, token |-> NoToken]

Rows == {u \in UUIDs : users[u] # NoRow}

Init ==
  /\ users = [u \in UUIDs |-> NoRow]
  /\ table = FALSE
  /\ starts = 0
  /\ running = FALSE
  /\ secret = None
  /\ database = FALSE
  /\ once = "new"
  /\ schemaErr = FALSE
  /\ tokens = {}
  /\ expired = {}
  /\ pc = [r \in Requests |-> "new"]
  /\ request = [r \in Requests |-> NoRequest]
  /\ id = [r \in Requests |-> None]
  /\ result = [r \in Requests |-> "none"]

-----------------------------------------------------------------------------
(* The process.                                                            *)

\* main: SetJWTSecret panics if the secret is blank; without a database, or one
\* whose schema cannot be initialised, the server runs all the same.
Start ==
  /\ ~running
  /\ starts < MaxStarts
  /\ starts' = starts + 1
  /\ \E s \in Secrets, d \in BOOLEAN :
       /\ running' = (s # Blank)
       /\ secret' = IF s \in {Unset, Blank} THEN None ELSE s
       /\ database' = (d /\ s # Blank)
  /\ once' = "new"
  /\ schemaErr' = FALSE
  /\ UNCHANGED <<users, table, tokens, expired, pc, request, id, result>>

\* The process ends, with it the requests it was serving.
Crash ==
  /\ running
  /\ running' = FALSE
  /\ result' = [r \in Requests |-> IF pc[r] \in {"new", "done"} THEN result[r] ELSE "lost"]
  /\ pc' = [r \in Requests |-> IF pc[r] = "new" THEN "new" ELSE "done"]
  /\ UNCHANGED <<users, table, starts, secret, database, schema, tokens, expired, request, id>>

Expire ==
  /\ \E t \in tokens \ expired : expired' = expired \cup {t}
  /\ UNCHANGED <<users, table, process, schema, tokens, pc, request, id, result>>

-----------------------------------------------------------------------------
(* Steps of a request.                                                     *)

At(r, label) == running /\ pc[r] = label

Goto(r, label) ==
  /\ pc' = [pc EXCEPT ![r] = label]
  /\ UNCHANGED result

Answer(r, text) ==
  /\ pc' = [pc EXCEPT ![r] = "done"]
  /\ result' = [result EXCEPT ![r] = text]

ToLowerForgotten(e) == e
ToLower(e) == [e EXCEPT !.upper = FALSE]

(* NewRegistrationHandler *)

\* The method and the database are checked before the body is read.
Register(r, e, p) ==
  /\ At(r, "new")
  /\ request' = [request EXCEPT ![r].email = e, ![r].password = p]
  /\ IF database THEN Goto(r, "once") ELSE Answer(r, "unavailable")
  /\ UNCHANGED <<users, table, process, schema, tokens, expired, id>>

EnterOnceUnguarded(r) ==
  /\ At(r, "once")
  /\ \/ /\ once \in {"new", "running"}
        /\ once' = "running"
        /\ Goto(r, "createTable")
     \/ /\ once = "done"
        /\ UNCHANGED once
        /\ Goto(r, "schema")
  /\ UNCHANGED <<users, table, process, schemaErr, tokens, expired, request, id>>

EnterOnceNoWait(r) ==
  /\ At(r, "once")
  /\ \/ /\ once = "new"
        /\ once' = "running"
        /\ Goto(r, "createTable")
     \/ /\ once # "new"
        /\ UNCHANGED once
        /\ Goto(r, "schema")
  /\ UNCHANGED <<users, table, process, schemaErr, tokens, expired, request, id>>

\* schemaOnce.Do: the first request runs the function, the others wait for it.
EnterOnce(r) ==
  /\ At(r, "once")
  /\ \/ /\ once = "new"
        /\ once' = "running"
        /\ Goto(r, "createTable")
     \/ /\ once = "done"
        /\ UNCHANGED once
        /\ Goto(r, "schema")
  /\ UNCHANGED <<users, table, process, schemaErr, tokens, expired, request, id>>

\* CREATE TABLE IF NOT EXISTS in the context of this request; what it returns is
\* remembered as long as the process runs.
CreateTable(r) ==
  /\ At(r, "createTable")
  /\ \E created, failed \in BOOLEAN :
       /\ created \/ failed
       /\ table' = (table \/ created)
       /\ schemaErr' = failed
  /\ once' = "done"
  /\ Goto(r, "schema")
  /\ UNCHANGED <<users, process, tokens, expired, request, id>>

CheckSchema(r) ==
  /\ At(r, "schema")
  /\ IF schemaErr THEN Answer(r, "schema_error") ELSE Goto(r, "body")
  /\ UNCHANGED <<users, table, process, schema, tokens, expired, request, id>>

\* The body: an address without @ or a body that is no JSON, a short password,
\* one that bcrypt refuses; then the id is drawn.
CheckBody(r) ==
  /\ At(r, "body")
  /\ \/ /\ request[r].email = None \/ request[r].password = TooShort
        /\ Answer(r, "bad_request")
        /\ UNCHANGED <<request, id>>
     \/ /\ request[r].email # None
        /\ request[r].password = TooLong
        /\ Answer(r, "error")
        /\ UNCHANGED <<request, id>>
     \/ /\ request[r].email # None
        /\ request[r].password \in Passwords
        /\ request' = [request EXCEPT ![r].email = ToLower(@)]
        /\ \E u \in UUIDs \ Rows :
             /\ \A q \in Requests : id[q] # u
             /\ id' = [id EXCEPT ![r] = u]
        /\ Goto(r, "insert")
  /\ UNCHANGED <<users, table, process, schema, tokens, expired>>

Taken(e) == \E u \in Rows : users[u].email = e

InsertRow(r) ==
  users' = [users EXCEPT ![id[r]] = [email |-> request[r].email, password |-> request[r].password]]

InsertErrorsAlike(r) ==
  /\ At(r, "insert")
  /\ \/ /\ ~table \/ Taken(request[r].email)
        /\ Answer(r, "conflict")
        /\ UNCHANGED users
     \/ /\ table /\ ~Taken(request[r].email)
        /\ \/ InsertRow(r) /\ Answer(r, "created")
           \/ InsertRow(r) /\ Answer(r, "error")
           \/ UNCHANGED users /\ Answer(r, "conflict")
  /\ UNCHANGED <<table, process, schema, tokens, expired, request, id>>

\* INSERT INTO bricspay_users under UNIQUE (email); only the text of a unique
\* violation is answered 409.
Insert(r) ==
  /\ At(r, "insert")
  /\ \/ /\ ~table
        /\ Answer(r, "error")
        /\ UNCHANGED users
     \/ /\ table /\ Taken(request[r].email)
        /\ Answer(r, "conflict")
        /\ UNCHANGED users
     \/ /\ table /\ ~Taken(request[r].email)
        /\ \/ InsertRow(r) /\ Answer(r, "created")
           \/ InsertRow(r) /\ Answer(r, "error")
           \/ UNCHANGED users /\ Answer(r, "error")
  /\ UNCHANGED <<table, process, schema, tokens, expired, request, id>>

(* HandleLogin *)

\* The body is checked before the database.
Login(r, e, p) ==
  /\ At(r, "new")
  /\ request' = [request EXCEPT ![r].email = e, ![r].password = p]
  /\ IF e = None THEN Answer(r, "bad_request")
     ELSE IF database THEN Goto(r, "select") ELSE Answer(r, "unavailable")
  /\ UNCHANGED <<users, table, process, schema, tokens, expired, id>>

\* SELECT id, password_hash WHERE email = ToLower(email), and its errors.
SelectUser(r) ==
  LET found == {u \in Rows : users[u].email = ToLower(request[r].email)} IN
  /\ At(r, "select")
  /\ \/ /\ Answer(r, "error")
        /\ UNCHANGED id
     \/ /\ table
        /\ found = {}
        /\ Answer(r, "unauthorized")
        /\ UNCHANGED id
     \/ /\ table
        /\ \E u \in found : id' = [id EXCEPT ![r] = u]
        /\ Goto(r, "password")
  /\ UNCHANGED <<users, table, process, schema, tokens, expired, request>>

CheckPasswordSkipped(r) ==
  /\ At(r, "password")
  /\ Goto(r, "token")
  /\ UNCHANGED <<users, table, process, schema, tokens, expired, request, id>>

\* CompareHashAndPassword with the hash that was read; rows never change.
CheckPassword(r) ==
  /\ At(r, "password")
  /\ IF users[id[r]].password = request[r].password THEN Goto(r, "token")
     ELSE Answer(r, "unauthorized")
  /\ UNCHANGED <<users, table, process, schema, tokens, expired, request, id>>

\* IssueToken, which fails with ErrEmptySecret; the times in a token tell the
\* logins of a user apart.
IssueToken(r) ==
  /\ At(r, "token")
  /\ \/ /\ secret = None
        /\ Answer(r, "no_token")
        /\ UNCHANGED tokens
     \/ /\ secret # None
        /\ tokens' = tokens \cup {[user |-> id[r], secret |-> secret, login |-> r]}
        /\ Answer(r, "ok")
  /\ UNCHANGED <<users, table, process, schema, expired, request, id>>

(* auth.Middleware and principalUserID64, in front of HandleKYCUpload *)

ValidAnyToken(t) == secret # None /\ t # NoToken
Valid(t) == secret # None /\ t.secret = secret /\ t \notin expired

\* The user id as an integer, or 0: no UUID is a decimal number.
ParseInt(u) == IF u \in Int THEN u ELSE 0

\* Its user id is parsed only after the token is valid; what a handler does
\* with the integer it gets is not part of this module.
Upload(r, t) ==
  /\ At(r, "new")
  /\ request' = [request EXCEPT ![r].token = t]
  /\ \/ /\ ~Valid(t)
        /\ Answer(r, "unauthorized")
        /\ UNCHANGED id
     \/ /\ Valid(t)
        /\ id' = [id EXCEPT ![r] = t.user]
        /\ Answer(r, IF ParseInt(t.user) > 0 THEN "accepted" ELSE "invalid_user_id")
  /\ UNCHANGED <<users, table, process, schema, tokens, expired>>

Arrive(r) ==
  \/ \E e \in Typed \cup {None}, p \in AnyPassword : Register(r, e, p) \/ Login(r, e, p)
  \/ \E t \in tokens \cup {NoToken} : Upload(r, t)

Serve(r) ==
  \/ EnterOnce(r)
  \/ CreateTable(r)
  \/ CheckSchema(r)
  \/ CheckBody(r)
  \/ Insert(r)
  \/ SelectUser(r)
  \/ CheckPassword(r)
  \/ IssueToken(r)

Next ==
  \/ Start \/ Crash \/ Expire
  \/ \E r \in Requests : Arrive(r) \/ Serve(r)

Spec == Init /\ [][Next]_vars

-----------------------------------------------------------------------------
(* Properties.                                                             *)

Labels == {"new", "once", "createTable", "schema", "body", "insert", "select", "password",
           "token", "done"}
Results == {"none", "lost", "unavailable", "schema_error", "bad_request", "error", "conflict",
            "created", "unauthorized", "no_token", "ok", "invalid_user_id", "accepted"}

\* schemaOnce is open to one request at a time.
TypeOK ==
  /\ users \in [UUIDs -> [email : Typed \cup {None}, password : Passwords \cup {None}]]
  /\ table \in BOOLEAN
  /\ starts \in 0..MaxStarts
  /\ running \in BOOLEAN
  /\ secret \in (Secrets \ {Unset, Blank}) \cup {None}
  /\ database \in BOOLEAN
  /\ once \in {"new", "running", "done"}
  /\ schemaErr \in BOOLEAN
  /\ \A r, q \in Requests : pc[r] = "createTable" /\ pc[q] = "createTable" => r = q
  /\ expired \subseteq tokens
  /\ tokens \subseteq [user : UUIDs, secret : Secrets, login : Requests]
  /\ pc \in [Requests -> Labels]
  /\ request \in [Requests -> [email : Typed \cup {None}, password : AnyPassword \cup {None},
                               token : tokens \cup {NoToken}]]
  /\ id \in [Requests -> UUIDs \cup {None}]
  /\ result \in [Requests -> Results]

\* One address has one account, however it is typed and however many requests
\* register it at once, before and after a restart.
OneAccountPerAddress ==
  \A u, v \in Rows : users[u].email.name = users[v].email.name => u = v

\* What the handlers answered is true of the table, whatever else registered at
\* the time and however often the process ended since.
AnswersMatchTable ==
  \A r \in Requests :
    /\ result[r] = "created" =>
         users[id[r]] = [email |-> ToLower(request[r].email), password |-> request[r].password]
    /\ result[r] = "conflict" => Taken(ToLower(request[r].email))
    /\ result[r] = "ok" =>
         /\ users[id[r]].email.name = request[r].email.name
         /\ users[id[r]].password = request[r].password

\* A request is let in as a user only by a token that a login, with the password
\* of that user, was given by a process with the secret of this one.
LetInByLogin ==
  [][\A r \in Requests :
       result'[r] \in {"accepted", "invalid_user_id"} /\ result[r] = "none" =>
         /\ id'[r] \in Rows
         /\ request'[r].token.secret = secret
         /\ LET q == request'[r].token.login IN result[q] = "ok" /\ id[q] = id'[r]]_vars

\* While schemaOnce is running, some request of this process is running it, so
\* that those who wait in schemaOnce.Do never wait for one that gave up or has
\* ended; and no registration gets as far as its INSERT without the table, though
\* only one request creates it.
TableBeforeInsert ==
  /\ running /\ once = "running" => \E r \in Requests : pc[r] = "createTable"
  /\ \A r \in Requests : pc[r] \in {"body", "insert"} => table

\* The comment of Claims, "UUID primary keys are supported": a user logged in by
\* HandleLogin is accepted where a principal is asked for.
UUIDsSupported == \A r \in Requests : result[r] # "invalid_user_id"
=============================================================================
