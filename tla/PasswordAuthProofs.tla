------------------------- MODULE PasswordAuthProofs -------------------------
(***************************************************************************)
(* Theorems about PasswordAuth for every set of requests, addresses,        *)
(* passwords, ids and secrets, and any number of restarts: the inductive    *)
(* invariant IInv and the safety properties that follow from it.           *)
(***************************************************************************)
EXTENDS PasswordAuth, TLAPS

\* A process that does not run serves nobody; who is being served has no answer.
ServedWhileRunning ==
  \A r \in Requests :
    /\ pc[r] # "done" => result[r] = "none"
    /\ ~running => pc[r] \in {"new", "done"}

\* What schemaOnce and schemaErr say of the table.
OnceTellsTable ==
  /\ \A r \in Requests : pc[r] = "createTable" => once = "running"
  /\ \A r \in Requests : pc[r] = "schema" => once = "done"
  /\ once = "done" /\ ~schemaErr => table
  /\ TableBeforeInsert

\* A row has an address in lower case, which no other row has, and a registration
\* about to insert has one too, with an id that nobody else has seen.
RowsDiffer ==
  /\ \A u \in Rows : users[u].email \in Typed /\ ~users[u].email.upper
  /\ \A u, v \in Rows : users[u].email = users[v].email => u = v
  /\ \A r \in Requests : pc[r] = "insert" =>
       /\ request[r].email \in Typed /\ ~request[r].email.upper
       /\ request[r].password \in Passwords
       /\ id[r] \in UUIDs \ Rows
       /\ \A q \in Requests : id[q] = id[r] => q = r

\* A login found the row of its address, and past the comparison its password.
LoginsFindRows ==
  \A r \in Requests :
    /\ pc[r] = "select" => request[r].email \in Typed
    /\ pc[r] \in {"password", "token"} \/ result[r] = "ok" =>
         /\ id[r] \in Rows
         /\ users[id[r]].email.name = request[r].email.name
    /\ pc[r] = "token" \/ result[r] = "ok" =>
         users[id[r]].password = request[r].password

\* A token was given to a login of the user it names.
TokensFromLogins ==
  \A t \in tokens :
    /\ t.user \in Rows
    /\ t.login \in Requests
    /\ result[t.login] = "ok"
    /\ id[t.login] = t.user

IInv ==
  /\ TypeOK
  /\ ServedWhileRunning
  /\ OnceTellsTable
  /\ RowsDiffer
  /\ LoginsFindRows
  /\ AnswersMatchTable
  /\ TokensFromLogins

-----------------------------------------------------------------------------
LEMMA InitIInv == Init => IInv
  <1> SUFFICES ASSUME Init PROVE IInv
    OBVIOUS
  <1>1. TypeOK
    <2>1. users \in [UUIDs -> [email : Typed \cup {None}, password : Passwords \cup {None}]]
      BY DEF Init, NoRow
    <2>2. request \in [Requests -> [email : Typed \cup {None}, password : AnyPassword \cup {None},
                                    token : tokens \cup {NoToken}]]
      BY DEF Init, NoRequest
    <2>3. starts \in 0..MaxStarts
      BY StartsAssumption DEF Init
    <2> QED
      BY <2>1, <2>2, <2>3 DEF Init, TypeOK, Labels, Results
  <1>2. Rows = {}
    BY DEF Init, Rows
  <1>3. ServedWhileRunning /\ OnceTellsTable /\ RowsDiffer /\ LoginsFindRows
    BY <1>2 DEF Init, ServedWhileRunning, OnceTellsTable, TableBeforeInsert, RowsDiffer, LoginsFindRows
  <1>4. AnswersMatchTable /\ TokensFromLogins
    BY DEF Init, AnswersMatchTable, TokensFromLogins
  <1> QED
    BY <1>1, <1>3, <1>4 DEF IInv

-----------------------------------------------------------------------------
(* One lemma per action.                                                   *)

\* schemaOnce starts anew, in a process that serves nobody yet.
LEMMA StartIInv ==
  ASSUME IInv, Start
  PROVE  IInv'
  <1> USE DEF Start
  <1>1. TypeOK'
    <2>1. starts' \in 0..MaxStarts
      BY StartsAssumption DEF IInv, TypeOK
    <2>2. secret' \in (Secrets \ {Unset, Blank}) \cup {None} /\ {running', database'} \subseteq BOOLEAN
      OBVIOUS
    <2> QED
      BY <2>1, <2>2 DEF IInv, TypeOK
  <1>2. ServedWhileRunning' /\ OnceTellsTable'
    BY DEF IInv, ServedWhileRunning, OnceTellsTable, TableBeforeInsert
  <1>3. RowsDiffer' /\ LoginsFindRows' /\ AnswersMatchTable' /\ TokensFromLogins'
    BY DEF IInv, RowsDiffer, LoginsFindRows, AnswersMatchTable, TokensFromLogins, Rows, Taken
  <1> QED
    BY <1>1, <1>2, <1>3 DEF IInv

\* What was answered stays answered; the rest is lost.
LEMMA CrashIInv ==
  ASSUME IInv, Crash
  PROVE  IInv'
  <1> USE DEF Crash, schema
  <1>0. \A r \in Requests :
          /\ pc'[r] \in {"new", "done"}
          /\ pc'[r] = "new" => pc[r] = "new" /\ result'[r] = result[r]
          /\ result'[r] \in {result[r], "lost"}
          /\ pc[r] = "done" => result'[r] = result[r]
          /\ result[r] # "none" => result'[r] = result[r]
    BY DEF IInv, ServedWhileRunning
  <1>1. TypeOK'
    BY DEF IInv, TypeOK, Labels, Results
  <1>2. ServedWhileRunning' /\ OnceTellsTable'
    BY <1>0 DEF IInv, ServedWhileRunning, OnceTellsTable, TableBeforeInsert
  <1>3. RowsDiffer' /\ LoginsFindRows'
    BY <1>0 DEF IInv, RowsDiffer, LoginsFindRows, Rows
  <1>4. AnswersMatchTable' /\ TokensFromLogins'
    BY <1>0 DEF IInv, AnswersMatchTable, TokensFromLogins, Rows, Taken
  <1> QED
    BY <1>1, <1>2, <1>3, <1>4 DEF IInv

LEMMA ExpireIInv ==
  ASSUME IInv, Expire
  PROVE  IInv'
  <1> USE DEF Expire, process, schema
  <1>1. TypeOK'
    BY DEF IInv, TypeOK
  <1>2. ServedWhileRunning' /\ OnceTellsTable'
    BY DEF IInv, ServedWhileRunning, OnceTellsTable, TableBeforeInsert
  <1>3. RowsDiffer' /\ LoginsFindRows' /\ AnswersMatchTable' /\ TokensFromLogins'
    BY DEF IInv, RowsDiffer, LoginsFindRows, AnswersMatchTable, TokensFromLogins, Rows, Taken
  <1> QED
    BY <1>1, <1>2, <1>3 DEF IInv

\* A request is answered with something that promises nothing of the table.
LEMMA RefuseIInv ==
  ASSUME IInv, NEW r \in Requests, NEW text \in Results \ {"created", "conflict", "ok"},
         Answer(r, text), pc[r] \notin {"createTable", "done"},
         UNCHANGED <<users, table, process, schema, tokens, expired, request, id>>
  PROVE  IInv'
  <1> USE DEF Answer, process, schema
  <1>1. TypeOK'
    BY DEF IInv, TypeOK, Labels
  <1>2. ServedWhileRunning' /\ OnceTellsTable'
    BY DEF IInv, TypeOK, ServedWhileRunning, OnceTellsTable, TableBeforeInsert
  <1>3. RowsDiffer' /\ LoginsFindRows'
    BY DEF IInv, TypeOK, RowsDiffer, LoginsFindRows, Rows
  <1>4. AnswersMatchTable'
    BY DEF IInv, TypeOK, AnswersMatchTable, Rows, Taken
  <1>5. TokensFromLogins'
    <2>1. \A t \in tokens : t.login # r
      BY DEF IInv, ServedWhileRunning, TokensFromLogins
    <2> QED
      BY <2>1 DEF IInv, TypeOK, TokensFromLogins, Rows
  <1> QED
    BY <1>1, <1>2, <1>3, <1>4, <1>5 DEF IInv

\* A registration or a login arrives.
LEMMA ReceiveIInv ==
  ASSUME IInv, NEW r \in Requests, NEW e \in Typed \cup {None}, NEW p \in AnyPassword,
         At(r, "new"),
         request' = [request EXCEPT ![r].email = e, ![r].password = p],
         \/ Goto(r, "once")
         \/ e # None /\ Goto(r, "select")
         \/ \E text \in {"unavailable", "bad_request"} : Answer(r, text),
         UNCHANGED <<users, table, process, schema, tokens, expired, id>>
  PROVE  IInv'
  <1> USE DEF At, Goto, Answer, process, schema
  <1>0. /\ pc[r] = "new" /\ running /\ result[r] = "none"
        /\ pc' \in [Requests -> Labels] /\ result' \in [Requests -> Results]
        /\ pc'[r] \in {"once", "select", "done"}
        /\ pc'[r] # "done" => result'[r] = "none"
        /\ pc'[r] = "select" => e \in Typed
        /\ result'[r] \in {"none", "unavailable", "bad_request"}
        /\ \A q \in Requests \ {r} : pc'[q] = pc[q] /\ result'[q] = result[q]
    BY DEF IInv, TypeOK, ServedWhileRunning, Labels, Results
  <1>a. /\ request'[r].email = e
        /\ \A q \in Requests \ {r} : request'[q] = request[q]
        /\ request' \in [Requests -> [email : Typed \cup {None}, password : AnyPassword \cup {None},
                                      token : tokens \cup {NoToken}]]
    <2> DEFINE Carried == [email : Typed \cup {None}, password : AnyPassword \cup {None},
                           token : tokens \cup {NoToken}]
               sent == [request[r] EXCEPT !.email = e, !.password = p]
    <2>1. request \in [Requests -> Carried]
      BY DEF IInv, TypeOK
    <2>2. sent \in Carried /\ sent.email = e
      BY <2>1
    <2>3. request' = [request EXCEPT ![r] = sent]
      BY <2>1
    <2> HIDE DEF Carried, sent
    <2>4. /\ request'[r] = sent /\ request' \in [Requests -> Carried]
          /\ \A q \in Requests \ {r} : request'[q] = request[q]
      BY <2>1, <2>2, <2>3
    <2> QED
      BY <2>2, <2>4 DEF Carried
  <1> HIDE DEF Goto, Answer
  <1>1. TypeOK'
    BY <1>0, <1>a DEF IInv, TypeOK
  <1>2. ServedWhileRunning' /\ OnceTellsTable'
    BY <1>0 DEF IInv, ServedWhileRunning, OnceTellsTable, TableBeforeInsert
  <1>3. RowsDiffer'
    BY <1>0, <1>a DEF IInv, RowsDiffer, Rows
  <1>4. LoginsFindRows'
    BY <1>0, <1>a DEF IInv, LoginsFindRows, Rows
  <1>5. AnswersMatchTable' /\ TokensFromLogins'
    BY <1>0, <1>a DEF IInv, AnswersMatchTable, TokensFromLogins, Rows, Taken
  <1> QED
    BY <1>1, <1>2, <1>3, <1>4, <1>5 DEF IInv

\* schemaOnce.Do: the one request that enters runs the function.
LEMMA EnterOnceIInv ==
  ASSUME IInv, NEW r \in Requests, EnterOnce(r)
  PROVE  IInv'
  <1> USE DEF EnterOnce, At, Goto, process
  <1>0. pc[r] = "once" /\ running /\ result[r] = "none"
    BY DEF IInv, ServedWhileRunning
  <1>1. TypeOK'
    BY <1>0 DEF IInv, TypeOK, OnceTellsTable, Labels
  <1>2. ServedWhileRunning' /\ OnceTellsTable'
    BY <1>0 DEF IInv, TypeOK, ServedWhileRunning, OnceTellsTable, TableBeforeInsert
  <1>3. RowsDiffer' /\ LoginsFindRows'
    BY <1>0 DEF IInv, TypeOK, RowsDiffer, LoginsFindRows, Rows
  <1>4. AnswersMatchTable' /\ TokensFromLogins'
    BY DEF IInv, AnswersMatchTable, TokensFromLogins, Rows, Taken
  <1> QED
    BY <1>1, <1>2, <1>3, <1>4 DEF IInv

\* What CREATE TABLE returned is remembered: without an error there is a table.
LEMMA CreateTableIInv ==
  ASSUME IInv, NEW r \in Requests, CreateTable(r)
  PROVE  IInv'
  <1> USE DEF CreateTable, At, Goto, process
  <1>0. /\ pc[r] = "createTable" /\ running /\ result[r] = "none"
        /\ \A q \in Requests : pc[q] = "createTable" => q = r
        /\ table => table'
        /\ ~schemaErr' => table'
    BY DEF IInv, TypeOK, ServedWhileRunning
  <1>1. TypeOK'
    BY <1>0 DEF IInv, TypeOK, Labels
  <1>2. ServedWhileRunning' /\ OnceTellsTable'
    BY <1>0 DEF IInv, TypeOK, ServedWhileRunning, OnceTellsTable, TableBeforeInsert
  <1>3. RowsDiffer' /\ LoginsFindRows'
    BY <1>0 DEF IInv, TypeOK, RowsDiffer, LoginsFindRows, Rows
  <1>4. AnswersMatchTable' /\ TokensFromLogins'
    BY DEF IInv, AnswersMatchTable, TokensFromLogins, Rows, Taken
  <1> QED
    BY <1>1, <1>2, <1>3, <1>4 DEF IInv

\* No remembered error: the request goes on, and there is a table.
LEMMA SchemaIInv ==
  ASSUME IInv, NEW r \in Requests, At(r, "schema"), ~schemaErr, Goto(r, "body"),
         UNCHANGED <<users, table, process, schema, tokens, expired, request, id>>
  PROVE  IInv'
  <1> USE DEF At, Goto, process, schema
  <1>0. pc[r] = "schema" /\ running /\ result[r] = "none" /\ table
    BY DEF IInv, ServedWhileRunning, OnceTellsTable
  <1>1. TypeOK'
    BY <1>0 DEF IInv, TypeOK, Labels
  <1>2. ServedWhileRunning' /\ OnceTellsTable'
    BY <1>0 DEF IInv, TypeOK, ServedWhileRunning, OnceTellsTable, TableBeforeInsert
  <1>3. RowsDiffer' /\ LoginsFindRows'
    BY <1>0 DEF IInv, TypeOK, RowsDiffer, LoginsFindRows, Rows
  <1>4. AnswersMatchTable' /\ TokensFromLogins'
    BY DEF IInv, AnswersMatchTable, TokensFromLogins, Rows, Taken
  <1> QED
    BY <1>1, <1>2, <1>3, <1>4 DEF IInv

\* The address is in lower case from here on, and the id is new.
LEMMA BodyIInv ==
  ASSUME IInv, NEW r \in Requests, At(r, "body"),
         request[r].email # None, request[r].password \in Passwords,
         request' = [request EXCEPT ![r].email = ToLower(@)],
         NEW u \in UUIDs \ Rows, \A q \in Requests : id[q] # u,
         id' = [id EXCEPT ![r] = u],
         Goto(r, "insert"),
         UNCHANGED <<users, table, process, schema, tokens, expired>>
  PROVE  IInv'
  <1> USE DEF At, Goto, process, schema
  <1>0. /\ pc[r] = "body" /\ running /\ result[r] = "none" /\ table
        /\ request[r].email \in Typed
        /\ ToLower(request[r].email) \in Typed /\ ~ToLower(request[r].email).upper
    <2>1. request[r].email \in Typed
      BY DEF IInv, TypeOK
    <2>2. \A e \in Typed : ToLower(e) \in Typed /\ ~ToLower(e).upper
      BY DEF Typed, ToLower
    <2> QED
      BY <2>1, <2>2 DEF IInv, ServedWhileRunning, OnceTellsTable, TableBeforeInsert
  <1>a. /\ pc'[r] = "insert" /\ id'[r] = u
        /\ request'[r].email = ToLower(request[r].email)
        /\ request'[r].password = request[r].password
        /\ \A q \in Requests \ {r} : pc'[q] = pc[q] /\ id'[q] = id[q] /\ request'[q] = request[q]
        /\ UNCHANGED <<result, users, tokens, table, running>>
    BY DEF IInv, TypeOK
  <1>1. TypeOK'
    <2>1. request' \in [Requests -> [email : Typed \cup {None}, password : AnyPassword \cup {None},
                                     token : tokens \cup {NoToken}]]
      BY <1>0 DEF IInv, TypeOK
    <2> QED
      BY <1>0, <2>1 DEF IInv, TypeOK, Labels
  <1>2. ServedWhileRunning' /\ OnceTellsTable'
    BY <1>0, <1>a DEF IInv, ServedWhileRunning, OnceTellsTable, TableBeforeInsert
  <1>3. RowsDiffer'
    BY <1>0, <1>a DEF IInv, RowsDiffer, Rows
  <1>4. LoginsFindRows'
    BY <1>0, <1>a DEF IInv, LoginsFindRows, Rows
  <1>5. AnswersMatchTable'
    BY <1>0, <1>a DEF IInv, AnswersMatchTable, Rows, Taken
  <1>6. TokensFromLogins'
    BY <1>0, <1>a DEF IInv, TokensFromLogins, Rows
  <1> QED
    BY <1>1, <1>2, <1>3, <1>4, <1>5, <1>6 DEF IInv

\* A row is added: no other row has its address, and no row changes.
LEMMA InsertRowIInv ==
  ASSUME IInv, NEW r \in Requests, At(r, "insert"), ~Taken(request[r].email),
         InsertRow(r), Answer(r, "created") \/ Answer(r, "error"),
         UNCHANGED <<table, process, schema, tokens, expired, request, id>>
  PROVE  IInv'
  <1> DEFINE row == [email |-> request[r].email, password |-> request[r].password]
  <1> USE DEF process, schema
  <1>0. /\ pc[r] = "insert" /\ running /\ result[r] = "none"
        /\ pc'[r] = "done" /\ result'[r] \in {"created", "error"}
        /\ pc' \in [Requests -> Labels] /\ result' \in [Requests -> Results]
        /\ \A q \in Requests \ {r} : pc'[q] = pc[q] /\ result'[q] = result[q]
    BY DEF At, Answer, IInv, TypeOK, ServedWhileRunning, Labels, Results
  <1>a. /\ id[r] \in UUIDs \ Rows
        /\ row.email \in Typed /\ ~row.email.upper /\ row.password \in Passwords
        /\ \A u \in Rows : users[u].email # row.email
        /\ \A q \in Requests : id[q] = id[r] => q = r
    BY <1>0 DEF IInv, RowsDiffer, Taken
  <1>b. /\ users'[id[r]] = row
        /\ \A u \in UUIDs \ {id[r]} : users'[u] = users[u]
        /\ Rows' = Rows \cup {id[r]}
    <2>1. row # NoRow
      BY <1>a, NoneAssumption DEF NoRow
    <2>2. users'[id[r]] = row /\ \A u \in UUIDs \ {id[r]} : users'[u] = users[u]
      BY <1>a DEF InsertRow, IInv, TypeOK
    <2> QED
      BY <1>a, <2>1, <2>2 DEF Rows
  <1> HIDE DEF row
  <1>1. TypeOK'
    <2>1. row \in [email : Typed \cup {None}, password : Passwords \cup {None}]
      BY <1>a DEF row
    <2>2. users' \in [UUIDs -> [email : Typed \cup {None}, password : Passwords \cup {None}]]
      BY <2>1 DEF InsertRow, row, IInv, TypeOK
    <2> QED
      BY <1>0, <2>2 DEF IInv, TypeOK
  <1>2. ServedWhileRunning' /\ OnceTellsTable'
    BY <1>0 DEF IInv, ServedWhileRunning, OnceTellsTable, TableBeforeInsert
  <1>3. RowsDiffer'
    <2>0. \A u \in Rows : users'[u] = users[u] /\ u # id[r]
      BY <1>a, <1>b DEF Rows
    <2>1. \A u \in Rows' : users'[u].email \in Typed /\ ~users'[u].email.upper
      BY <1>a, <1>b, <2>0 DEF IInv, RowsDiffer
    <2>2. \A u, v \in Rows' : users'[u].email = users'[v].email => u = v
      BY <1>a, <1>b DEF IInv, RowsDiffer, Rows
    <2>3. ASSUME NEW q \in Requests, pc'[q] = "insert"
          PROVE  /\ request'[q].email \in Typed /\ ~request'[q].email.upper
                 /\ request'[q].password \in Passwords
                 /\ id'[q] \in UUIDs \ Rows'
                 /\ \A p \in Requests : id'[p] = id'[q] => p = q
      BY <1>0, <1>a, <1>b, <2>3 DEF IInv, RowsDiffer
    <2> QED
      BY <2>1, <2>2, <2>3 DEF RowsDiffer
  <1>4. LoginsFindRows'
    BY <1>0, <1>a, <1>b DEF IInv, LoginsFindRows, Rows
  <1>5. AnswersMatchTable'
    <2>1. ASSUME NEW q \in Requests, result'[q] = "created"
          PROVE  users'[id'[q]] = [email |-> ToLower(request'[q].email), password |-> request'[q].password]
      <3>1. CASE q = r
        <4>1. ToLower(request[r].email) = request[r].email
          BY <1>a DEF Typed, ToLower, row
        <4> QED
          BY <1>b, <3>1, <4>1 DEF row
      <3>2. CASE q # r
        BY <1>0, <1>a, <1>b, <2>1, <3>2 DEF IInv, TypeOK, AnswersMatchTable, InsertRow
      <3> QED
        BY <3>1, <3>2
    <2>2. ASSUME NEW q \in Requests, result'[q] = "conflict"
          PROVE  Taken(ToLower(request[q].email))'
      <3>1. result[q] = "conflict" /\ request'[q] = request[q]
        BY <1>0, <2>2
      <3>2. PICK u \in Rows : users[u].email = ToLower(request[q].email)
        BY <3>1 DEF IInv, AnswersMatchTable, Taken
      <3>3. u \in Rows' /\ users'[u].email = users[u].email
        BY <1>a, <1>b, <3>2 DEF Rows
      <3>4. users'[u].email = ToLower(request'[q].email)
        BY <3>1, <3>2, <3>3
      <3> QED
        BY <3>3, <3>4 DEF Taken
    <2>3. ASSUME NEW q \in Requests, result'[q] = "ok"
          PROVE  /\ users'[id'[q]].email.name = request'[q].email.name
                 /\ users'[id'[q]].password = request'[q].password
      BY <1>0, <1>a, <1>b, <2>3 DEF IInv, LoginsFindRows, Rows
    <2> QED
      BY <2>1, <2>2, <2>3 DEF AnswersMatchTable
  <1>6. TokensFromLogins'
    BY <1>0, <1>b DEF IInv, TokensFromLogins
  <1> QED
    BY <1>1, <1>2, <1>3, <1>4, <1>5, <1>6 DEF IInv

\* The row that takes the address is there, and stays.
LEMMA ConflictIInv ==
  ASSUME IInv, NEW r \in Requests, At(r, "insert"), Taken(request[r].email),
         Answer(r, "conflict"),
         UNCHANGED <<users, table, process, schema, tokens, expired, request, id>>
  PROVE  IInv'
  <1> USE DEF At, Answer, process, schema
  <1>0. /\ pc[r] = "insert" /\ running /\ result[r] = "none"
        /\ ToLower(request[r].email) = request[r].email
    <2>1. request[r].email \in Typed /\ ~request[r].email.upper
      BY DEF IInv, RowsDiffer
    <2> QED
      BY <2>1 DEF IInv, ServedWhileRunning, Typed, ToLower
  <1>1. TypeOK'
    BY DEF IInv, TypeOK, Labels, Results
  <1>2. ServedWhileRunning' /\ OnceTellsTable'
    BY <1>0 DEF IInv, TypeOK, ServedWhileRunning, OnceTellsTable, TableBeforeInsert
  <1>3. RowsDiffer' /\ LoginsFindRows'
    BY <1>0 DEF IInv, TypeOK, RowsDiffer, LoginsFindRows, Rows
  <1>4. AnswersMatchTable'
    BY <1>0 DEF IInv, TypeOK, AnswersMatchTable, Rows, Taken
  <1>5. TokensFromLogins'
    BY <1>0 DEF IInv, TypeOK, TokensFromLogins, Rows
  <1> QED
    BY <1>1, <1>2, <1>3, <1>4, <1>5 DEF IInv

\* The SELECT finds the row of the address.
LEMMA SelectIInv ==
  ASSUME IInv, NEW r \in Requests, At(r, "select"),
         NEW u \in Rows, users[u].email = ToLower(request[r].email),
         id' = [id EXCEPT ![r] = u],
         Goto(r, "password"),
         UNCHANGED <<users, table, process, schema, tokens, expired, request>>
  PROVE  IInv'
  <1> USE DEF At, Goto, process, schema
  <1>0. /\ pc[r] = "select" /\ running /\ result[r] = "none"
        /\ u \in UUIDs
        /\ users[u].email.name = request[r].email.name
    <2>1. request[r].email \in Typed
      BY DEF IInv, LoginsFindRows
    <2>2. ToLower(request[r].email).name = request[r].email.name
      BY <2>1 DEF Typed, ToLower
    <2> QED
      BY <2>2 DEF IInv, ServedWhileRunning, Rows
  <1>1. TypeOK'
    BY <1>0 DEF IInv, TypeOK, Labels
  <1>2. ServedWhileRunning' /\ OnceTellsTable'
    BY <1>0 DEF IInv, TypeOK, ServedWhileRunning, OnceTellsTable, TableBeforeInsert
  <1>3. RowsDiffer' /\ LoginsFindRows'
    BY <1>0 DEF IInv, TypeOK, RowsDiffer, LoginsFindRows, Rows
  <1>4. AnswersMatchTable'
    BY <1>0 DEF IInv, TypeOK, AnswersMatchTable, Rows, Taken
  <1>5. TokensFromLogins'
    BY <1>0 DEF IInv, TypeOK, TokensFromLogins, Rows
  <1> QED
    BY <1>1, <1>2, <1>3, <1>4, <1>5 DEF IInv

\* The password compared is that of the row, which never changes.
LEMMA PasswordIInv ==
  ASSUME IInv, NEW r \in Requests, At(r, "password"),
         users[id[r]].password = request[r].password,
         Goto(r, "token"),
         UNCHANGED <<users, table, process, schema, tokens, expired, request, id>>
  PROVE  IInv'
  <1> USE DEF At, Goto, process, schema
  <1>0. pc[r] = "password" /\ running /\ result[r] = "none"
    BY DEF IInv, ServedWhileRunning
  <1>1. TypeOK'
    BY <1>0 DEF IInv, TypeOK, Labels
  <1>2. ServedWhileRunning' /\ OnceTellsTable'
    BY <1>0 DEF IInv, TypeOK, ServedWhileRunning, OnceTellsTable, TableBeforeInsert
  <1>3. RowsDiffer' /\ LoginsFindRows'
    BY <1>0 DEF IInv, TypeOK, RowsDiffer, LoginsFindRows, Rows
  <1>4. AnswersMatchTable' /\ TokensFromLogins'
    BY DEF IInv, AnswersMatchTable, TokensFromLogins, Rows, Taken
  <1> QED
    BY <1>1, <1>2, <1>3, <1>4 DEF IInv

\* A token for the user whose password was compared.
LEMMA TokenIInv ==
  ASSUME IInv, NEW r \in Requests, At(r, "token"), secret # None,
         tokens' = tokens \cup {[user |-> id[r], secret |-> secret, login |-> r]},
         Answer(r, "ok"),
         UNCHANGED <<users, table, process, schema, expired, request, id>>
  PROVE  IInv'
  <1> DEFINE token == [user |-> id[r], secret |-> secret, login |-> r]
  <1> USE DEF At, Answer, process, schema
  <1>0. /\ pc[r] = "token" /\ running /\ result[r] = "none"
        /\ id[r] \in Rows /\ id[r] \in UUIDs /\ secret \in Secrets
        /\ users[id[r]].email.name = request[r].email.name
        /\ users[id[r]].password = request[r].password
    BY DEF IInv, TypeOK, ServedWhileRunning, LoginsFindRows, Rows
  <1>1. TypeOK'
    <2>1. token \in [user : UUIDs, secret : Secrets, login : Requests]
      BY <1>0
    <2> QED
      BY <2>1 DEF IInv, TypeOK, Labels, Results
  <1>2. ServedWhileRunning' /\ OnceTellsTable'
    BY <1>0 DEF IInv, TypeOK, ServedWhileRunning, OnceTellsTable, TableBeforeInsert
  <1>3. RowsDiffer' /\ LoginsFindRows'
    BY <1>0 DEF IInv, TypeOK, RowsDiffer, LoginsFindRows, Rows
  <1>4. AnswersMatchTable'
    BY <1>0 DEF IInv, TypeOK, AnswersMatchTable, Rows, Taken
  <1>5. TokensFromLogins'
    <2>1. token.user = id[r] /\ token.login = r /\ result'[r] = "ok"
      BY DEF IInv, TypeOK
    <2> HIDE DEF token
    <2>2. \A t \in tokens : t.login # r
      BY <1>0 DEF IInv, TokensFromLogins
    <2>3. tokens' = tokens \cup {token}
      BY DEF token
    <2> QED
      BY <1>0, <2>1, <2>2, <2>3 DEF IInv, TypeOK, TokensFromLogins, Rows
  <1> QED
    BY <1>1, <1>2, <1>3, <1>4, <1>5 DEF IInv

\* A token that is valid was given to a login, as NoToken has no secret.
LEMMA ValidTokens ==
  ASSUME IInv, NEW t \in tokens \cup {NoToken}, Valid(t)
  PROVE  t \in tokens
  BY DEF Valid, NoToken

\* An upload keeps its token and, if the token is valid, the user it names.
LEMMA UploadIInv ==
  ASSUME IInv, NEW r \in Requests, NEW t \in tokens \cup {NoToken}, Upload(r, t)
  PROVE  IInv'
  <1> USE DEF Upload, At, Answer, process, schema
  <1>0. /\ pc[r] = "new" /\ running /\ result[r] = "none"
        /\ pc'[r] = "done"
        /\ result'[r] \in {"unauthorized", "accepted", "invalid_user_id"}
        /\ pc' \in [Requests -> Labels] /\ result' \in [Requests -> Results]
        /\ \A q \in Requests \ {r} : pc'[q] = pc[q] /\ result'[q] = result[q]
    BY DEF IInv, TypeOK, ServedWhileRunning, Labels, Results
  <1>a. /\ \A q \in Requests \ {r} : request'[q] = request[q]
        /\ request' \in [Requests -> [email : Typed \cup {None}, password : AnyPassword \cup {None},
                                      token : tokens \cup {NoToken}]]
    <2> DEFINE Carried == [email : Typed \cup {None}, password : AnyPassword \cup {None},
                           token : tokens \cup {NoToken}]
               sent == [request[r] EXCEPT !.token = t]
    <2>1. request \in [Requests -> Carried]
      BY DEF IInv, TypeOK
    <2>2. sent \in Carried
      BY <2>1
    <2>3. request' = [request EXCEPT ![r] = sent]
      BY <2>1
    <2> HIDE DEF Carried, sent
    <2>4. /\ request' \in [Requests -> Carried]
          /\ \A q \in Requests \ {r} : request'[q] = request[q]
      BY <2>1, <2>2, <2>3
    <2> QED
      BY <2>4 DEF Carried
  <1>b. /\ id' \in [Requests -> UUIDs \cup {None}]
        /\ id'[r] \in Rows \cup {id[r]}
        /\ \A q \in Requests \ {r} : id'[q] = id[q]
    <2>1. CASE Valid(t)
      <3>1. t.user \in Rows /\ t.user \in UUIDs
        BY <2>1, ValidTokens DEF IInv, TokensFromLogins, Rows
      <3> QED
        BY <2>1, <3>1 DEF IInv, TypeOK
    <2>2. CASE ~Valid(t)
      BY <2>2 DEF IInv, TypeOK
    <2> QED
      BY <2>1, <2>2
  <1>c. UNCHANGED <<users, table, process, schema, tokens, expired>>
    OBVIOUS
  <1> HIDE DEF Upload, Answer
  <1>1. TypeOK'
    BY <1>0, <1>a, <1>b, <1>c DEF IInv, TypeOK
  <1>2. ServedWhileRunning' /\ OnceTellsTable'
    BY <1>0, <1>c DEF IInv, ServedWhileRunning, OnceTellsTable, TableBeforeInsert
  <1>3. RowsDiffer'
    BY <1>0, <1>a, <1>b, <1>c DEF IInv, RowsDiffer, Rows
  <1>4. LoginsFindRows'
    BY <1>0, <1>a, <1>b, <1>c DEF IInv, LoginsFindRows, Rows
  <1>5. AnswersMatchTable'
    BY <1>0, <1>a, <1>b, <1>c DEF IInv, AnswersMatchTable, Rows, Taken
  <1>6. TokensFromLogins'
    BY <1>0, <1>b, <1>c DEF IInv, TokensFromLogins, Rows
  <1> QED
    BY <1>1, <1>2, <1>3, <1>4, <1>5, <1>6 DEF IInv

-----------------------------------------------------------------------------
LEMMA ArriveIInv ==
  ASSUME IInv, NEW r \in Requests, Arrive(r)
  PROVE  IInv'
  <1>1. CASE \E e \in Typed \cup {None}, p \in AnyPassword : Register(r, e, p)
    BY <1>1, ReceiveIInv DEF Register
  <1>2. CASE \E e \in Typed \cup {None}, p \in AnyPassword : Login(r, e, p)
    BY <1>2, ReceiveIInv DEF Login
  <1>3. CASE \E t \in tokens \cup {NoToken} : Upload(r, t)
    BY <1>3, UploadIInv
  <1> QED
    BY <1>1, <1>2, <1>3 DEF Arrive

LEMMA ServeIInv ==
  ASSUME IInv, NEW r \in Requests, Serve(r)
  PROVE  IInv'
  <1> DEFINE Refused(text) ==
               /\ Answer(r, text)
               /\ UNCHANGED <<users, table, process, schema, tokens, expired, request, id>>
  <1>0. ASSUME NEW text \in Results \ {"created", "conflict", "ok"}, Refused(text),
               pc[r] \notin {"createTable", "done"}
        PROVE  IInv'
    BY <1>0, RefuseIInv
  <1>a. {"schema_error", "bad_request", "error", "unauthorized", "no_token"}
          \subseteq Results \ {"created", "conflict", "ok"}
    BY DEF Results
  <1>1. CASE EnterOnce(r)
    BY <1>1, EnterOnceIInv
  <1>2. CASE CreateTable(r)
    BY <1>2, CreateTableIInv
  <1>3. CASE CheckSchema(r)
    <2>1. CASE schemaErr
      BY <1>0, <1>a, <1>3, <2>1 DEF CheckSchema, At
    <2>2. CASE ~schemaErr
      BY <1>3, <2>2, SchemaIInv DEF CheckSchema
    <2> QED
      BY <2>1, <2>2
  <1>4. CASE CheckBody(r)
    <2>1. CASE Refused("bad_request") \/ Refused("error")
      BY <1>0, <1>a, <1>4, <2>1 DEF CheckBody, At
    <2>2. CASE ~(Refused("bad_request") \/ Refused("error"))
      <3>1. /\ request[r].email # None
            /\ request[r].password \in Passwords
            /\ request' = [request EXCEPT ![r].email = ToLower(@)]
            /\ \E u \in UUIDs \ Rows : (\A q \in Requests : id[q] # u) /\ id' = [id EXCEPT ![r] = u]
            /\ Goto(r, "insert")
            /\ UNCHANGED <<users, table, process, schema, tokens, expired>>
        BY <1>4, <2>2 DEF CheckBody
      <3> QED
        BY <1>4, <3>1, BodyIInv DEF CheckBody
    <2> QED
      BY <2>1, <2>2
  <1>5. CASE Insert(r)
    <2>1. CASE Refused("error")
      BY <1>0, <1>a, <1>5, <2>1 DEF Insert, At
    <2>2. CASE Taken(request[r].email) /\ Answer(r, "conflict") /\ UNCHANGED users
      BY <1>5, <2>2, ConflictIInv DEF Insert
    <2>3. CASE /\ ~Taken(request[r].email)
               /\ InsertRow(r)
               /\ Answer(r, "created") \/ Answer(r, "error")
      BY <1>5, <2>3, InsertRowIInv DEF Insert
    <2> QED
      BY <1>5, <2>1, <2>2, <2>3 DEF Insert
  <1>6. CASE SelectUser(r)
    <2>1. CASE Refused("error") \/ Refused("unauthorized")
      BY <1>0, <1>a, <1>6, <2>1 DEF SelectUser, At
    <2>2. CASE ~(Refused("error") \/ Refused("unauthorized"))
      BY <1>6, <2>2, SelectIInv DEF SelectUser
    <2> QED
      BY <2>1, <2>2
  <1>7. CASE CheckPassword(r)
    <2>1. CASE users[id[r]].password = request[r].password
      BY <1>7, <2>1, PasswordIInv DEF CheckPassword
    <2>2. CASE users[id[r]].password # request[r].password
      BY <1>0, <1>a, <1>7, <2>2 DEF CheckPassword, At
    <2> QED
      BY <2>1, <2>2
  <1>8. CASE IssueToken(r)
    <2>1. CASE secret = None
      BY <1>0, <1>a, <1>8, <2>1 DEF IssueToken, At
    <2>2. CASE secret # None
      BY <1>8, <2>2, TokenIInv DEF IssueToken
    <2> QED
      BY <2>1, <2>2
  <1> QED
    BY <1>1, <1>2, <1>3, <1>4, <1>5, <1>6, <1>7, <1>8 DEF Serve

LEMMA NextIInv ==
  ASSUME IInv, [Next]_vars
  PROVE  IInv'
  <1>1. CASE Start
    BY <1>1, StartIInv
  <1>2. CASE Crash
    BY <1>2, CrashIInv
  <1>3. CASE Expire
    BY <1>3, ExpireIInv
  <1>4. CASE \E r \in Requests : Arrive(r) \/ Serve(r)
    BY <1>4, ArriveIInv, ServeIInv
  <1>5. CASE UNCHANGED vars
    BY <1>5 DEF vars, process, schema, IInv, TypeOK, ServedWhileRunning, OnceTellsTable,
                TableBeforeInsert, RowsDiffer, LoginsFindRows, AnswersMatchTable,
                TokensFromLogins, Rows, Taken
  <1> QED
    BY <1>1, <1>2, <1>3, <1>4, <1>5 DEF Next

-----------------------------------------------------------------------------
\* The inductive invariant of registration, password login and tokens: it ties
\* schemaOnce to the table, the rows to the addresses in them, a login to the row
\* it found and a token to the login that was given it.
THEOREM Invariance == Spec => []IInv
  <1> QED
    BY InitIInv, NextIInv, PTL DEF Spec

\* The state is well typed, and at most one request is inside schemaOnce.
THEOREM TypeCorrectness == Spec => []TypeOK
  <1>1. IInv => TypeOK
    BY DEF IInv
  <1> QED
    BY Invariance, <1>1, PTL

\* The UNIQUE (email) of bricspay_users, with the ToLower of both handlers, gives
\* an address one account, whatever the case it is typed in.
THEOREM AddressesHaveOneAccount == Spec => []OneAccountPerAddress
  <1>1. IInv => OneAccountPerAddress
    <2> SUFFICES ASSUME IInv, NEW u \in Rows, NEW v \in Rows,
                        users[u].email.name = users[v].email.name
                 PROVE  u = v
      BY DEF OneAccountPerAddress
    <2>1. \A w \in Rows : users[w].email = [name |-> users[w].email.name, upper |-> FALSE]
      BY DEF IInv, RowsDiffer, Typed
    <2> QED
      BY <2>1 DEF IInv, RowsDiffer
  <1> QED
    BY Invariance, <1>1, PTL

\* 201, 409 and 200 are true of the table when they are answered, and ever after.
THEOREM AnswersAreTrue == Spec => []AnswersMatchTable
  <1>1. IInv => AnswersMatchTable
    BY DEF IInv
  <1> QED
    BY Invariance, <1>1, PTL

\* schemaOnce: who waits for it waits for a request that is running it, and no
\* registration reaches its INSERT without the table.
THEOREM TableIsThere == Spec => []TableBeforeInsert
  <1>1. IInv => TableBeforeInsert
    BY DEF IInv, OnceTellsTable
  <1> QED
    BY Invariance, <1>1, PTL

\* auth.Middleware lets nobody in but by a token given to a login of that user,
\* signed with the secret this process has.
THEOREM OnlyLoginsGetIn == Spec => LetInByLogin
  <1> DEFINE LetIn(r) ==
               result'[r] \in {"accepted", "invalid_user_id"} /\ result[r] = "none" =>
                 /\ id'[r] \in Rows
                 /\ request'[r].token.secret = secret
                 /\ LET q == request'[r].token.login IN result[q] = "ok" /\ id[q] = id'[r]
  <1>1. ASSUME IInv, [Next]_vars, NEW r \in Requests
        PROVE  LetIn(r)
    <2> SUFFICES ASSUME result'[r] \in {"accepted", "invalid_user_id"}, result[r] = "none"
                 PROVE  /\ id'[r] \in Rows
                        /\ request'[r].token.secret = secret
                        /\ LET q == request'[r].token.login IN result[q] = "ok" /\ id[q] = id'[r]
      OBVIOUS
    <2>1. PICK t \in tokens \cup {NoToken} : Upload(r, t) /\ Valid(t)
      <3> USE DEF IInv, TypeOK, Answer, Goto
      <3>1. ~Start /\ ~Crash /\ ~Expire /\ ~(UNCHANGED vars)
        BY <1>1 DEF Start, Crash, Expire, vars
      <3>2. ASSUME NEW q \in Requests
            PROVE  ~Serve(q)
        BY <1>1 DEF Serve, EnterOnce, CreateTable, CheckSchema, CheckBody, Insert, SelectUser,
                    CheckPassword, IssueToken
      <3>3. ASSUME NEW q \in Requests, NEW e \in Typed \cup {None}, NEW p \in AnyPassword
            PROVE  ~Register(q, e, p) /\ ~Login(q, e, p)
        BY <1>1 DEF Register, Login
      <3>4. PICK q \in Requests, t \in tokens \cup {NoToken} : Upload(q, t)
        BY <1>1, <3>1, <3>2, <3>3 DEF Next, Arrive
      <3>5. q = r /\ Valid(t)
        BY <1>1, <3>4 DEF Upload
      <3> QED
        BY <3>4, <3>5
    <2>2. t \in tokens
      BY <1>1, <2>1, ValidTokens
    <2>3. id'[r] = t.user /\ request'[r].token = t
      <3>1. request \in [Requests -> [email : Typed \cup {None}, password : AnyPassword \cup {None},
                                      token : tokens \cup {NoToken}]]
        BY <1>1 DEF IInv, TypeOK
      <3> QED
        BY <1>1, <2>1, <3>1 DEF Upload, IInv, TypeOK
    <2> QED
      BY <1>1, <2>1, <2>2, <2>3 DEF Valid, IInv, TokensFromLogins
  <1>2. ASSUME IInv, [Next]_vars
        PROVE  [\A r \in Requests : LetIn(r)]_vars
    BY <1>1, <1>2
  <1> QED
    BY Invariance, <1>2, PTL DEF Spec, LetInByLogin
=============================================================================
