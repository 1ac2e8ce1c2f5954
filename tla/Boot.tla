-------------------------------- MODULE Boot --------------------------------
(***************************************************************************)
(* Which tables there are.  Every process brings the database up to date    *)
(* when it starts (InitSchema, internal/db), one Exec per group of tables,  *)
(* and serves without a database for as long as it runs if one of them      *)
(* fails (cmd/api/main.go).  migrations/*.sql describe some of the same     *)
(* tables; no code runs them, somebody may, at any time.                   *)
(*                                                                         *)
(* Of PostgreSQL, which is not in src/, the model keeps:                   *)
(*  - the statements of one Exec without arguments are one transaction; a   *)
(*    statement of a migration is a transaction of its own;                *)
(*  - whoever creates an object somebody else is creating waits, and fails  *)
(*    when the other commits, so a transaction acts at its commit;          *)
(*  - IF NOT EXISTS looks at the name of a table and at nothing else, and an *)
(*    index needs its column even if an index of its name exists.           *)
(* Indexes, sequences and the columns no statement here tells apart are     *)
(* left out.                                                               *)
(***************************************************************************)
EXTENDS Integers, Sequences

CONSTANT Processes  \* the instances of the server on one database

VARIABLES
  schema,  \* the names of the tables, columns, types, functions and triggers
  step     \* Down, the Exec a process is at, WithDatabase or WithoutDatabase

vars == <<schema, step>>

-----------------------------------------------------------------------------
(* Statements: skipped if something in "exists" does, failing unless what it *)
(* needs is there and nothing in "clashes".                                *)

Statement == [exists |-> {}, needs |-> {}, clashes |-> {}, drops |-> {}, makes |-> {}]

CreateTableUnreferenced(t, columns, references) ==
  [Statement EXCEPT !.exists = {t}, !.makes = {t} \cup columns]

CreateTable(t, columns, references) ==
  [Statement EXCEPT !.exists = {t}, !.needs = references, !.makes = {t} \cup columns]
CreateIndex(column) == [Statement EXCEPT !.needs = {column}]
AddColumn(t, column) == [Statement EXCEPT !.exists = {column}, !.needs = {t}, !.makes = {column}]

CreateTypeUnguarded(t) == [Statement EXCEPT !.clashes = {t}, !.makes = {t}]
\* With EXCEPTION WHEN duplicate_object THEN NULL.
CreateType(t) == [Statement EXCEPT !.exists = {t}, !.makes = {t}]

CreateFunction(f) == [Statement EXCEPT !.makes = {f}]
DropTrigger(g) == [Statement EXCEPT !.drops = {g}]
CreateTrigger(g, t, f) == [Statement EXCEPT !.needs = {t, f}, !.clashes = {g}, !.makes = {g}]

Skipped(s, db) == s.exists \cap db # {}
Succeeds(s, db) == Skipped(s, db) \/ (s.needs \subseteq db /\ s.clashes \cap db = {})
Effect(s, db) == IF Skipped(s, db) THEN db ELSE (db \ s.drops) \cup s.makes

\* The database before the first statement of a script, and after each.
Through(script, db) ==
  LET after[k \in 0..Len(script)] == IF k = 0 THEN db ELSE Effect(script[k], after[k - 1])
  IN  after

Runs(script, db) == \A k \in DOMAIN script : Succeeds(script[k], Through(script, db)[k - 1])
Result(script, db) == Through(script, db)[Len(script)]

-----------------------------------------------------------------------------
(* The scripts.                                                            *)

migrateCoreWithoutIndex ==
  << CreateTable("users", {"users.phone"}, {}),
     CreateTable("wallets", {"wallets.user_id"}, {"users"}),
     CreateTable("transactions", {"from_wallet_id", "to_wallet_id"}, {"wallets"}) >>

migrateCore ==
  << CreateTable("users", {"users.phone"}, {}),
     CreateTable("wallets", {"wallets.user_id"}, {"users"}),
     CreateTable("transactions", {"from_wallet_id", "to_wallet_id"}, {"wallets"}),
     CreateIndex("wallets.user_id") >>

MigrateKYC ==
  << CreateType("entity_type"), CreateType("user_role"), CreateType("kyc_status"),
     CreateType("doc_type"),
     CreateTable("kyc_profiles", {"rejection_reason", "resubmit_count"},
                 {"users", "entity_type", "kyc_status"}),
     CreateTable("kyc_documents", {}, {"kyc_profiles", "doc_type"}),
     AddColumn("kyc_profiles", "rejection_reason"), AddColumn("kyc_profiles", "resubmit_count"),
     AddColumn("users", "users.phone") >>

MigrateKYCVerifications ==
  << CreateTable("kyc_verifications", {}, {"users"}), CreateIndex("kyc_verifications") >>

MigrateKYCDocumentBlobs ==
  << CreateTable("kyc_document_blobs", {}, {"users"}), CreateIndex("kyc_document_blobs") >>

MigrateWalletAuth ==
  << CreateTable("wallet_accounts", {}, {"users"}), CreateTable("wallet_challenges", {}, {}),
     CreateTable("audit_logs", {}, {}), CreateIndex("wallet_challenges") >>

\* A trigger is dropped and created anew.
MigrateBankCards ==
  << CreateTable("bank_cards", {}, {"users"}), CreateIndex("bank_cards"),
     CreateFunction("enforce_bank_card_limit"), DropTrigger("trg_bank_card_limit"),
     CreateTrigger("trg_bank_card_limit", "bank_cards", "enforce_bank_card_limit"),
     CreateFunction("enforce_single_preferred_card"), DropTrigger("trg_bank_card_preferred"),
     CreateTrigger("trg_bank_card_preferred", "bank_cards", "enforce_single_preferred_card") >>

InitSchema ==
  << migrateCore, MigrateKYC, MigrateKYCVerifications, MigrateKYCDocumentBlobs,
     MigrateWalletAuth, MigrateBankCards >>

\* migrations/0001_init.sql, 0002_kyc_verifications.sql, 0003_kyc_document_blobs.sql.
Migrations ==
  { CreateTable("accounts", {}, {}), CreateTable("wallets", {}, {}),
    CreateTable("transactions", {"from_wallet", "to_wallet", "idempotency_key"}, {"wallets"}),
    CreateIndex("from_wallet"), CreateIndex("to_wallet"),
    CreateTable("kyc_verifications", {}, {"users"}), CreateIndex("kyc_verifications"),
    CreateTable("kyc_document_blobs", {}, {"users"}), CreateIndex("kyc_document_blobs") }

-----------------------------------------------------------------------------
(* Processes.                                                              *)

Down == 0
WithDatabase == Len(InitSchema) + 1
WithoutDatabase == Len(InitSchema) + 2

Init == schema = {} /\ step = [p \in Processes |-> Down]

Goto(p, s) == step' = [step EXCEPT ![p] = s]

\* main, as far as Ping: without a URL or a connection there is no database.
Start(p) ==
  /\ step[p] = Down
  /\ Goto(p, 1) \/ Goto(p, WithoutDatabase)
  /\ UNCHANGED schema

Commit(script) == Runs(script, schema) /\ schema' = Result(script, schema)

RollbackKeepsPrefix(script) ==
  \E k \in 0..Len(script) :
    /\ Runs(SubSeq(script, 1, k), schema)
    /\ schema' = Result(SubSeq(script, 1, k), schema)
Rollback(script) == UNCHANGED schema

Exec(p) ==
  /\ step[p] \in DOMAIN InitSchema
  /\ Commit(InitSchema[step[p]])
  /\ Goto(p, step[p] + 1)

\* An Exec fails, or is reported as failed although it was committed: main closes
\* the database and goes on without it.
ExecFailed(p) ==
  /\ step[p] \in DOMAIN InitSchema
  /\ Commit(InitSchema[step[p]]) \/ Rollback(InitSchema[step[p]])
  /\ Goto(p, WithoutDatabase)

Crash(p) ==
  /\ step[p] # Down
  /\ Goto(p, Down)
  /\ UNCHANGED schema

\* Somebody runs a statement of the migrations; what fails changes nothing.
Migrate ==
  /\ \E s \in Migrations : Succeeds(s, schema) /\ schema' = Effect(s, schema)
  /\ UNCHANGED step

Next == Migrate \/ \E p \in Processes : Start(p) \/ Exec(p) \/ ExecFailed(p) \/ Crash(p)

Spec == Init /\ [][Next]_vars

-----------------------------------------------------------------------------
(* Properties.                                                             *)

\* What the handlers of verification, cards and wallets read and write: all that
\* handlers use of what InitSchema makes.  Other handlers use what it does not
\* make: HandleLogin reads bricspay_users, which exists once a registration has
\* created it (PasswordAuth), and HandleAccounts and HandleTransactions, which
\* have no route, read columns of accounts and transactions that nothing creates.
UsedOfInitSchema ==
  {"users", "users.phone", "kyc_profiles", "kyc_verifications", "kyc_document_blobs",
   "wallet_accounts", "wallet_challenges", "bank_cards", "trg_bank_card_limit",
   "trg_bank_card_preferred"}

\* What ledger.Transfer reads and writes.
UsedByTransfer == {"wallets", "transactions", "from_wallet", "to_wallet", "idempotency_key"}

Objects ==
  (UNION {s.makes : s \in Migrations})
    \cup (UNION {UNION {InitSchema[i][k].makes : k \in DOMAIN InitSchema[i]} : i \in DOMAIN InitSchema})

\* What belongs to a user is never there without the table of users.
TypeOK ==
  /\ schema \subseteq Objects
  /\ schema \cap {"kyc_profiles", "kyc_verifications", "kyc_document_blobs", "wallet_accounts",
                   "bank_cards", "wallets.user_id"} # {} => "users" \in schema
  /\ step \in [Processes -> Down..WithoutDatabase]

\* A process that serves with a database finds the tables of its handlers of
\* verification, cards and wallets, and both triggers on the cards, at all times:
\* while others start and replace the triggers, fail or end half-way, and whatever
\* migrations are run.  Login, accounts and transactions are not promised anything.
HandlersFindInitSchema ==
  \A p \in Processes : step[p] = WithDatabase => UsedOfInitSchema \subseteq schema

\* Whether a process can start is decided by who created the wallets: if it was
\* InitSchema, every later run of it succeeds unless the database fails, whatever
\* was run in between; if it was the migration, none ever does.
CreatorOfWalletsDecides ==
  LET Boots ==
        LET after[i \in 0..Len(InitSchema)] ==
              IF i = 0 THEN schema ELSE Result(InitSchema[i], after[i - 1])
        IN  \A i \in DOMAIN InitSchema : Runs(InitSchema[i], after[i - 1])
  IN  "wallets" \in schema => (Boots <=> "wallets.user_id" \in schema)

\* The server and ledger.Transfer never share a database: where a process serves
\* with one, the columns of Transfer are missing, and stay so.
LedgerWithoutTables ==
  (\E p \in Processes : step[p] = WithDatabase) => ~(UsedByTransfer \subseteq schema)
=============================================================================
