----------------------------- MODULE BootProofs -----------------------------
(***************************************************************************)
(* Theorems about Boot for every number of processes: what each script of   *)
(* InitSchema needs and leaves behind on any database, the inductive        *)
(* invariant IInv, and the properties that follow from them.               *)
(***************************************************************************)
EXTENDS Boot, WellFoundedInduction, TLAPS

\* What is there once each Exec has committed, whatever was there before it.
Provided ==
  << {"users", "wallets", "wallets.user_id", "transactions"},
     {"entity_type", "user_role", "kyc_status", "doc_type", "kyc_profiles", "kyc_documents",
      "rejection_reason", "resubmit_count", "users.phone"},
     {"kyc_verifications"},
     {"kyc_document_blobs"},
     {"wallet_accounts", "wallet_challenges", "audit_logs"},
     {"bank_cards", "enforce_bank_card_limit", "trg_bank_card_limit",
      "enforce_single_preferred_card", "trg_bank_card_preferred"} >>

\* Whoever is past an Exec finds what it provides.
ExecsCommitted ==
  \A p \in Processes, i \in DOMAIN InitSchema :
    i < step[p] /\ step[p] <= WithDatabase => Provided[i] \subseteq schema

\* Transactions refer to wallets; a wallet of a user comes with the transactions
\* of migrateCore, and the migration's transactions only with its own wallets.
OneCreator ==
  /\ "transactions" \in schema => "wallets" \in schema
  /\ "wallets.user_id" \in schema => {"wallets", "transactions"} \subseteq schema
  /\ "from_wallet" \in schema =>
       {"wallets", "transactions"} \subseteq schema /\ "wallets.user_id" \notin schema

IInv ==
  /\ TypeOK
  /\ ExecsCommitted
  /\ OneCreator

-----------------------------------------------------------------------------
\* A set of numbers that is not empty has a least element.
LEMMA NatMin ==
  ASSUME NEW T, T \subseteq Nat, T # {}
  PROVE  \E x \in T : \A y \in T : x <= y
  <1> DEFINE R == OpToRel(<, Nat)
  <1>1. IsWellFoundedOn(R, Nat)
    BY NatLessThanWellFounded
  <1>2. R = {ss \in Nat \X Nat : ss[1] < ss[2]}
    BY DEF OpToRel
  <1> HIDE DEF R
  <1>3. PICK x \in T : \A y \in T : <<y, x>> \notin R
    BY <1>1, WFMin
  <1>4. \A y \in Nat : y < x => <<y, x>> \in R
    BY <1>2
  <1>5. \A y \in T : ~(y < x)
    BY <1>3, <1>4
  <1> QED
    BY <1>5

\* Through is what its recursive definition says, for every script: the database
\* before the first statement, and after each the effect on the one before.
LEMMA ThroughDef ==
  ASSUME NEW script, NEW db, Len(script) \in Nat
  PROVE  /\ Through(script, db)[0] = db
         /\ \A k \in 1..Len(script) :
              Through(script, db)[k] = Effect(script[k], Through(script, db)[k - 1])
  <1> DEFINE
        Is(g, m) == g = [k \in 0..m |-> IF k = 0 THEN db ELSE Effect(script[k], g[k - 1])]
        Least == {m \in Nat : ~ \E g : Is(g, m)}
  <1>1. Least = {}
    <2>1. SUFFICES ASSUME Least # {} PROVE FALSE
      OBVIOUS
    <2>2. PICK m \in Least : \A y \in Least : m <= y
      BY <2>1, NatMin
    <2>3. CASE m = 0
      <3>1. Is([k \in 0..0 |-> db], 0)
        OBVIOUS
      <3> QED
        BY <2>2, <2>3, <3>1
    <2>4. CASE m # 0
      <3>0. m \in Nat /\ m - 1 \in Nat /\ ~(m <= m - 1)
        BY <2>2, <2>4
      <3>1. m - 1 \in Nat /\ m - 1 \notin Least
        <4> HIDE DEF Least
        <4> QED
          BY <2>2, <3>0
      <3>2. PICK h : Is(h, m - 1)
        BY <3>1
      <3> DEFINE g == [k \in 0..m |-> IF k = m THEN Effect(script[m], h[m - 1]) ELSE h[k]]
      <3>3. ASSUME NEW k \in 0..m
            PROVE  g[k] = IF k = 0 THEN db ELSE Effect(script[k], g[k - 1])
        <4>1. CASE k = m
          BY <2>4, <3>1, <4>1
        <4>2. CASE k # m
          <5>1. k \in 0..(m - 1) /\ (k # 0 => k - 1 \in 0..m /\ k - 1 # m)
            BY <3>1, <4>2
          <5> QED
            BY <3>2, <4>2, <5>1
        <4> QED
          BY <4>1, <4>2
      <3>4. Is(g, m)
        BY <3>3
      <3> QED
        BY <2>2, <3>4
    <2> QED
      BY <2>3, <2>4
  <1>2. PICK g : Is(g, Len(script))
    BY <1>1
  <1>3. Is(Through(script, db), Len(script))
    BY <1>2 DEF Through
  <1> HIDE DEF Least
  <1> QED
    BY <1>3

-----------------------------------------------------------------------------
(* What each kind of statement needs, and what it leaves.                  *)

LEMMA CreateTableEffect ==
  ASSUME NEW t, NEW columns, NEW references, NEW db
  PROVE  /\ Succeeds(CreateTable(t, columns, references), db)
              <=> t \in db \/ references \subseteq db
         /\ Effect(CreateTable(t, columns, references), db)
              = IF t \in db THEN db ELSE db \cup {t} \cup columns
  BY DEF CreateTable, Statement, Succeeds, Skipped, Effect

LEMMA CreateBareTableEffect ==
  ASSUME NEW t, NEW references, NEW db
  PROVE  /\ Succeeds(CreateTable(t, {}, references), db) <=> t \in db \/ references \subseteq db
         /\ Effect(CreateTable(t, {}, references), db) = db \cup {t}
  <1>1. db \cup {t} \cup {} = db \cup {t} /\ (t \in db => db \cup {t} = db)
    OBVIOUS
  <1> QED
    BY <1>1, CreateTableEffect

LEMMA CreateIndexEffect ==
  ASSUME NEW column, NEW db
  PROVE  /\ Succeeds(CreateIndex(column), db) <=> column \in db
         /\ Effect(CreateIndex(column), db) = db
  BY DEF CreateIndex, Statement, Succeeds, Skipped, Effect

LEMMA AddColumnEffect ==
  ASSUME NEW t, NEW column, NEW db
  PROVE  /\ Succeeds(AddColumn(t, column), db) <=> column \in db \/ t \in db
         /\ Effect(AddColumn(t, column), db) = db \cup {column}
  BY DEF AddColumn, Statement, Succeeds, Skipped, Effect

LEMMA CreateTypeEffect ==
  ASSUME NEW t, NEW db
  PROVE  Succeeds(CreateType(t), db) /\ Effect(CreateType(t), db) = db \cup {t}
  BY DEF CreateType, Statement, Succeeds, Skipped, Effect

LEMMA CreateFunctionEffect ==
  ASSUME NEW f, NEW db
  PROVE  Succeeds(CreateFunction(f), db) /\ Effect(CreateFunction(f), db) = db \cup {f}
  BY DEF CreateFunction, Statement, Succeeds, Skipped, Effect

LEMMA DropTriggerEffect ==
  ASSUME NEW g, NEW db
  PROVE  Succeeds(DropTrigger(g), db) /\ Effect(DropTrigger(g), db) = db \ {g}
  BY DEF DropTrigger, Statement, Succeeds, Skipped, Effect

LEMMA CreateTriggerEffect ==
  ASSUME NEW g, NEW t, NEW f, NEW db
  PROVE  /\ Succeeds(CreateTrigger(g, t, f), db) <=> t \in db /\ f \in db /\ g \notin db
         /\ Effect(CreateTrigger(g, t, f), db) = db \cup {g}
  BY DEF CreateTrigger, Statement, Succeeds, Skipped, Effect

-----------------------------------------------------------------------------
(* What each script needs, and what it leaves.                             *)

\* A script makes only what its statements make.
LEMMA ScriptMakes ==
  ASSUME NEW script, NEW db, Len(script) \in Nat, DOMAIN script = 1..Len(script)
  PROVE  Result(script, db) \subseteq db \cup UNION {script[k].makes : k \in DOMAIN script}
  <1> DEFINE
        T == Through(script, db)
        Made == UNION {script[k].makes : k \in DOMAIN script}
        Other == {m \in 0..Len(script) : ~(T[m] \subseteq db \cup Made)}
  <1>1. T[0] = db /\ \A k \in 1..Len(script) : T[k] = Effect(script[k], T[k - 1])
    BY ThroughDef
  <1>2. \A k \in 1..Len(script) : script[k].makes \subseteq Made
    OBVIOUS
  <1> HIDE DEF T, Made
  <1>3. Other = {}
    <2>1. SUFFICES ASSUME Other # {} PROVE FALSE
      OBVIOUS
    <2>2. Other \subseteq Nat
      OBVIOUS
    <2>3. PICK m \in Other : \A y \in Other : m <= y
      BY <2>1, <2>2, NatMin
    <2>4. m \in 1..Len(script) /\ m - 1 \in 0..Len(script) /\ ~(m <= m - 1)
      BY <1>1, <2>3
    <2>5. T[m - 1] \subseteq db \cup Made
      BY <2>3, <2>4
    <2>6. T[m] \subseteq T[m - 1] \cup script[m].makes
      BY <1>1, <2>4 DEF Effect
    <2> QED
      BY <1>2, <2>3, <2>4, <2>5, <2>6
  <1>4. Len(script) \in 0..Len(script)
    OBVIOUS
  <1>5. T[Len(script)] \subseteq db \cup Made
    BY <1>3, <1>4
  <1> QED
    BY <1>5 DEF Result, T, Made

\* migrateCore runs unless there are wallets that belong to no user, and leaves
\* wallets of users, if it runs.
LEMMA MigrateCoreScript ==
  ASSUME NEW db
  PROVE  /\ Runs(migrateCore, db) <=> ("wallets" \in db => "wallets.user_id" \in db)
         /\ db \subseteq Result(migrateCore, db)
         /\ {"users", "wallets", "transactions"} \subseteq Result(migrateCore, db)
         /\ "wallets.user_id" \in Result(migrateCore, db)
              <=> ("wallets" \in db => "wallets.user_id" \in db)
         /\ Result(migrateCore, db) \subseteq
              db \cup {"users", "users.phone", "wallets", "wallets.user_id", "transactions",
                       "from_wallet_id", "to_wallet_id"}
  <1> DEFINE T == Through(migrateCore, db)
  <1>0. Len(migrateCore) = 4 /\ DOMAIN migrateCore = 1..4
    BY DEF migrateCore
  <1>1. /\ migrateCore[1] = CreateTable("users", {"users.phone"}, {})
        /\ migrateCore[2] = CreateTable("wallets", {"wallets.user_id"}, {"users"})
        /\ migrateCore[3] = CreateTable("transactions", {"from_wallet_id", "to_wallet_id"},
                                        {"wallets"})
        /\ migrateCore[4] = CreateIndex("wallets.user_id")
    BY DEF migrateCore
  <1>2. T[0] = db /\ \A k \in 1..4 : T[k] = Effect(migrateCore[k], T[k - 1])
    <2>1. Len(migrateCore) \in Nat
      BY <1>0
    <2>2. T[0] = db /\ \A k \in 1..Len(migrateCore) : T[k] = Effect(migrateCore[k], T[k - 1])
      BY <2>1, ThroughDef
    <2> QED
      BY <1>0, <2>2
  <1> HIDE DEF T
  <1>3. /\ T[1] = Effect(migrateCore[1], T[0]) /\ T[2] = Effect(migrateCore[2], T[1])
        /\ T[3] = Effect(migrateCore[3], T[2]) /\ T[4] = Effect(migrateCore[4], T[3])
    <2>1. 1 - 1 = 0 /\ 2 - 1 = 1 /\ 3 - 1 = 2 /\ 4 - 1 = 3
      OBVIOUS
    <2> QED
      BY <1>2, <2>1
  <1>4. /\ T[1] = IF "users" \in db THEN db ELSE db \cup {"users"} \cup {"users.phone"}
        /\ T[2] = IF "wallets" \in T[1] THEN T[1]
                  ELSE T[1] \cup {"wallets"} \cup {"wallets.user_id"}
        /\ T[3] = IF "transactions" \in T[2] THEN T[2]
                  ELSE T[2] \cup {"transactions"} \cup {"from_wallet_id", "to_wallet_id"}
        /\ T[4] = T[3]
    <2>1. T[1] = IF "users" \in db THEN db ELSE db \cup {"users"} \cup {"users.phone"}
      BY <1>1, <1>2, <1>3, CreateTableEffect
    <2>2. T[2] = IF "wallets" \in T[1] THEN T[1]
                 ELSE T[1] \cup {"wallets"} \cup {"wallets.user_id"}
      BY <1>1, <1>3, CreateTableEffect
    <2>3. T[3] = IF "transactions" \in T[2] THEN T[2]
                 ELSE T[2] \cup {"transactions"} \cup {"from_wallet_id", "to_wallet_id"}
      BY <1>1, <1>3, CreateTableEffect
    <2>4. T[4] = T[3]
      BY <1>1, <1>3, CreateIndexEffect
    <2> QED
      BY <2>1, <2>2, <2>3, <2>4
  <1>5. /\ Succeeds(migrateCore[1], T[0])
        /\ Succeeds(migrateCore[2], T[1])
        /\ Succeeds(migrateCore[3], T[2])
        /\ Succeeds(migrateCore[4], T[3]) <=> "wallets.user_id" \in T[3]
    BY <1>1, <1>4, CreateTableEffect, CreateIndexEffect
  <1>6. "wallets.user_id" \in T[3] <=> ("wallets" \in db => "wallets.user_id" \in db)
    BY <1>4
  <1>7. Runs(migrateCore, db) <=> \A k \in 1..4 : Succeeds(migrateCore[k], T[k - 1])
    BY <1>0 DEF Runs, T
  <1>8. (\A k \in 1..4 : Succeeds(migrateCore[k], T[k - 1])) <=> Succeeds(migrateCore[4], T[3])
    <2>1. 1 - 1 = 0 /\ 2 - 1 = 1 /\ 3 - 1 = 2 /\ 4 - 1 = 3 /\ 1..4 = {1, 2, 3, 4}
      OBVIOUS
    <2> QED
      BY <1>5, <2>1
  <1>9. Result(migrateCore, db) = T[4]
    BY <1>0 DEF Result, T
  <1> QED
    BY <1>4, <1>5, <1>6, <1>7, <1>8, <1>9

\* MigrateKYC runs where there are users, and adds its types, tables and columns.
LEMMA MigrateKYCScript ==
  ASSUME NEW db
  PROVE  /\ Result(MigrateKYC, db) = db \cup Provided[2]
         /\ "users" \in db => Runs(MigrateKYC, db)
  <1> DEFINE T == Through(MigrateKYC, db)
  <1>0. Len(MigrateKYC) = 9 /\ DOMAIN MigrateKYC = 1..9
    BY DEF MigrateKYC
  <1>1. /\ MigrateKYC[1] = CreateType("entity_type")
        /\ MigrateKYC[2] = CreateType("user_role")
        /\ MigrateKYC[3] = CreateType("kyc_status")
        /\ MigrateKYC[4] = CreateType("doc_type")
        /\ MigrateKYC[5] = CreateTable("kyc_profiles", {"rejection_reason", "resubmit_count"},
                                       {"users", "entity_type", "kyc_status"})
        /\ MigrateKYC[6] = CreateTable("kyc_documents", {}, {"kyc_profiles", "doc_type"})
        /\ MigrateKYC[7] = AddColumn("kyc_profiles", "rejection_reason")
        /\ MigrateKYC[8] = AddColumn("kyc_profiles", "resubmit_count")
        /\ MigrateKYC[9] = AddColumn("users", "users.phone")
    BY DEF MigrateKYC
  <1>2. T[0] = db /\ \A k \in 1..9 : T[k] = Effect(MigrateKYC[k], T[k - 1])
    <2>1. Len(MigrateKYC) \in Nat
      BY <1>0
    <2>2. T[0] = db
          /\ \A k \in 1..Len(MigrateKYC) : T[k] = Effect(MigrateKYC[k], T[k - 1])
      BY <2>1, ThroughDef
    <2> QED
      BY <1>0, <2>2
  <1>3. Runs(MigrateKYC, db)
          <=> \A k \in 1..9 : Succeeds(MigrateKYC[k], T[k - 1])
    BY <1>0 DEF Runs
  <1>4. Result(MigrateKYC, db) = T[9]
    BY <1>0 DEF Result
  <1> HIDE DEF T
  <1>5. 1 - 1 = 0 /\ 2 - 1 = 1 /\ 3 - 1 = 2 /\ 4 - 1 = 3
        /\ 5 - 1 = 4 /\ 6 - 1 = 5 /\ 7 - 1 = 6 /\ 8 - 1 = 7 /\ 9 - 1 = 8
        /\ 1..9 = {1, 2, 3, 4, 5, 6, 7, 8, 9}
    OBVIOUS
  <1>6. /\ T[1] = Effect(MigrateKYC[1], T[0])
        /\ T[2] = Effect(MigrateKYC[2], T[1])
        /\ T[3] = Effect(MigrateKYC[3], T[2])
        /\ T[4] = Effect(MigrateKYC[4], T[3])
        /\ T[5] = Effect(MigrateKYC[5], T[4])
        /\ T[6] = Effect(MigrateKYC[6], T[5])
        /\ T[7] = Effect(MigrateKYC[7], T[6])
        /\ T[8] = Effect(MigrateKYC[8], T[7])
        /\ T[9] = Effect(MigrateKYC[9], T[8])
    BY <1>2, <1>5
  <1>7. /\ T[1] = db \cup {"entity_type"}
        /\ T[2] = T[1] \cup {"user_role"}
        /\ T[3] = T[2] \cup {"kyc_status"}
        /\ T[4] = T[3] \cup {"doc_type"}
        /\ T[5] = IF "kyc_profiles" \in T[4] THEN T[4]
                  ELSE T[4] \cup {"kyc_profiles"} \cup {"rejection_reason", "resubmit_count"}
        /\ T[6] = T[5] \cup {"kyc_documents"}
        /\ T[7] = T[6] \cup {"rejection_reason"}
        /\ T[8] = T[7] \cup {"resubmit_count"}
        /\ T[9] = T[8] \cup {"users.phone"}
    <2>1. T[1] = db \cup {"entity_type"}
      BY <1>1, <1>2, <1>6, CreateTypeEffect
    <2>2. T[2] = T[1] \cup {"user_role"}
      BY <1>1, <1>6, CreateTypeEffect
    <2>3. T[3] = T[2] \cup {"kyc_status"}
      BY <1>1, <1>6, CreateTypeEffect
    <2>4. T[4] = T[3] \cup {"doc_type"}
      BY <1>1, <1>6, CreateTypeEffect
    <2>5. T[5] = IF "kyc_profiles" \in T[4] THEN T[4]
                 ELSE T[4] \cup {"kyc_profiles"} \cup {"rejection_reason", "resubmit_count"}
      <3> DEFINE references == {"users", "entity_type", "kyc_status"}
      <3>1. T[5] = Effect(CreateTable("kyc_profiles", {"rejection_reason", "resubmit_count"},
                                      references), T[4])
        BY <1>1, <1>6
      <3> HIDE DEF references
      <3> QED
        BY <3>1, CreateTableEffect
    <2>6. T[6] = T[5] \cup {"kyc_documents"}
      BY <1>1, <1>6, CreateBareTableEffect
    <2>7. T[7] = T[6] \cup {"rejection_reason"}
      BY <1>1, <1>6, AddColumnEffect
    <2>8. T[8] = T[7] \cup {"resubmit_count"}
      BY <1>1, <1>6, AddColumnEffect
    <2>9. T[9] = T[8] \cup {"users.phone"}
      BY <1>1, <1>6, AddColumnEffect
    <2> QED
      BY <2>1, <2>2, <2>3, <2>4, <2>5, <2>6, <2>7, <2>8, <2>9
  <1>8. T[9] = db \cup Provided[2]
    BY <1>7 DEF Provided
  <1>9. ASSUME "users" \in db
        PROVE  /\ Succeeds(MigrateKYC[1], T[0])
               /\ Succeeds(MigrateKYC[2], T[1])
               /\ Succeeds(MigrateKYC[3], T[2])
               /\ Succeeds(MigrateKYC[4], T[3])
               /\ Succeeds(MigrateKYC[5], T[4])
               /\ Succeeds(MigrateKYC[6], T[5])
               /\ Succeeds(MigrateKYC[7], T[6])
               /\ Succeeds(MigrateKYC[8], T[7])
               /\ Succeeds(MigrateKYC[9], T[8])
    BY <1>1, <1>2, <1>7, <1>9,
       AddColumnEffect, CreateBareTableEffect, CreateTableEffect, CreateTypeEffect
  <1> QED
    BY <1>3, <1>4, <1>5, <1>8, <1>9

\* MigrateKYCVerifications runs where there are users, and adds its table.
LEMMA MigrateKYCVerificationsScript ==
  ASSUME NEW db
  PROVE  /\ Result(MigrateKYCVerifications, db) = db \cup Provided[3]
         /\ "users" \in db => Runs(MigrateKYCVerifications, db)
  <1> DEFINE T == Through(MigrateKYCVerifications, db)
  <1>0. Len(MigrateKYCVerifications) = 2 /\ DOMAIN MigrateKYCVerifications = 1..2
    BY DEF MigrateKYCVerifications
  <1>1. /\ MigrateKYCVerifications[1] = CreateTable("kyc_verifications", {}, {"users"})
        /\ MigrateKYCVerifications[2] = CreateIndex("kyc_verifications")
    BY DEF MigrateKYCVerifications
  <1>2. T[0] = db /\ \A k \in 1..2 : T[k] = Effect(MigrateKYCVerifications[k], T[k - 1])
    <2>1. Len(MigrateKYCVerifications) \in Nat
      BY <1>0
    <2>2. T[0] = db
          /\ \A k \in 1..Len(MigrateKYCVerifications) :
               T[k] = Effect(MigrateKYCVerifications[k], T[k - 1])
      BY <2>1, ThroughDef
    <2> QED
      BY <1>0, <2>2
  <1>3. Runs(MigrateKYCVerifications, db)
          <=> \A k \in 1..2 : Succeeds(MigrateKYCVerifications[k], T[k - 1])
    BY <1>0 DEF Runs
  <1>4. Result(MigrateKYCVerifications, db) = T[2]
    BY <1>0 DEF Result
  <1> HIDE DEF T
  <1>5. 1 - 1 = 0 /\ 2 - 1 = 1
        /\ 1..2 = {1, 2}
    OBVIOUS
  <1>6. /\ T[1] = Effect(MigrateKYCVerifications[1], T[0])
        /\ T[2] = Effect(MigrateKYCVerifications[2], T[1])
    BY <1>2, <1>5
  <1>7. /\ T[1] = db \cup {"kyc_verifications"}
        /\ T[2] = T[1]
    BY <1>1, <1>2, <1>6, CreateBareTableEffect, CreateIndexEffect
  <1>8. T[2] = db \cup Provided[3]
    BY <1>7 DEF Provided
  <1>9. ASSUME "users" \in db
        PROVE  /\ Succeeds(MigrateKYCVerifications[1], T[0])
               /\ Succeeds(MigrateKYCVerifications[2], T[1])
    BY <1>1, <1>2, <1>7, <1>9, CreateBareTableEffect, CreateIndexEffect
  <1> QED
    BY <1>3, <1>4, <1>5, <1>8, <1>9

\* MigrateKYCDocumentBlobs runs where there are users, and adds its table.
LEMMA MigrateKYCDocumentBlobsScript ==
  ASSUME NEW db
  PROVE  /\ Result(MigrateKYCDocumentBlobs, db) = db \cup Provided[4]
         /\ "users" \in db => Runs(MigrateKYCDocumentBlobs, db)
  <1> DEFINE T == Through(MigrateKYCDocumentBlobs, db)
  <1>0. Len(MigrateKYCDocumentBlobs) = 2 /\ DOMAIN MigrateKYCDocumentBlobs = 1..2
    BY DEF MigrateKYCDocumentBlobs
  <1>1. /\ MigrateKYCDocumentBlobs[1] = CreateTable("kyc_document_blobs", {}, {"users"})
        /\ MigrateKYCDocumentBlobs[2] = CreateIndex("kyc_document_blobs")
    BY DEF MigrateKYCDocumentBlobs
  <1>2. T[0] = db /\ \A k \in 1..2 : T[k] = Effect(MigrateKYCDocumentBlobs[k], T[k - 1])
    <2>1. Len(MigrateKYCDocumentBlobs) \in Nat
      BY <1>0
    <2>2. T[0] = db
          /\ \A k \in 1..Len(MigrateKYCDocumentBlobs) :
               T[k] = Effect(MigrateKYCDocumentBlobs[k], T[k - 1])
      BY <2>1, ThroughDef
    <2> QED
      BY <1>0, <2>2
  <1>3. Runs(MigrateKYCDocumentBlobs, db)
          <=> \A k \in 1..2 : Succeeds(MigrateKYCDocumentBlobs[k], T[k - 1])
    BY <1>0 DEF Runs
  <1>4. Result(MigrateKYCDocumentBlobs, db) = T[2]
    BY <1>0 DEF Result
  <1> HIDE DEF T
  <1>5. 1 - 1 = 0 /\ 2 - 1 = 1
        /\ 1..2 = {1, 2}
    OBVIOUS
  <1>6. /\ T[1] = Effect(MigrateKYCDocumentBlobs[1], T[0])
        /\ T[2] = Effect(MigrateKYCDocumentBlobs[2], T[1])
    BY <1>2, <1>5
  <1>7. /\ T[1] = db \cup {"kyc_document_blobs"}
        /\ T[2] = T[1]
    BY <1>1, <1>2, <1>6, CreateBareTableEffect, CreateIndexEffect
  <1>8. T[2] = db \cup Provided[4]
    BY <1>7 DEF Provided
  <1>9. ASSUME "users" \in db
        PROVE  /\ Succeeds(MigrateKYCDocumentBlobs[1], T[0])
               /\ Succeeds(MigrateKYCDocumentBlobs[2], T[1])
    BY <1>1, <1>2, <1>7, <1>9, CreateBareTableEffect, CreateIndexEffect
  <1> QED
    BY <1>3, <1>4, <1>5, <1>8, <1>9

\* MigrateWalletAuth runs where there are users, and adds its tables.
LEMMA MigrateWalletAuthScript ==
  ASSUME NEW db
  PROVE  /\ Result(MigrateWalletAuth, db) = db \cup Provided[5]
         /\ "users" \in db => Runs(MigrateWalletAuth, db)
  <1> DEFINE T == Through(MigrateWalletAuth, db)
  <1>0. Len(MigrateWalletAuth) = 4 /\ DOMAIN MigrateWalletAuth = 1..4
    BY DEF MigrateWalletAuth
  <1>1. /\ MigrateWalletAuth[1] = CreateTable("wallet_accounts", {}, {"users"})
        /\ MigrateWalletAuth[2] = CreateTable("wallet_challenges", {}, {})
        /\ MigrateWalletAuth[3] = CreateTable("audit_logs", {}, {})
        /\ MigrateWalletAuth[4] = CreateIndex("wallet_challenges")
    BY DEF MigrateWalletAuth
  <1>2. T[0] = db /\ \A k \in 1..4 : T[k] = Effect(MigrateWalletAuth[k], T[k - 1])
    <2>1. Len(MigrateWalletAuth) \in Nat
      BY <1>0
    <2>2. T[0] = db
          /\ \A k \in 1..Len(MigrateWalletAuth) : T[k] = Effect(MigrateWalletAuth[k], T[k - 1])
      BY <2>1, ThroughDef
    <2> QED
      BY <1>0, <2>2
  <1>3. Runs(MigrateWalletAuth, db)
          <=> \A k \in 1..4 : Succeeds(MigrateWalletAuth[k], T[k - 1])
    BY <1>0 DEF Runs
  <1>4. Result(MigrateWalletAuth, db) = T[4]
    BY <1>0 DEF Result
  <1> HIDE DEF T
  <1>5. 1 - 1 = 0 /\ 2 - 1 = 1 /\ 3 - 1 = 2 /\ 4 - 1 = 3
        /\ 1..4 = {1, 2, 3, 4}
    OBVIOUS
  <1>6. /\ T[1] = Effect(MigrateWalletAuth[1], T[0])
        /\ T[2] = Effect(MigrateWalletAuth[2], T[1])
        /\ T[3] = Effect(MigrateWalletAuth[3], T[2])
        /\ T[4] = Effect(MigrateWalletAuth[4], T[3])
    BY <1>2, <1>5
  <1>7. /\ T[1] = db \cup {"wallet_accounts"}
        /\ T[2] = T[1] \cup {"wallet_challenges"}
        /\ T[3] = T[2] \cup {"audit_logs"}
        /\ T[4] = T[3]
    <2>1. T[1] = db \cup {"wallet_accounts"}
      BY <1>1, <1>2, <1>6, CreateBareTableEffect
    <2>2. T[2] = T[1] \cup {"wallet_challenges"}
      BY <1>1, <1>6, CreateBareTableEffect
    <2>3. T[3] = T[2] \cup {"audit_logs"}
      BY <1>1, <1>6, CreateBareTableEffect
    <2>4. T[4] = T[3]
      BY <1>1, <1>6, CreateIndexEffect
    <2> QED
      BY <2>1, <2>2, <2>3, <2>4
  <1>8. T[4] = db \cup Provided[5]
    BY <1>7 DEF Provided
  <1>9. ASSUME "users" \in db
        PROVE  /\ Succeeds(MigrateWalletAuth[1], T[0])
               /\ Succeeds(MigrateWalletAuth[2], T[1])
               /\ Succeeds(MigrateWalletAuth[3], T[2])
               /\ Succeeds(MigrateWalletAuth[4], T[3])
    BY <1>1, <1>2, <1>7, <1>9, CreateBareTableEffect, CreateIndexEffect
  <1> QED
    BY <1>3, <1>4, <1>5, <1>8, <1>9

\* MigrateBankCards runs where there are users, and leaves the table of cards with
\* both triggers, which it drops on the way if they were there.
LEMMA MigrateBankCardsScript ==
  ASSUME NEW db
  PROVE  /\ Result(MigrateBankCards, db) = db \cup Provided[6]
         /\ "users" \in db => Runs(MigrateBankCards, db)
  <1> DEFINE T == Through(MigrateBankCards, db)
  <1>0. Len(MigrateBankCards) = 8 /\ DOMAIN MigrateBankCards = 1..8
    BY DEF MigrateBankCards
  <1>1. /\ MigrateBankCards[1] = CreateTable("bank_cards", {}, {"users"})
        /\ MigrateBankCards[2] = CreateIndex("bank_cards")
        /\ MigrateBankCards[3] = CreateFunction("enforce_bank_card_limit")
        /\ MigrateBankCards[4] = DropTrigger("trg_bank_card_limit")
        /\ MigrateBankCards[5] = CreateTrigger("trg_bank_card_limit", "bank_cards",
                                                "enforce_bank_card_limit")
        /\ MigrateBankCards[6] = CreateFunction("enforce_single_preferred_card")
        /\ MigrateBankCards[7] = DropTrigger("trg_bank_card_preferred")
        /\ MigrateBankCards[8] = CreateTrigger("trg_bank_card_preferred", "bank_cards",
                                                "enforce_single_preferred_card")
    BY DEF MigrateBankCards
  <1>2. T[0] = db /\ \A k \in 1..8 : T[k] = Effect(MigrateBankCards[k], T[k - 1])
    <2>1. Len(MigrateBankCards) \in Nat
      BY <1>0
    <2>2. T[0] = db
          /\ \A k \in 1..Len(MigrateBankCards) : T[k] = Effect(MigrateBankCards[k], T[k - 1])
      BY <2>1, ThroughDef
    <2> QED
      BY <1>0, <2>2
  <1>3. Runs(MigrateBankCards, db)
          <=> \A k \in 1..8 : Succeeds(MigrateBankCards[k], T[k - 1])
    BY <1>0 DEF Runs
  <1>4. Result(MigrateBankCards, db) = T[8]
    BY <1>0 DEF Result
  <1> HIDE DEF T
  <1>5. 1 - 1 = 0 /\ 2 - 1 = 1 /\ 3 - 1 = 2 /\ 4 - 1 = 3
        /\ 5 - 1 = 4 /\ 6 - 1 = 5 /\ 7 - 1 = 6 /\ 8 - 1 = 7
        /\ 1..8 = {1, 2, 3, 4, 5, 6, 7, 8}
    OBVIOUS
  <1>6. /\ T[1] = Effect(MigrateBankCards[1], T[0])
        /\ T[2] = Effect(MigrateBankCards[2], T[1])
        /\ T[3] = Effect(MigrateBankCards[3], T[2])
        /\ T[4] = Effect(MigrateBankCards[4], T[3])
        /\ T[5] = Effect(MigrateBankCards[5], T[4])
        /\ T[6] = Effect(MigrateBankCards[6], T[5])
        /\ T[7] = Effect(MigrateBankCards[7], T[6])
        /\ T[8] = Effect(MigrateBankCards[8], T[7])
    BY <1>2, <1>5
  <1>7. /\ T[1] = db \cup {"bank_cards"}
        /\ T[2] = T[1]
        /\ T[3] = T[2] \cup {"enforce_bank_card_limit"}
        /\ T[4] = T[3] \ {"trg_bank_card_limit"}
        /\ T[5] = T[4] \cup {"trg_bank_card_limit"}
        /\ T[6] = T[5] \cup {"enforce_single_preferred_card"}
        /\ T[7] = T[6] \ {"trg_bank_card_preferred"}
        /\ T[8] = T[7] \cup {"trg_bank_card_preferred"}
    <2>1. T[1] = db \cup {"bank_cards"}
      BY <1>1, <1>2, <1>6, CreateBareTableEffect
    <2>2. T[2] = T[1]
      BY <1>1, <1>6, CreateIndexEffect
    <2>3. T[3] = T[2] \cup {"enforce_bank_card_limit"}
      BY <1>1, <1>6, CreateFunctionEffect
    <2>4. T[4] = T[3] \ {"trg_bank_card_limit"}
      BY <1>1, <1>6, DropTriggerEffect
    <2>5. T[5] = T[4] \cup {"trg_bank_card_limit"}
      BY <1>1, <1>6, CreateTriggerEffect
    <2>6. T[6] = T[5] \cup {"enforce_single_preferred_card"}
      BY <1>1, <1>6, CreateFunctionEffect
    <2>7. T[7] = T[6] \ {"trg_bank_card_preferred"}
      BY <1>1, <1>6, DropTriggerEffect
    <2>8. T[8] = T[7] \cup {"trg_bank_card_preferred"}
      BY <1>1, <1>6, CreateTriggerEffect
    <2> QED
      BY <2>1, <2>2, <2>3, <2>4, <2>5, <2>6, <2>7, <2>8
  <1>8. T[8] = db \cup Provided[6]
    BY <1>7 DEF Provided
  <1>9. ASSUME "users" \in db
        PROVE  /\ Succeeds(MigrateBankCards[1], T[0])
               /\ Succeeds(MigrateBankCards[2], T[1])
               /\ Succeeds(MigrateBankCards[3], T[2])
               /\ Succeeds(MigrateBankCards[4], T[3])
               /\ Succeeds(MigrateBankCards[5], T[4])
               /\ Succeeds(MigrateBankCards[6], T[5])
               /\ Succeeds(MigrateBankCards[7], T[6])
               /\ Succeeds(MigrateBankCards[8], T[7])
    BY <1>1, <1>2, <1>7, <1>9,
       CreateBareTableEffect, CreateFunctionEffect, CreateIndexEffect, CreateTriggerEffect,
       DropTriggerEffect
  <1> QED
    BY <1>3, <1>4, <1>5, <1>8, <1>9

\* The scripts by their place in InitSchema.
LEMMA Scripts ==
  /\ Len(InitSchema) = 6 /\ DOMAIN InitSchema = 1..6
  /\ InitSchema[1] = migrateCore /\ InitSchema[2] = MigrateKYC
  /\ InitSchema[3] = MigrateKYCVerifications /\ InitSchema[4] = MigrateKYCDocumentBlobs
  /\ InitSchema[5] = MigrateWalletAuth /\ InitSchema[6] = MigrateBankCards
  BY DEF InitSchema

\* Every script but the first runs where there are users and adds what it
\* provides.
LEMMA LaterScripts ==
  ASSUME NEW i \in 2..6, NEW db
  PROVE  /\ Result(InitSchema[i], db) = db \cup Provided[i]
         /\ "users" \in db => Runs(InitSchema[i], db)
  <1>1. i = 2 \/ i = 3 \/ i = 4 \/ i = 5 \/ i = 6
    OBVIOUS
  <1> QED
    BY <1>1, Scripts, MigrateKYCScript, MigrateKYCVerificationsScript,
       MigrateKYCDocumentBlobsScript, MigrateWalletAuthScript, MigrateBankCardsScript

\* No script loses anything, and none that runs lacks what it provides.
LEMMA ScriptsProvide ==
  ASSUME NEW i \in DOMAIN InitSchema, NEW db, Runs(InitSchema[i], db)
  PROVE  /\ db \subseteq Result(InitSchema[i], db)
         /\ Provided[i] \subseteq Result(InitSchema[i], db)
         /\ Result(InitSchema[i], db) \subseteq db \cup Objects
  <1>1. Result(InitSchema[i], db) \subseteq db \cup Objects
    <2>1. /\ Len(InitSchema[i]) \in Nat
          /\ DOMAIN InitSchema[i] = 1..Len(InitSchema[i])
      <3>1. i = 1 \/ i = 2 \/ i = 3 \/ i = 4 \/ i = 5 \/ i = 6
        BY Scripts
      <3> QED
        BY <3>1, Scripts DEF migrateCore, MigrateKYC, MigrateKYCVerifications,
           MigrateKYCDocumentBlobs, MigrateWalletAuth, MigrateBankCards
    <2>2. Result(InitSchema[i], db)
            \subseteq db \cup UNION {InitSchema[i][k].makes : k \in DOMAIN InitSchema[i]}
      BY <2>1, ScriptMakes
    <2>3. UNION {InitSchema[i][k].makes : k \in DOMAIN InitSchema[i]} \subseteq Objects
      <3> DEFINE Made(j) == UNION {InitSchema[j][k].makes : k \in DOMAIN InitSchema[j]}
      <3>1. SUFFICES ASSUME NEW x \in Made(i) PROVE x \in Objects
        OBVIOUS
      <3>2. \E j \in DOMAIN InitSchema : x \in Made(j)
        OBVIOUS
      <3>3. x \in UNION {Made(j) : j \in DOMAIN InitSchema}
        BY <3>2
      <3> QED
        BY <3>3, Zenon DEF Objects
    <2> QED
      BY <2>2, <2>3
  <1>2. CASE i = 1
    <2>1. Provided[1] = {"users", "wallets", "wallets.user_id", "transactions"}
      BY DEF Provided
    <2> QED
      BY <1>1, <1>2, <2>1, Scripts, MigrateCoreScript
  <1>3. CASE i # 1
    <2>1. i \in 2..6
      BY <1>3, Scripts
    <2> QED
      BY <1>1, <2>1, LaterScripts
  <1> QED
    BY <1>2, <1>3

\* A statement of the migrations adds to the schema, if it does anything.
LEMMA MigrationsAdd ==
  ASSUME NEW s \in Migrations, NEW db
  PROVE  db \subseteq Effect(s, db) /\ Effect(s, db) \subseteq db \cup s.makes
  <1>1. s.drops = {}
    BY DEF Migrations, CreateTable, CreateIndex, Statement
  <1> QED
    BY <1>1 DEF Effect

-----------------------------------------------------------------------------
LEMMA InitIInv == Init => IInv
  BY Scripts DEF Init, IInv, TypeOK, ExecsCommitted, OneCreator, Down, WithDatabase,
     WithoutDatabase

\* What a committed Exec does to the schema.
LEMMA CommitKeeps ==
  ASSUME IInv, NEW p \in Processes, NEW i \in DOMAIN InitSchema, step[p] = i,
         Commit(InitSchema[i])
  PROVE  /\ schema \subseteq schema'
         /\ Provided[i] \subseteq schema'
         /\ schema' \subseteq Objects
         /\ "users" \in schema'
         /\ OneCreator'
  <1>1. Runs(InitSchema[i], schema) /\ schema' = Result(InitSchema[i], schema)
    BY DEF Commit
  <1>2. /\ schema \subseteq schema' /\ Provided[i] \subseteq schema'
        /\ schema' \subseteq schema \cup Objects
    BY <1>1, ScriptsProvide
  <1>3. schema' \subseteq Objects
    BY <1>2 DEF IInv, TypeOK
  <1>4. CASE i = 1
    <2>1. /\ "wallets" \in schema => "wallets.user_id" \in schema
          /\ {"users", "wallets", "transactions"} \subseteq schema'
          /\ schema' \subseteq
               schema \cup {"users", "users.phone", "wallets", "wallets.user_id", "transactions",
                            "from_wallet_id", "to_wallet_id"}
      BY <1>1, <1>4, Scripts, MigrateCoreScript
    <2>2. "from_wallet" \notin schema'
      BY <2>1 DEF IInv, OneCreator
    <2> QED
      BY <1>2, <1>3, <2>1, <2>2 DEF OneCreator
  <1>5. CASE i # 1
    <2>1. i \in 2..6
      BY <1>5, Scripts
    <2>2. schema' = schema \cup Provided[i]
      BY <1>1, <2>1, LaterScripts
    <2>3. "users" \in schema
      <3>1. 1 < step[p] /\ step[p] <= WithDatabase /\ 1 \in DOMAIN InitSchema
        BY <2>1, Scripts DEF WithDatabase
      <3>2. Provided[1] \subseteq schema
        BY <3>1 DEF IInv, ExecsCommitted
      <3>3. "users" \in Provided[1]
        BY DEF Provided
      <3> QED
        BY <3>2, <3>3
    <2>4. Provided[i] \cap {"wallets", "wallets.user_id", "transactions", "from_wallet"} = {}
      <3>1. i = 2 \/ i = 3 \/ i = 4 \/ i = 5 \/ i = 6
        BY <2>1
      <3> QED
        BY <3>1 DEF Provided
    <2>5. OneCreator'
      BY <2>2, <2>4 DEF IInv, OneCreator
    <2> QED
      BY <1>2, <1>3, <2>3, <2>5
  <1> QED
    BY <1>4, <1>5

LEMMA ExecIInv ==
  ASSUME IInv, NEW p \in Processes, Exec(p)
  PROVE  IInv'
  <1>1. PICK i \in DOMAIN InitSchema : i = step[p]
    BY DEF Exec
  <1>2. Commit(InitSchema[i]) /\ step' = [step EXCEPT ![p] = i + 1]
    BY <1>1 DEF Exec, Goto
  <1>3. /\ schema \subseteq schema' /\ Provided[i] \subseteq schema'
        /\ schema' \subseteq Objects /\ "users" \in schema' /\ OneCreator'
    BY <1>1, <1>2, CommitKeeps
  <1>4. i \in 1..6 /\ WithDatabase = 7 /\ WithoutDatabase = 8 /\ Down = 0
    BY Scripts DEF WithDatabase, WithoutDatabase, Down
  <1>5. TypeOK'
    BY <1>2, <1>3, <1>4 DEF IInv, TypeOK
  <1>6. ExecsCommitted'
    <2>1. SUFFICES ASSUME NEW q \in Processes, NEW j \in DOMAIN InitSchema,
                          j < step'[q], step'[q] <= WithDatabase
                   PROVE  Provided[j] \subseteq schema'
      BY DEF ExecsCommitted
    <2>2. CASE q = p /\ j = i
      BY <1>3, <2>2
    <2>3. CASE q # p \/ j # i
      <3>1. j \in 1..6
        BY Scripts
      <3>2. step \in [Processes -> 0..8]
        BY <1>4 DEF IInv, TypeOK
      <3>3. j < step[q] /\ step[q] <= WithDatabase
        BY <1>1, <1>2, <1>4, <2>1, <2>3, <3>1, <3>2
      <3>4. Provided[j] \subseteq schema
        BY <3>3 DEF IInv, ExecsCommitted
      <3> QED
        BY <1>3, <3>4
    <2> QED
      BY <2>2, <2>3
  <1> QED
    BY <1>3, <1>5, <1>6 DEF IInv

\* A process that gets ahead of no Exec keeps what others were promised, if the
\* schema only grows.
LEMMA ExecsStayCommitted ==
  ASSUME TypeOK, ExecsCommitted, schema \subseteq schema', NEW p \in Processes,
         NEW s \in {Down, 1, WithoutDatabase}, step' = [step EXCEPT ![p] = s]
  PROVE  ExecsCommitted'
  <1>1. WithDatabase = 7 /\ WithoutDatabase = 8 /\ Down = 0
    BY Scripts DEF WithDatabase, WithoutDatabase, Down
  <1> SUFFICES ASSUME NEW q \in Processes, NEW j \in DOMAIN InitSchema,
                      j < step'[q], step'[q] <= WithDatabase
               PROVE  Provided[j] \subseteq schema'
    BY DEF ExecsCommitted
  <1>2. j \in 1..6
    BY Scripts
  <1>3. q # p
    BY <1>1, <1>2 DEF TypeOK
  <1>4. j < step[q] /\ step[q] <= WithDatabase
    BY <1>3 DEF TypeOK
  <1>5. Provided[j] \subseteq schema
    BY <1>4 DEF ExecsCommitted
  <1> QED
    BY <1>5

LEMMA ExecFailedIInv ==
  ASSUME IInv, NEW p \in Processes, ExecFailed(p)
  PROVE  IInv'
  <1>1. PICK i \in DOMAIN InitSchema : i = step[p]
    BY DEF ExecFailed
  <1>2. /\ Commit(InitSchema[i]) \/ UNCHANGED schema
        /\ step' = [step EXCEPT ![p] = WithoutDatabase]
    BY <1>1 DEF ExecFailed, Goto, Rollback
  <1>3. WithoutDatabase \in Down..WithoutDatabase
    BY Scripts DEF Down, WithoutDatabase
  <1>4. CASE Commit(InitSchema[i])
    <2>1. /\ schema \subseteq schema' /\ schema' \subseteq Objects /\ "users" \in schema'
          /\ OneCreator'
      BY <1>1, <1>4, CommitKeeps
    <2> QED
      BY <1>2, <1>3, <2>1, ExecsStayCommitted DEF IInv, TypeOK
  <1>5. CASE UNCHANGED schema
    BY <1>2, <1>3, <1>5, ExecsStayCommitted DEF IInv, TypeOK, OneCreator
  <1> QED
    BY <1>2, <1>4, <1>5

LEMMA StartIInv ==
  ASSUME IInv, NEW p \in Processes, Start(p)
  PROVE  IInv'
  <1>1. PICK s \in {1, WithoutDatabase} : step' = [step EXCEPT ![p] = s]
    BY DEF Start, Goto
  <1>2. s \in Down..WithoutDatabase
    BY Scripts DEF Down, WithoutDatabase
  <1> QED
    BY <1>1, <1>2, ExecsStayCommitted DEF Start, IInv, TypeOK, OneCreator

LEMMA CrashIInv ==
  ASSUME IInv, NEW p \in Processes, Crash(p)
  PROVE  IInv'
  <1>1. Down \in Down..WithoutDatabase
    BY Scripts DEF Down, WithoutDatabase
  <1> QED
    BY <1>1, ExecsStayCommitted DEF Crash, Goto, IInv, TypeOK, OneCreator

\* A migration may be run at any time: it never gives the server's wallets the
\* columns of the ledger.
LEMMA MigrateIInv ==
  ASSUME IInv, Migrate
  PROVE  IInv'
  <1>1. PICK s \in Migrations : Succeeds(s, schema) /\ schema' = Effect(s, schema)
    BY DEF Migrate
  <1>2. step' = step
    BY DEF Migrate
  <1>3. schema \subseteq schema' /\ schema' \subseteq schema \cup s.makes
    BY <1>1, MigrationsAdd
  <1>4. schema' \subseteq Objects
    <2>1. s.makes \subseteq Objects
      BY DEF Objects
    <2> QED
      BY <1>3, <2>1 DEF IInv, TypeOK
  <1>5. ExecsCommitted'
    BY <1>2, <1>3 DEF IInv, ExecsCommitted
  <1>6. \/ schema' = schema
        \/ schema' = schema \cup {"accounts"}
        \/ "wallets" \notin schema /\ schema' = schema \cup {"wallets"}
        \/ /\ "transactions" \notin schema /\ "wallets" \in schema
           /\ schema' = schema \cup {"transactions", "from_wallet", "to_wallet", "idempotency_key"}
        \/ "users" \in schema
             /\ \/ schema' = schema \cup {"kyc_verifications"}
                \/ schema' = schema \cup {"kyc_document_blobs"}
    <2>1. CASE s = CreateTable("accounts", {}, {})
      BY <1>1, <2>1, CreateBareTableEffect
    <2>2. CASE s = CreateTable("wallets", {}, {})
      BY <1>1, <2>2, CreateBareTableEffect
    <2>3. CASE s = CreateTable("transactions", {"from_wallet", "to_wallet", "idempotency_key"},
                               {"wallets"})
      BY <1>1, <2>3, CreateTableEffect
    <2>4. CASE \E column \in {"from_wallet", "to_wallet", "kyc_verifications",
                              "kyc_document_blobs"} : s = CreateIndex(column)
      BY <1>1, <2>4, CreateIndexEffect
    <2>5. CASE s = CreateTable("kyc_verifications", {}, {"users"})
      BY <1>1, <2>5, CreateBareTableEffect
    <2>6. CASE s = CreateTable("kyc_document_blobs", {}, {"users"})
      BY <1>1, <2>6, CreateBareTableEffect
    <2> QED
      BY <2>1, <2>2, <2>3, <2>4, <2>5, <2>6 DEF Migrations
  <1>7. TypeOK'
    BY <1>2, <1>4, <1>6 DEF IInv, TypeOK
  <1>8. OneCreator'
    BY <1>6 DEF IInv, OneCreator
  <1> QED
    BY <1>5, <1>7, <1>8 DEF IInv

LEMMA NextIInv == IInv /\ [Next]_vars => IInv'
  <1> SUFFICES ASSUME IInv, [Next]_vars PROVE IInv'
    OBVIOUS
  <1>1. CASE Migrate
    BY <1>1, MigrateIInv
  <1>2. ASSUME NEW p \in Processes, Start(p) \/ Exec(p) \/ ExecFailed(p) \/ Crash(p)
        PROVE  IInv'
    BY <1>2, StartIInv, ExecIInv, ExecFailedIInv, CrashIInv
  <1>3. CASE UNCHANGED vars
    BY <1>3 DEF vars, IInv, TypeOK, ExecsCommitted, OneCreator
  <1> QED
    BY <1>1, <1>2, <1>3 DEF Next

\* The inductive invariant.
THEOREM Invariance == Spec => []IInv
  BY InitIInv, NextIInv, PTL DEF Spec

-----------------------------------------------------------------------------
\* InitSchema creates nothing but what is listed, and nothing of a user's without
\* the table of users.
THEOREM TypeCorrectness == Spec => []TypeOK
  BY Invariance, PTL DEF IInv

\* A process that serves with a database finds the tables that its handlers of
\* verification, cards and wallets use, and both triggers, for any number of
\* processes, while others start, replace the triggers, fail or crash, and
\* whatever migrations are run.
THEOREM SchemaIsThere == Spec => []HandlersFindInitSchema
  <1>1. IInv => HandlersFindInitSchema
    <2>1. SUFFICES ASSUME IInv, NEW p \in Processes, step[p] = WithDatabase
                   PROVE  UsedOfInitSchema \subseteq schema
      BY DEF HandlersFindInitSchema
    <2>2. \A i \in 1..6 : Provided[i] \subseteq schema
      <3>1. WithDatabase = 7 /\ \A i \in 1..6 : i < 7
        BY Scripts DEF WithDatabase
      <3> QED
        BY <2>1, <3>1, Scripts DEF IInv, ExecsCommitted
    <2>3. /\ "users" \in Provided[1] /\ {"kyc_profiles", "users.phone"} \subseteq Provided[2]
          /\ "kyc_verifications" \in Provided[3] /\ "kyc_document_blobs" \in Provided[4]
          /\ {"wallet_accounts", "wallet_challenges"} \subseteq Provided[5]
          /\ {"bank_cards", "trg_bank_card_limit", "trg_bank_card_preferred"}
               \subseteq Provided[6]
      BY DEF Provided
    <2>4. 1 \in 1..6 /\ 2 \in 1..6 /\ 3 \in 1..6 /\ 4 \in 1..6 /\ 5 \in 1..6 /\ 6 \in 1..6
      OBVIOUS
    <2> QED
      BY <2>2, <2>3, <2>4 DEF UsedOfInitSchema
  <1> QED
    BY Invariance, <1>1, PTL

\* Where a process serves with a database, ledger.Transfer has no columns to write
\* to, in whatever order migrations and servers were run.
THEOREM LedgerHasNoTables == Spec => []LedgerWithoutTables
  <1>1. IInv => LedgerWithoutTables
    <2>1. SUFFICES ASSUME IInv, NEW p \in Processes, step[p] = WithDatabase
                   PROVE  ~(UsedByTransfer \subseteq schema)
      BY DEF LedgerWithoutTables
    <2>2. Provided[1] \subseteq schema
      <3>1. WithDatabase = 7 /\ 1 < 7 /\ 1 \in DOMAIN InitSchema
        BY Scripts DEF WithDatabase
      <3> QED
        BY <2>1, <3>1 DEF IInv, ExecsCommitted
    <2>3. "wallets.user_id" \in schema
      BY <2>2 DEF Provided
    <2> QED
      BY <2>1, <2>3 DEF IInv, OneCreator, UsedByTransfer
  <1> QED
    BY Invariance, <1>1, PTL

-----------------------------------------------------------------------------
\* The schemas that the scripts of InitSchema, run one after the other, leave are
\* what their recursive definition says.
LEMMA SchemasDef ==
  ASSUME NEW db
  PROVE  \E f : f = [i \in 0..Len(InitSchema) |->
                       IF i = 0 THEN db ELSE Result(InitSchema[i], f[i - 1])]
  <1> DEFINE
        Is(f, m) == f = [i \in 0..m |-> IF i = 0 THEN db ELSE Result(InitSchema[i], f[i - 1])]
        Least == {m \in Nat : ~ \E f : Is(f, m)}
  <1>1. Least = {}
    <2>1. SUFFICES ASSUME Least # {} PROVE FALSE
      OBVIOUS
    <2>2. PICK m \in Least : \A y \in Least : m <= y
      BY <2>1, NatMin
    <2>3. CASE m = 0
      <3>1. Is([i \in 0..0 |-> db], 0)
        OBVIOUS
      <3> QED
        BY <2>2, <2>3, <3>1
    <2>4. CASE m # 0
      <3>0. m \in Nat /\ m - 1 \in Nat /\ ~(m <= m - 1)
        BY <2>2, <2>4
      <3>1. m - 1 \in Nat /\ m - 1 \notin Least
        <4> HIDE DEF Least
        <4> QED
          BY <2>2, <3>0
      <3>2. PICK h : Is(h, m - 1)
        BY <3>1
      <3> DEFINE f == [i \in 0..m |-> IF i = m THEN Result(InitSchema[m], h[m - 1]) ELSE h[i]]
      <3>3. ASSUME NEW i \in 0..m
            PROVE  f[i] = IF i = 0 THEN db ELSE Result(InitSchema[i], f[i - 1])
        <4>1. CASE i = m
          BY <2>4, <3>1, <4>1
        <4>2. CASE i # m
          <5>1. i \in 0..(m - 1) /\ (i # 0 => i - 1 \in 0..m /\ i - 1 # m)
            BY <3>1, <4>2
          <5> QED
            BY <3>2, <4>2, <5>1
        <4> QED
          BY <4>1, <4>2
      <3>4. Is(f, m)
        BY <3>3
      <3> QED
        BY <2>2, <3>4
    <2> QED
      BY <2>3, <2>4
  <1>2. Len(InitSchema) \in Nat
    BY Scripts
  <1> QED
    BY <1>1, <1>2

\* All of InitSchema would run now.
Boots ==
  LET after[i \in 0..Len(InitSchema)] ==
        IF i = 0 THEN schema ELSE Result(InitSchema[i], after[i - 1])
  IN  \A i \in DOMAIN InitSchema : Runs(InitSchema[i], after[i - 1])

\* Where there are wallets, it depends on them alone.
LEMMA BootsWithWallets ==
  ASSUME "wallets" \in schema
  PROVE  Boots <=> "wallets.user_id" \in schema
  <1> DEFINE
        Is(f) == f = [i \in 0..Len(InitSchema) |->
                        IF i = 0 THEN schema ELSE Result(InitSchema[i], f[i - 1])]
        after == CHOOSE f : Is(f)
  <1>1. Is(after)
    BY SchemasDef
  <1>2. Boots <=> \A i \in DOMAIN InitSchema : Runs(InitSchema[i], after[i - 1])
    BY DEF Boots
  <1>3. after[0] = schema /\ \A i \in 1..6 : after[i] = Result(InitSchema[i], after[i - 1])
    <2>1. after = [i \in 0..6 |-> IF i = 0 THEN schema ELSE Result(InitSchema[i], after[i - 1])]
      BY <1>1, Scripts
    <2> HIDE DEF after
    <2> QED
      BY <2>1
  <1> HIDE DEF after
  <1>4. Runs(InitSchema[1], after[0]) <=> "wallets.user_id" \in schema
    BY <1>3, Scripts, MigrateCoreScript
  <1>5. "users" \in after[1]
    BY <1>3, Scripts, MigrateCoreScript
  <1>6. ASSUME NEW i \in 2..6 PROVE Runs(InitSchema[i], after[i - 1]) /\ "users" \in after[i]
    <2>1. ASSUME NEW j \in 2..6, "users" \in after[j - 1]
          PROVE  Runs(InitSchema[j], after[j - 1]) /\ "users" \in after[j]
      <3>1. after[j] = Result(InitSchema[j], after[j - 1])
        BY <1>3
      <3>2. /\ Runs(InitSchema[j], after[j - 1])
            /\ Result(InitSchema[j], after[j - 1]) = after[j - 1] \cup Provided[j]
        BY <2>1, LaterScripts
      <3> QED
        BY <2>1, <3>1, <3>2
    <2>2. "users" \in after[2] /\ Runs(InitSchema[2], after[1])
      BY <1>5, <2>1
    <2>3. "users" \in after[3] /\ Runs(InitSchema[3], after[2])
      BY <2>1, <2>2
    <2>4. "users" \in after[4] /\ Runs(InitSchema[4], after[3])
      BY <2>1, <2>3
    <2>5. "users" \in after[5] /\ Runs(InitSchema[5], after[4])
      BY <2>1, <2>4
    <2>6. "users" \in after[6] /\ Runs(InitSchema[6], after[5])
      BY <2>1, <2>5
    <2> QED
      BY <2>2, <2>3, <2>4, <2>5, <2>6
  <1> QED
    BY <1>2, <1>4, <1>6, Scripts

\* Whether a process can start is decided by who created the wallets: true of
\* every schema that has them, whatever else it holds.
THEOREM CreatorDecides == Spec => []CreatorOfWalletsDecides
  <1>1. CreatorOfWalletsDecides
    BY BootsWithWallets DEF CreatorOfWalletsDecides, Boots
  <1> QED
    BY <1>1, PTL
=============================================================================
