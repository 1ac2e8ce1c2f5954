-------------------------- MODULE KYCVerification --------------------------
(***************************************************************************)
(* Identity verification (internal/api/kyc_handlers.go on the table          *)
(* kyc_verifications, kyc_upload.go on kyc_document_blobs): users submit,   *)
(* resubmit, upload documents and look at their status, reviewers list what *)
(* is pending and decide by the id of a row.                               *)
(*                                                                         *)
(* What a handler does before its one statement depends on nothing but its  *)
(* request, so a handler is the step its statement takes.  What matters is  *)
(* in which order statements run, which may not be the order in which the   *)
(* requests arrived, and how old the list is that a reviewer decides from.  *)
(*                                                                         *)
(* Outside src/: who is who (a user of Users has a row in users), the       *)
(* clients, which may send again without waiting, and PostgreSQL: a         *)
(* statement takes effect at once, may fail, and may be reported as failed  *)
(* although it took effect.                                                *)
(***************************************************************************)
EXTENDS Integers

CONSTANTS
  Users,        \* the users
  Reviewers,    \* those who call the two admin handlers
  Forms,        \* what a user may submit: names, document and country
  Requests,     \* the submissions being served, one at a time each
  MaxId,        \* the last id the sequence may give (a bound of the model)
  DocumentIds,  \* what newKYCDocumentID may draw: 128 random bits do not repeat
  None          \* no user, form or note

ASSUME NoneAssumption == None \notin Users \cup Forms
ASSUME IdAssumption == MaxId \in Nat

Verdicts == {"approved", "rejected"}
Statuses == {"not_submitted", "pending"} \cup Verdicts

VARIABLES
  rows,       \* kyc_verifications, by user_id (UNIQUE); the notes of a verdict
              \* are named after it
  nextId,     \* the sequence behind kyc_verifications.id
  documents,  \* kyc_document_blobs: the uploader of each id, or None
  request,    \* the submissions that arrived and whose statement has not run
  told,       \* the status and notes each user was last told by HandleKYCStatus
  screen,     \* what each reviewer was last told by HandleAdminPendingKYC
  settled,    \* history: the form of each user whose submission was answered 200
              \* while no other submission of that user was under way
  receipts    \* history: who was told which document id, with 201

files == <<documents, receipts>>
vars == <<rows, nextId, files, request, told, screen, settled>>

NoRow == [id |-> 0, form |-> None, status |-> "not_submitted", notes |-> None]
NoRequest == [user |-> None, form |-> None]

\* HandleKYCStatus answers not_submitted if there is no row.
Answered(row) == [status |-> row.status, notes |-> row.notes]

Init ==
  /\ rows = [u \in Users |-> NoRow]
  /\ nextId = 1
  /\ documents = [d \in DocumentIds |-> None]
  /\ request = [r \in Requests |-> NoRequest]
  /\ told = [u \in Users |-> Answered(NoRow)]
  /\ screen = [a \in Reviewers |-> {}]
  /\ settled = [u \in Users |-> None]
  /\ receipts = [d \in DocumentIds |-> None]

-----------------------------------------------------------------------------
(* HandleKYCSubmit *)

ReceiveSubmit(r, u, f) ==
  /\ request[r] = NoRequest
  /\ request' = [request EXCEPT ![r] = [user |-> u, form |-> f]]
  /\ settled' = [settled EXCEPT ![u] = None]
  /\ UNCHANGED <<rows, nextId, files, told, screen>>

Submitting(u) == {r \in Requests : request[r].user = u}

UpsertNewId(r) == [id |-> nextId, form |-> request[r].form, status |-> "pending", notes |-> None]

UpsertKeepingNotes(r) ==
  LET old == rows[request[r].user] IN
  [id |-> IF old = NoRow THEN nextId ELSE old.id, form |-> request[r].form,
   status |-> "pending", notes |-> old.notes]

\* INSERT ... ON CONFLICT (user_id) DO UPDATE: a resubmission keeps the id.
Upsert(r) ==
  LET old == rows[request[r].user] IN
  [id |-> IF old = NoRow THEN nextId ELSE old.id, form |-> request[r].form,
   status |-> "pending", notes |-> None]

TakeNoId == UNCHANGED nextId
\* The statement takes an id from the sequence even if it keeps the old one.
TakeId == nextId' = nextId + 1

\* Answered 200, or with an error although it took effect.
Submit(r) ==
  LET u == request[r].user IN
  /\ request[r] # NoRequest
  /\ nextId <= MaxId
  /\ TakeId
  /\ rows' = [rows EXCEPT ![u] = Upsert(r)]
  /\ \/ settled' = [settled EXCEPT ![u] = IF Submitting(u) = {r} THEN request[r].form ELSE None]
     \/ UNCHANGED settled
  /\ request' = [request EXCEPT ![r] = NoRequest]
  /\ UNCHANGED <<files, told, screen>>

\* A check or the statement fails, without effect.
SubmitFails(r) ==
  /\ request[r] # NoRequest
  /\ request' = [request EXCEPT ![r] = NoRequest]
  /\ UNCHANGED <<rows, nextId, files, told, screen, settled>>

(* HandleKYCUpload *)

\* newKYCDocumentID.
DrawId == {d \in DocumentIds : documents[d] = None}

\* INSERT INTO kyc_document_blobs, answered 201 with the id, or with an error
\* although it took effect: a user who then uploads again has two.
Upload(u) ==
  /\ \E d \in DrawId :
       /\ documents' = [documents EXCEPT ![d] = u]
       /\ receipts' = [receipts EXCEPT ![d] = u] \/ UNCHANGED receipts
  /\ UNCHANGED <<rows, nextId, request, told, screen, settled>>

(* HandleKYCStatus *)

Status(u) ==
  /\ told' = [told EXCEPT ![u] = Answered(rows[u])]
  /\ UNCHANGED <<rows, nextId, files, request, screen, settled>>

(* HandleAdminPendingKYC *)

Listed == {u \in Users : rows[u].status = "pending"}

\* One entry per pending row: its user and the row; the order is left out.
Pending(a) ==
  /\ screen' = [screen EXCEPT ![a] = {[user |-> u, row |-> rows[u]] : u \in Listed}]
  /\ UNCHANGED <<rows, nextId, files, request, told, settled>>

(* HandleAdminReviewKYC *)

ReviewedAsShown(a, u, v) ==
  IF \E e \in screen[a] : e.user = u
  THEN LET e == CHOOSE e \in screen[a] : e.user = u
       IN [e.row EXCEPT !.status = v, !.notes = v]
  ELSE [rows[u] EXCEPT !.status = v, !.notes = v]

\* SET status, notes: the rest of the row is left as it is found.
Reviewed(a, u, v) == [rows[u] EXCEPT !.status = v, !.notes = v]

\* UPDATE ... WHERE id, an id of the list or any other above 0: whatever the
\* status is, and 404 if there is no such row.
Review(a, i, v) ==
  /\ rows' = [u \in Users |-> IF rows[u].id = i THEN Reviewed(a, u, v) ELSE rows[u]]
  /\ UNCHANGED <<nextId, files, request, told, screen, settled>>

Next ==
  \/ \E r \in Requests :
       \/ \E u \in Users, f \in Forms : ReceiveSubmit(r, u, f)
       \/ Submit(r)
       \/ SubmitFails(r)
  \/ \E u \in Users : Upload(u) \/ Status(u)
  \/ \E a \in Reviewers : Pending(a) \/ \E i \in 1..MaxId, v \in Verdicts : Review(a, i, v)

Spec == Init /\ [][Next]_vars

-----------------------------------------------------------------------------
(* Properties.                                                             *)

Row == [id : 0..MaxId, form : Forms \cup {None}, status : Statuses, notes : Verdicts \cup {None}]

\* A row that was ever submitted has an id and a form, and an id below the next.
TypeOK ==
  /\ rows \in [Users -> Row]
  /\ \A u \in Users : rows[u].id < nextId /\ (rows[u].id = 0 <=> rows[u] = NoRow)
  /\ nextId \in 1..(MaxId + 1)
  /\ request \in [Requests -> [user : Users, form : Forms] \cup {NoRequest}]
  /\ documents \in [DocumentIds -> Users \cup {None}]
  /\ told \in [Users -> [status : Statuses, notes : Verdicts \cup {None}]]
  /\ screen \in [Reviewers -> SUBSET [user : Users, row : Row]]
  /\ settled \in [Users -> Forms \cup {None}]
  /\ receipts \in [DocumentIds -> Users \cup {None}]

\* The id a reviewer sees still names the row of the user it was shown with, and
\* of no other, however old the list is and however often that user or others
\* have submitted since: a decision never reaches the wrong person.
ScreensNameTheirUser ==
  \A a \in Reviewers : \A e \in screen[a] :
    \A u \in Users : rows[u].id = e.row.id <=> u = e.user

\* What was answered is on file: the form a user submitted last, and was told is
\* submitted, which no decision made on an older form puts back; and every
\* document whose id an uploader was given, as the document of that user.
AnsweredIsOnFile ==
  /\ \A u \in Users : settled[u] # None => rows[u].form = settled[u]
  /\ \A d \in DocumentIds : receipts[d] # None => documents[d] = receipts[d]

\* Notes are those of the verdict they stand next to, in the table and in what
\* users are told: a resubmission that is pending, or that was decided again,
\* shows nothing of the earlier verdict.
NotesOfVerdict ==
  \A u \in Users : \A row \in {rows[u], told[u]} :
    row.notes = IF row.status \in Verdicts THEN row.status ELSE None
=============================================================================
