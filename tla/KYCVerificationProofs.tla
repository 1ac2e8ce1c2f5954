------------------------ MODULE KYCVerificationProofs ------------------------
(***************************************************************************)
(* Theorems about KYCVerification for every set of users, reviewers, forms, *)
(* requests and documents: the inductive invariant IInv and the safety      *)
(* properties that follow from it.                                         *)
(***************************************************************************)
EXTENDS KYCVerification, TLAPS

\* The sequence gives every user an id of its own.
IdsDiffer ==
  \A u, v \in Users : rows[u].id # 0 /\ rows[u].id = rows[v].id => u = v

\* A list names rows that were submitted.
ScreensShowSubmitted ==
  \A a \in Reviewers : \A e \in screen[a] : e.row.id # 0

\* A submission on file is the last one only while no other one is under way.
SettledAlone ==
  \A u \in Users : settled[u] # None => Submitting(u) = {}

IInv ==
  /\ TypeOK
  /\ IdsDiffer
  /\ ScreensShowSubmitted
  /\ ScreensNameTheirUser
  /\ SettledAlone
  /\ AnsweredIsOnFile
  /\ NotesOfVerdict

-----------------------------------------------------------------------------
LEMMA InitIInv == Init => IInv
  <1> SUFFICES ASSUME Init PROVE IInv
    OBVIOUS
  <1>1. TypeOK
    <2>1. NoRow \in Row
      BY IdAssumption DEF NoRow, Row, Statuses
    <2>2. \A u \in Users : rows[u] = NoRow /\ rows[u].id = 0
      BY DEF Init, NoRow
    <2>3. rows \in [Users -> Row] /\ nextId \in 1..(MaxId + 1)
      BY <2>1, IdAssumption DEF Init
    <2>4. told \in [Users -> [status : Statuses, notes : Verdicts \cup {None}]]
      BY DEF Init, Answered, NoRow, Statuses
    <2> QED
      BY <2>2, <2>3, <2>4 DEF Init, TypeOK
  <1>2. IdsDiffer /\ ScreensShowSubmitted /\ ScreensNameTheirUser
    BY DEF Init, NoRow, IdsDiffer, ScreensShowSubmitted, ScreensNameTheirUser
  <1>3. SettledAlone /\ AnsweredIsOnFile
    BY DEF Init, SettledAlone, AnsweredIsOnFile
  <1>4. NotesOfVerdict
    BY DEF Init, NotesOfVerdict, Answered, NoRow, Verdicts
  <1> QED
    BY <1>1, <1>2, <1>3, <1>4 DEF IInv

-----------------------------------------------------------------------------
(* One lemma per action.                                                   *)

\* Nothing is settled for a user who is submitting.
LEMMA ReceiveSubmitIInv ==
  ASSUME IInv, NEW r \in Requests, NEW u \in Users, NEW f \in Forms, ReceiveSubmit(r, u, f)
  PROVE  IInv'
  <1> USE DEF ReceiveSubmit, files
  <1>1. TypeOK'
    BY DEF IInv, TypeOK
  <1>2. IdsDiffer' /\ ScreensShowSubmitted' /\ ScreensNameTheirUser'
    BY DEF IInv, IdsDiffer, ScreensShowSubmitted, ScreensNameTheirUser
  <1>3. SettledAlone'
    <2>1. \A w \in Users : settled'[w] # None => w # u /\ settled[w] # None
      BY DEF IInv, TypeOK
    <2>2. \A w \in Users \ {u} : Submitting(w)' \subseteq Submitting(w)
      BY DEF IInv, TypeOK, Submitting
    <2> QED
      BY <2>1, <2>2 DEF IInv, SettledAlone
  <1>4. AnsweredIsOnFile' /\ NotesOfVerdict'
    BY DEF IInv, TypeOK, AnsweredIsOnFile, NotesOfVerdict
  <1> QED
    BY <1>1, <1>2, <1>3, <1>4 DEF IInv

\* A row keeps its id when it is submitted again, and a first one gets an id that
\* no row and no list has.
LEMMA SubmitIInv ==
  ASSUME IInv, NEW r \in Requests, Submit(r)
  PROVE  IInv'
  <1> USE DEF Submit, TakeId, files
  <1>u. PICK u \in Users : u = request[r].user
    BY DEF IInv, TypeOK
  <1>0. /\ request[r].form \in Forms
        /\ nextId \in 1..MaxId /\ nextId' = nextId + 1
        /\ UNCHANGED <<documents, receipts, told, screen>>
    BY IdAssumption DEF IInv, TypeOK
  <1>e. /\ Submitting(u) = {r} => Submitting(u)' = {}
        /\ \A w \in Users : Submitting(w)' \subseteq Submitting(w)
        /\ r \in Submitting(u)
    <2>1. /\ request'[r].user = None
          /\ \A q \in Requests \ {r} : request'[q] = request[q]
      BY DEF IInv, TypeOK, NoRequest
    <2>2. \A w \in Users : Submitting(w)' = Submitting(w) \ {r}
      BY <2>1, NoneAssumption DEF Submitting
    <2>3. r \in Submitting(u)
      BY <1>u DEF Submitting
    <2> HIDE DEF Submit
    <2> QED
      BY <2>2, <2>3
  <1>a. /\ rows' \in [Users -> Row]
        /\ rows'[u] # NoRow /\ rows'[u].id # 0
        /\ rows'[u].id = IF rows[u] = NoRow THEN nextId ELSE rows[u].id
        /\ rows'[u].form = request[r].form
        /\ rows'[u].status = "pending" /\ rows'[u].notes = None
        /\ \A w \in Users \ {u} : rows'[w] = rows[w]
    <2> DEFINE new == Upsert(r)
    <2>1. /\ new \in Row /\ new.id # 0
          /\ new.id = IF rows[u] = NoRow THEN nextId ELSE rows[u].id
          /\ new.form = request[r].form /\ new.status = "pending" /\ new.notes = None
      BY <1>0, <1>u, IdAssumption DEF IInv, TypeOK, Row, Upsert, Statuses
    <2>2. rows' = [rows EXCEPT ![u] = new]
      BY <1>u
    <2> HIDE DEF new
    <2>3. new # NoRow
      BY <2>1 DEF NoRow
    <2> QED
      BY <1>0, <2>1, <2>2, <2>3 DEF IInv, TypeOK
  <1>b. /\ settled' \in [Users -> Forms \cup {None}]
        /\ \A w \in Users \ {u} : settled'[w] = settled[w]
        /\ settled'[u] # None => settled'[u] = request[r].form /\ Submitting(u) = {r}
    <2>1. settled[u] = None
      BY <1>e DEF IInv, SettledAlone
    <2> QED
      BY <1>0, <1>u, <2>1 DEF IInv, TypeOK
  <1>c. request' \in [Requests -> [user : Users, form : Forms] \cup {NoRequest}]
    BY DEF IInv, TypeOK
  <1>d. \A w \in Users : rows[w].id \in Nat /\ rows[w].id < nextId /\ (rows[w].id = 0 <=> rows[w] = NoRow)
    BY DEF IInv, TypeOK, Row
  <1> HIDE DEF Submit
  <1>1. TypeOK'
    <2>1. nextId' \in 1..(MaxId + 1)
      BY <1>0, IdAssumption
    <2>2. \A w \in Users : rows'[w].id < nextId' /\ (rows'[w].id = 0 <=> rows'[w] = NoRow)
      <3>1. rows'[u].id < nextId'
        BY <1>0, <1>a, <1>d
      <3>2. \A w \in Users : rows[w].id < nextId'
        BY <1>0, <1>d
      <3> QED
        BY <1>0, <1>a, <1>d, <3>1, <3>2
    <2> QED
      BY <1>0, <1>a, <1>b, <1>c, <2>1, <2>2 DEF IInv, TypeOK
  <1>2. IdsDiffer'
    BY <1>0, <1>a, <1>d DEF IInv, IdsDiffer
  <1>3. ScreensShowSubmitted'
    BY <1>0 DEF IInv, ScreensShowSubmitted
  <1>4. ScreensNameTheirUser'
    <2> SUFFICES ASSUME NEW a \in Reviewers, NEW e \in screen[a], NEW w \in Users
                 PROVE  rows'[w].id = e.row.id <=> w = e.user
      BY <1>0 DEF ScreensNameTheirUser
    <2>1. /\ e.row.id # 0 /\ e.user \in Users
          /\ rows[e.user].id = e.row.id /\ rows[w].id = e.row.id <=> w = e.user
      BY DEF IInv, TypeOK, ScreensShowSubmitted, ScreensNameTheirUser
    <2> QED
      BY <1>0, <1>a, <1>d, <2>1 DEF IInv, ScreensNameTheirUser
  <1>5. SettledAlone'
    <2>1. settled'[u] # None => Submitting(u)' = {}
      BY <1>b, <1>e
    <2>2. \A w \in Users \ {u} : settled'[w] # None => Submitting(w)' = {}
      BY <1>b, <1>e DEF IInv, SettledAlone
    <2> QED
      BY <2>1, <2>2 DEF SettledAlone
  <1>6. AnsweredIsOnFile'
    BY <1>0, <1>a, <1>b DEF IInv, AnsweredIsOnFile
  <1>7. NotesOfVerdict'
    BY <1>0, <1>a DEF IInv, NotesOfVerdict, Verdicts
  <1> QED
    BY <1>1, <1>2, <1>3, <1>4, <1>5, <1>6, <1>7 DEF IInv

LEMMA SubmitFailsIInv ==
  ASSUME IInv, NEW r \in Requests, SubmitFails(r)
  PROVE  IInv'
  <1> USE DEF SubmitFails, files
  <1>1. TypeOK'
    BY DEF IInv, TypeOK
  <1>2. IdsDiffer' /\ ScreensShowSubmitted' /\ ScreensNameTheirUser'
    BY DEF IInv, IdsDiffer, ScreensShowSubmitted, ScreensNameTheirUser
  <1>3. SettledAlone'
    <2>1. \A w \in Users : Submitting(w)' \subseteq Submitting(w)
      BY NoneAssumption DEF IInv, TypeOK, Submitting, NoRequest
    <2> QED
      BY <2>1 DEF IInv, SettledAlone
  <1>4. AnsweredIsOnFile' /\ NotesOfVerdict'
    BY DEF IInv, AnsweredIsOnFile, NotesOfVerdict
  <1> QED
    BY <1>1, <1>2, <1>3, <1>4 DEF IInv

\* The id that is drawn was never given to anyone.
LEMMA UploadIInv ==
  ASSUME IInv, NEW u \in Users, Upload(u)
  PROVE  IInv'
  <1> USE DEF Upload, DrawId
  <1>1. TypeOK'
    BY DEF IInv, TypeOK
  <1>2. IdsDiffer' /\ ScreensShowSubmitted' /\ ScreensNameTheirUser' /\ SettledAlone'
    BY DEF IInv, IdsDiffer, ScreensShowSubmitted, ScreensNameTheirUser, SettledAlone, Submitting
  <1>3. AnsweredIsOnFile' /\ NotesOfVerdict'
    BY DEF IInv, TypeOK, AnsweredIsOnFile, NotesOfVerdict
  <1> QED
    BY <1>1, <1>2, <1>3 DEF IInv

LEMMA StatusIInv ==
  ASSUME IInv, NEW u \in Users, Status(u)
  PROVE  IInv'
  <1> USE DEF Status, files
  <1>0. /\ Answered(rows[u]) \in [status : Statuses, notes : Verdicts \cup {None}]
        /\ Answered(rows[u]).status = rows[u].status
        /\ Answered(rows[u]).notes = rows[u].notes
    BY DEF IInv, TypeOK, Row, Answered
  <1>1. TypeOK'
    BY <1>0 DEF IInv, TypeOK
  <1>2. IdsDiffer' /\ ScreensShowSubmitted' /\ ScreensNameTheirUser' /\ SettledAlone'
    BY DEF IInv, IdsDiffer, ScreensShowSubmitted, ScreensNameTheirUser, SettledAlone, Submitting
  <1>3. AnsweredIsOnFile'
    BY DEF IInv, AnsweredIsOnFile
  <1>4. NotesOfVerdict'
    BY <1>0 DEF IInv, TypeOK, NotesOfVerdict
  <1> QED
    BY <1>1, <1>2, <1>3, <1>4 DEF IInv

\* A row that is pending has an id, which no other row has.
LEMMA PendingIInv ==
  ASSUME IInv, NEW a \in Reviewers, Pending(a)
  PROVE  IInv'
  <1> USE DEF Pending, files
  <1>0. /\ \A b \in Reviewers \ {a} : screen'[b] = screen[b]
        /\ \A e \in screen'[a] : e \in [user : Users, row : Row] /\ e.row = rows[e.user] /\ e.row.id # 0
    <2>1. \A u \in Listed : rows[u].id # 0 /\ [user |-> u, row |-> rows[u]] \in [user : Users, row : Row]
      BY DEF IInv, TypeOK, Listed, NoRow
    <2> QED
      BY <2>1 DEF IInv, TypeOK, Listed
  <1>1. TypeOK'
    <2>1. screen' \in [Reviewers -> SUBSET [user : Users, row : Row]]
      BY <1>0 DEF IInv, TypeOK
    <2> QED
      BY <2>1 DEF IInv, TypeOK
  <1>2. IdsDiffer' /\ ScreensShowSubmitted'
    BY <1>0 DEF IInv, IdsDiffer, ScreensShowSubmitted
  <1>3. ScreensNameTheirUser'
    BY <1>0 DEF IInv, IdsDiffer, ScreensNameTheirUser
  <1>4. SettledAlone' /\ AnsweredIsOnFile' /\ NotesOfVerdict'
    BY DEF IInv, SettledAlone, Submitting, AnsweredIsOnFile, NotesOfVerdict
  <1> QED
    BY <1>1, <1>2, <1>3, <1>4 DEF IInv

\* A decision leaves ids and forms as they are, and brings its own notes.
LEMMA ReviewIInv ==
  ASSUME IInv, NEW a \in Reviewers, NEW i \in 1..MaxId, NEW v \in Verdicts, Review(a, i, v)
  PROVE  IInv'
  <1> USE DEF Review, files
  <1>0. /\ rows' \in [Users -> Row]
        /\ \A u \in Users :
             /\ rows'[u].id = rows[u].id /\ rows'[u].form = rows[u].form
             /\ rows[u].id # i => rows'[u] = rows[u]
             /\ rows[u].id = i => rows'[u].status = v /\ rows'[u].notes = v
    <2>1. \A u \in Users :
            /\ Reviewed(a, u, v) \in Row
            /\ Reviewed(a, u, v).id = rows[u].id /\ Reviewed(a, u, v).form = rows[u].form
            /\ Reviewed(a, u, v).status = v /\ Reviewed(a, u, v).notes = v
      BY DEF IInv, TypeOK, Row, Reviewed, Statuses
    <2>2. \A u \in Users : rows'[u] = IF rows[u].id = i THEN Reviewed(a, u, v) ELSE rows[u]
      OBVIOUS
    <2>3. rows' = [u \in Users |-> rows'[u]]
      OBVIOUS
    <2> QED
      BY <2>1, <2>2, <2>3 DEF IInv, TypeOK
  <1>a. \A u \in Users : rows'[u].id = 0 <=> rows'[u] = NoRow
    BY <1>0 DEF IInv, TypeOK, NoRow
  <1>1. TypeOK'
    BY <1>0, <1>a DEF IInv, TypeOK
  <1>2. IdsDiffer' /\ ScreensShowSubmitted' /\ ScreensNameTheirUser'
    BY <1>0 DEF IInv, IdsDiffer, ScreensShowSubmitted, ScreensNameTheirUser
  <1>3. SettledAlone' /\ AnsweredIsOnFile'
    BY <1>0 DEF IInv, SettledAlone, Submitting, AnsweredIsOnFile
  <1>4. NotesOfVerdict'
    BY <1>0 DEF IInv, NotesOfVerdict
  <1> QED
    BY <1>1, <1>2, <1>3, <1>4 DEF IInv

LEMMA NextIInv ==
  ASSUME IInv, [Next]_vars
  PROVE  IInv'
  <1>1. CASE \E r \in Requests : Submit(r) \/ SubmitFails(r)
    BY <1>1, SubmitIInv, SubmitFailsIInv
  <1>2. CASE \E r \in Requests, u \in Users, f \in Forms : ReceiveSubmit(r, u, f)
    BY <1>2, ReceiveSubmitIInv
  <1>3. CASE \E u \in Users : Upload(u) \/ Status(u)
    BY <1>3, UploadIInv, StatusIInv
  <1>4. CASE \E a \in Reviewers : Pending(a)
    BY <1>4, PendingIInv
  <1>5. CASE \E a \in Reviewers, i \in 1..MaxId, v \in Verdicts : Review(a, i, v)
    BY <1>5, ReviewIInv
  <1>6. CASE UNCHANGED vars
    BY <1>6 DEF vars, files, IInv, TypeOK, IdsDiffer, ScreensShowSubmitted, ScreensNameTheirUser,
                SettledAlone, Submitting, AnsweredIsOnFile, NotesOfVerdict
  <1> QED
    BY <1>1, <1>2, <1>3, <1>4, <1>5, <1>6 DEF Next

-----------------------------------------------------------------------------
\* The inductive invariant: ids are those of one user each and never change, and
\* nothing is settled for a user who still has a submission under way.
THEOREM Invariance == Spec => []IInv
  <1> QED
    BY InitIInv, NextIInv, PTL DEF Spec

\* The state is well typed, and exactly the rows that were submitted have an id.
THEOREM TypeCorrectness == Spec => []TypeOK
  <1>1. IInv => TypeOK
    BY DEF IInv
  <1> QED
    BY Invariance, <1>1, PTL

\* HandleAdminReviewKYC finds its row by the id of a list that may be old: the
\* row is still that of the user the reviewer saw.
THEOREM DecisionsReachTheirUser == Spec => []ScreensNameTheirUser
  <1>1. IInv => ScreensNameTheirUser
    BY DEF IInv
  <1> QED
    BY Invariance, <1>1, PTL

\* A form that was answered 200 with none other under way, and a document that
\* was answered 201, stay on file under whatever else is submitted and decided.
THEOREM AnsweredStaysOnFile == Spec => []AnsweredIsOnFile
  <1>1. IInv => AnsweredIsOnFile
    BY DEF IInv
  <1> QED
    BY Invariance, <1>1, PTL

\* The ON CONFLICT clause clears the notes, and the UPDATE of a review replaces
\* them, so notes never stand next to another verdict than theirs.
THEOREM NotesFollowVerdicts == Spec => []NotesOfVerdict
  <1>1. IInv => NotesOfVerdict
    BY DEF IInv
  <1> QED
    BY Invariance, <1>1, PTL
=============================================================================
