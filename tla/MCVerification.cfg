SPECIFICATION Spec
CONSTANTS
  Users = {ann, bob}
  Reviewers = {eve}
  Forms = {f1, f2}
  Requests = {r1, r2}
  MaxId = 3
  DocumentIds = {d1, d2}
  None = None
SYMMETRY Symmetry
INVARIANTS
  TypeOK
  ScreensNameTheirUser
  AnsweredIsOnFile
  NotesOfVerdict
