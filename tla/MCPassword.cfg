SPECIFICATION Spec
CONSTANTS
  Requests = {r1, r2, r3}
  Names = {ann}
  Passwords = {p1}
  UUIDs = {u1, u2, u3}
  Secrets = {Unset, Blank, s1, s2}
  MaxStarts = 2
  Unset = Unset
  Blank = Blank
  None = None
SYMMETRY Symmetry
INVARIANTS
  TypeOK
  OneAccountPerAddress
  AnswersMatchTable
  TableBeforeInsert
PROPERTIES
  LetInByLogin
CHECK_DEADLOCK FALSE
