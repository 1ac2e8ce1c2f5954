SPECIFICATION Spec
CONSTANTS
  Requests = {r1, r2, r3}
  Names = {ann}
  Passwords = {p1}
  UUIDs = {u1, u2}
  Secrets = {Unset, s1}
  MaxStarts = 1
  Unset = Unset
  Blank = Blank
  None = None
INVARIANTS
  UUIDsSupported
CHECK_DEADLOCK FALSE
