SPECIFICATION Spec
CONSTANTS
  Requests = {r1, r2}
  Clients = {c1, c2}
  Window = 2
  MaxRequests = 2
  MaxCount = 3
  MaxNow = 4
SYMMETRY Symmetry
INVARIANTS
  TypeOK
  BurstBound
PROPERTIES
  RefusedOverQuota
CHECK_DEADLOCK FALSE
