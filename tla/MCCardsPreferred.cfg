SPECIFICATION Spec
CONSTANTS
  Users = {ann}
  Approved = {ann}
  Requests = {r1, r2}
  Limit = 3
  MaxCards = 4
  Nobody = Nobody
INVARIANTS
  SinglePreferred
