SPECIFICATION Spec
CONSTANTS
  Processes = {p1, p2}
SYMMETRY Symmetry
INVARIANTS
  TypeOK
  HandlersFindInitSchema
  CreatorOfWalletsDecides
  LedgerWithoutTables
