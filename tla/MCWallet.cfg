SPECIFICATION Spec
CONSTANTS
  Requests = {r1, r2, r3, r4}
  Addresses = {a1, a2}
  Nonces = {n1, n2}
  Hosts = {h1}
  Lifetime = 2
  Second = 2
  MaxNow = 3
  Nobody = Nobody
  SecretSets = {TRUE}
SYMMETRY Symmetry
INVARIANTS
  TypeOK
  SignedInTime
  SingleUse
  OneUserPerWallet
  WaitsForCommitter
PROPERTIES
  ImplementsWalletLogin
CHECK_DEADLOCK FALSE
