SPECIFICATION Spec
CONSTANTS
  c1 = c1
  c2 = c2
  c3 = c3
  Calls = {c1, c2}
  Inputs <- AllInputs
  MaxId = 9
  Wallets = {1, 2, 3, 4}
  MaxBalance = 3
  InitialBalance <- MCInitialBalance
  NoCall = NoCall
INVARIANTS
  RetryReturnsSameResult
