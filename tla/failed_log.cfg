SPECIFICATION Spec
CONSTANTS
  None = None
  a = a
  b = b
  c = c
  k1 = k1
  k2 = k2
  WalletIds = {a, b}
  Requests = {r1, r2}
  Keys = {k1, k2}
  Inputs <- RetryInputs
  Opening <- TwoOpen
  MaxMoney = 40
  Faults = {}
SYMMETRY RequestSymmetry
INVARIANTS FailedTransfersAreLogged
