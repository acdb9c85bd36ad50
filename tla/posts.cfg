SPECIFICATION Spec
CONSTANTS
  None = None
  a = a
  b = b
  c = c
  k1 = k1
  k2 = k2
  WalletIds = {a, b, c}
  Requests = {r1, r2, r3}
  Keys = {k1, k2}
  Inputs <- PostInputs
  Opening <- TwoOpen
  MaxMoney = 40
  Faults = {"await", "ack", "crash", "expiry"}
SYMMETRY RequestSymmetry
INVARIANTS TypeOK LockedReadsAreCurrent NoOverdraft OneWalletPerUser LedgerExplainsBalance LedgerChain BalancesReadWereCommitted
PROPERTIES TransfersConserve
