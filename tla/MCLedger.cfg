CONSTANTS
  r1 = r1
  r2 = r2
  r3 = r3
  k1 = k1
  k2 = k2
  t1 = t1
  t2 = t2
  None = None
  RecordCalls = {r1, r2, r3}
  CloseCalls = {k1, k2}
  Transactions = {t1, t2}
SPECIFICATION LedgerSpec
SYMMETRY CallSymmetry
INVARIANTS
  OneLedgerUnlessRaced
  LostOnlyIfPosted
PROPERTY PostedFrozenUnlessRaced
CHECK_DEADLOCK FALSE
