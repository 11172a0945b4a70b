CONSTANTS
  u1 = u1
  m1 = m1
  base = base
  ethereum = ethereum
  x1 = x1
  x2 = x2
  c1 = c1
  c2 = c2
  c3 = c3
  q1 = q1
  q2 = q2
  None = None
  Parties = {u1, m1}
  Merchants = {m1}
  Chains = {base, ethereum}
  Supported = {base, ethereum}
  Assets = {x1, x2}
  Creations = {c1, c2, c3}
  Queries = {q1, q2}
  Failures = {"database", "custodian", "crash"}
SPECIFICATION ChainsSpec
SYMMETRY CallSymmetry
CONSTRAINT TwoAtWork
INVARIANTS
  ChainsTypeOK
  OneWalletPerChain
  OneAddressUnlessMet
  AssetsOnce
  CacheIsWhole
CHECK_DEADLOCK FALSE
