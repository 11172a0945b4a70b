CONSTANTS
  u1 = u1
  m1 = m1
  base = base
  o1 = o1
  v1 = v1
  p1 = p1
  p2 = p2
  n1 = n1
  l1 = l1
  l2 = l2
  t1 = t1
  g1 = g1
  g2 = g2
  x1 = x1
  None = None
  Parties = {u1, m1}
  Merchants = {m1}
  Chains = {base}
  Supported = {base}
  Assets = {}
  Creations = {v1, p1, p2, n1}
  Queries = {}
  Failures = {"database", "custodian", "mail", "crash"}
  OtpRequests = {o1}
  Verifications = {v1}
  PinRequests = {p1, p2}
  ChainRequests = {n1}
  Logins = {l1, l2}
  TokenRequests = {t1}
  MfaGets = {g1, g2}
  MfaPosts = {x1}
  Base = base
  Expiring = {o1, g1}
SPECIFICATION AccountSpec
SYMMETRY RequestSymmetry
CONSTRAINTS
  TwoAtWork
  OneConcern
  OneFailure
INVARIANTS
  AccountTypeOK
  SetupInOrder
  ActiveHasWallet
  OneSession
  HeldIsAccepted
PROPERTIES
  PinSetOnce
  LatestCodeVerifies
  LatestSecretEnabled
CHECK_DEADLOCK FALSE
