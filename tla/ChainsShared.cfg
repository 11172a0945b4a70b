CONSTANTS
  u1 = u1
  u2 = u2
  base = base
  c1 = c1
  c2 = c2
  None = None
  Parties = {u1, u2}
  Merchants = {}
  Chains = {base}
  Supported = {base}
  Assets = {}
  Creations = {c1, c2}
  Queries = {}
  Failures = {}
SPECIFICATION ChainsSpec
INVARIANT AddressOfOneParty
CHECK_DEADLOCK FALSE
