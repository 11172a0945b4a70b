CONSTANTS
  alice = alice
  bob = bob
  t1 = t1
  t2 = t2
  a1 = a1
  a2 = a2
  r1 = r1
  r2 = r2
  d1 = d1
  None = None
  Accounts = {alice, bob}
  Transfers = {t1, t2}
  InternalTransfers = {t1}
  Expiring = {}
  AuthRequests = {a1, a2}
  TransferRequests = {r1, r2}
  Webhooks = {}
  Deposits = {d1}
  Failures = {"database"}
  Fee = 1
  Amount <- MCAmount
  Sender <- MCSender
  Recipient <- MCRecipient
  OpeningBalance <- MCOpeningBalance
  RecordCalls <- MCRecordCalls
  CloseCalls <- MCCloseCalls
  Transactions = {t1, t2}
SPECIFICATION CustodySpec
SYMMETRY RequestSymmetry
INVARIANTS
  CustodyTypeOK
  StatusEvidence
  BalancesExact
  MovedIsRecorded
CHECK_DEADLOCK FALSE
