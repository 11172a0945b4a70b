CONSTANTS
  alice = alice
  bob = bob
  t2 = t2
  a1 = a1
  r1 = r1
  h1 = h1
  h2 = h2
  None = None
  Accounts = {alice, bob}
  Transfers = {t2}
  InternalTransfers = {}
  Expiring = {t2}
  AuthRequests = {a1}
  TransferRequests = {r1}
  Webhooks = {h1, h2}
  Deposits = {}
  Failures = {"database", "custodian", "lostReply", "crash"}
  Fee = 1
  Amount <- MCAmount
  Sender <- MCSender
  Recipient <- MCRecipient
  OpeningBalance <- MCOpeningBalance
  RecordCalls <- MCRecordCalls
  CloseCalls <- MCCloseCalls
  Transactions = {t2}
SPECIFICATION CustodySpec
SYMMETRY RequestSymmetry
INVARIANTS
  PinBeforeCoins
  StatusEvidence
  RefundsBacked
  BalancesExact
  MovedIsRecorded
CHECK_DEADLOCK FALSE
