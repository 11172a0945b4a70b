CONSTANTS
  m1 = m1
  a1 = a1
  a2 = a2
  None = None
  Payments = {m1}
  Activities = {a1, a2}
  Webhooks = {}
  MCPrice = 15
  Deposits = {20}
  MaxReceived = 20
  Expiring = {a1}
  Emitted = {}
  Failures = {"lostReply", "unawaited"}
  Price <- MCPrices
  RecordCalls <- MCRecordCalls
  CloseCalls <- MCCloseCalls
  Transactions = {a1, a2}
SPECIFICATION FairMerchantSpec
INVARIANTS
  PaidOutOnce
PROPERTIES
  SufficientIsPaidOut
CHECK_DEADLOCK FALSE
