CONSTANTS
  m1 = m1
  a1 = a1
  w1 = w1
  w2 = w2
  None = None
  Payments = {m1}
  Activities = {a1}
  Webhooks = {w1, w2}
  MCPrice = 15
  Deposits = {20}
  MaxReceived = 20
  Expiring = {}
  Emitted = {"created", "complete", "pendingApproval"}
  Failures = {"database", "crash"}
  Price <- MCPrices
  RecordCalls <- MCRecordCalls
  CloseCalls <- MCCloseCalls
  Transactions = {a1}
SPECIFICATION MerchantSpec
SYMMETRY HandlerSymmetry
CONSTRAINTS
  TwoAtWork
  OneFailure
INVARIANTS
  MerchantTypeOK
  StatusEvidence
  StatusesAgree
  CompletedIsRecorded
CHECK_DEADLOCK FALSE
