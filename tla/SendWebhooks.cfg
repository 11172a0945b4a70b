CONSTANTS
  p1 = p1
  a1 = a1
  s1 = s1
  w1 = w1
  w2 = w2
  None = None
  Payments = {p1}
  ExternalPayments = {}
  AuthRequests = {a1}
  SendRequests = {s1}
  Webhooks = {w1, w2}
  OpeningBalance = 3
  Failures = {"database", "provider", "lostReply", "crash"}
  MaxAge = 3
  Fee = 1
  Price <- MCPrice
  RecordCalls <- MCRecordCalls
  CloseCalls <- MCCloseCalls
  Transactions <- MCTransactions
SPECIFICATION SendSpec
SYMMETRY RequestSymmetry
INVARIANTS
  PayoutBacked
  StatusEvidence
PROPERTY KeepsPromise
CHECK_DEADLOCK FALSE
