CONSTANTS
  p1 = p1
  p2 = p2
  p3 = p3
  a1 = a1
  a2 = a2
  s1 = s1
  s2 = s2
  None = None
  Payments = {p1, p2, p3}
  ExternalPayments = {p3}
  AuthRequests = {a1, a2}
  SendRequests = {s1, s2}
  Webhooks = {}
  OpeningBalance = 5
  Failures = {"database", "crash"}
  MaxAge = 0
  Fee = 1
  Price <- MCPrice
  RecordCalls <- MCRecordCalls
  CloseCalls <- MCCloseCalls
  Transactions <- MCTransactions
SPECIFICATION SendSpec
SYMMETRY PaymentSymmetry
INVARIANTS
  SendTypeOK
  FundedIsRecorded
  BalanceExact
  AtMostOneDebit
  ExternalStaysInitiated
CONSTRAINT BackgroundWaits
CHECK_DEADLOCK FALSE
