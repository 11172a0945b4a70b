CONSTANTS
  p1 = p1
  a1 = a1
  s1 = s1
  s2 = s2
  None = None
  Payments = {p1}
  ExternalPayments = {}
  AuthRequests = {a1}
  SendRequests = {s1, s2}
  Webhooks = {}
  OpeningBalance = 3
  Failures = {}
  MaxAge = 0
  Fee = 1
  Price <- MCPrice
  RecordCalls <- MCRecordCalls
  CloseCalls <- MCCloseCalls
  Transactions <- MCTransactions
SPECIFICATION FairSendSpec
PROPERTY DebitedIsPaidOut
CHECK_DEADLOCK FALSE
