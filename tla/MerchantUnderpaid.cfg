CONSTANTS
  m1 = m1
  a1 = a1
  None = None
  Payments = {m1}
  Activities = {a1}
  Webhooks = {}
  MCPrice = 105
  Deposits = {95}
  MaxReceived = 95
  Expiring = {}
  Emitted = {}
  Failures = {}
  Price <- MCPrices
  RecordCalls <- MCRecordCalls
  CloseCalls <- MCCloseCalls
  Transactions = {a1}
SPECIFICATION MerchantSpec
INVARIANTS
  RecordedWasReceived
CHECK_DEADLOCK FALSE
