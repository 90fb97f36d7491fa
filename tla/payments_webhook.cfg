SPECIFICATION FairSpec
CONSTANTS
  None = None
  Handlers = {h1, h2}
  Ops = {"refund", "webhook", "dashboard"}
  Orders = {o1}
  Total <- TotalOfTwo
  Amounts = {1, 2}
  Keys = {}
  Tolerance = 0
  Provider = "razorpay"
  Faults = {"crash", "statement", "guard", "provider"}
  MaxCharges = 1
  MaxPayments = 0
  MaxRefunds = 2
  MaxReturned = 2
INVARIANTS RefundLedgerAgrees RefundsMatchProvider RecordedIsCharged
PROPERTY RequestsEnd
