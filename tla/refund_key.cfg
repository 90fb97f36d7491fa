SPECIFICATION Spec
CONSTANTS
  None = None
  Handlers = {h1, h2}
  Ops = {"refund", "webhook"}
  Orders = {o1}
  Total <- TotalOfTwo
  Amounts = {1, 2}
  Keys = {k1}
  Tolerance = 0
  Provider = "razorpay"
  Faults = {"crash"}
  MaxCharges = 1
  MaxPayments = 0
  MaxRefunds = 2
  MaxReturned = 2
INVARIANT OneReturnPerKey
