SPECIFICATION Spec
CONSTANTS
  None = None
  Handlers = {h1, h2}
  Ops = {"webhook"}
  Orders = {o1}
  Total <- TotalOfTwo
  Amounts = {2}
  Keys = {}
  Tolerance = 0
  Provider = "stripe"
  Faults = {}
  MaxCharges = 1
  MaxPayments = 0
  MaxRefunds = 0
  MaxReturned = 0
INVARIANT AcknowledgedIsRecorded
