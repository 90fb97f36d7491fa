SPECIFICATION Spec
CONSTANTS
  None = None
  Handlers = {h1, h2}
  Ops = {"create", "capture", "refund", "delegated"}
  Orders = {o1}
  Total <- TotalOfThree
  Amounts = {2}
  Keys = {}
  Tolerance = 1
  Provider = "stripe"
  Faults = {"crash", "checkout"}
  MaxCharges = 1
  MaxPayments = 2
  MaxRefunds = 2
  MaxReturned = 2
INVARIANTS TypeOK
PROPERTY LedgerSpec
SYMMETRY Alike
