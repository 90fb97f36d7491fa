SPECIFICATION Spec
CONSTANTS
  None = None
  v1 = v1
  v2 = v2
  d1 = d1
  d2 = d2
  k1 = k1
  a1 = a1
  w1 = w1
  w2 = w2
  Workers = {w1, w2}
  Editors = {}
  PoolSize = 3
  Carts = {c1}
  Checkouts = {ch1, ch2}
  Customers = {}
  Companies = {}
  Codes = {}
  Agents = {a1}
  Variants = {v1}
  Tracked = {}
  NLevels = 0
  LevelVariant <- NoRows
  MaxStock = 0
  Deltas <- NoDeltas
  MaxQty = 1
  Prices = {1}
  Extra = 0
  Rule <- NoRules
  NetTerms = {}
  CreditLimit <- NoCredit
  SpendLimit <- SpendOfOne
INVARIANT AgentWithinSpendLimit
SYMMETRY Alike
