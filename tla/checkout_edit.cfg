SPECIFICATION FairSpec
CONSTANTS
  None = None
  v1 = v1
  v2 = v2
  d1 = d1
  d2 = d2
  k1 = k1
  a1 = a1
  w1 = w1
  w2 = w2
  Workers = {w1, w2}
  Editors = {e1}
  PoolSize = 2
  Carts = {c1}
  Checkouts = {ch1}
  Customers = {}
  Companies = {}
  Codes = {}
  Agents = {a1}
  Variants = {v1}
  Tracked = {v1}
  NLevels = 1
  LevelVariant <- OneRow
  MaxStock = 1
  Deltas <- NoDeltas
  MaxQty = 1
  Prices = {1}
  Extra = 0
  Rule <- NoRules
  NetTerms = {}
  CreditLimit <- NoCredit
  SpendLimit <- SpendOfOne
PROPERTIES CompletionEnds PlacementSpec
INVARIANT LocksProtectReads
