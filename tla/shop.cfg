SPECIFICATION Spec
CONSTANTS
  None = None
  Requests = {p1, p2, r3}
  Deltas <- SmallDeltas
  Files = {f1, f2}
  Readers = {p1, p2}
  MaxDownloads = 2
  Orders = {p1, p2}
  Quotes = {q1}
  Clerks = {k1, k2}
  Total = 2
  Limit = 3
  MaxReopens = 1
  MaxReturned = 2
  Rets = {t1}
  MaxFaults = 1
  Movers = {p1, p2}
  Redeemers = {k1, k2}
  Orgs = {g1, g2}
  Max = 1
  MaxTopups = 1
  Sessions = {s1, s2, s3}
  MagicLinks = {t1}
  Clients = {p1, p2}
  MaxSessions = 2
  MaxResets = 1
  Links = {l1, l2}
  Checkouts = {k1, k2}
  Starts = {p1, p2}
  Charged = {g1}
  Agents = {p1, p2}
  Keys = {i1, i2}
  Totals = {1, 2}
  MaxCrashes = 1
  Lines = {n1, n2}
  Shoppers = {p1, p2}
  Prices = {1, 3}
  Discount = 2
  MaxEdits = 2
  Mandates = {m1, m2, m3}
  Makers = {p1, p2}
  Checkers = {v1}
  Amounts = {1, 2}
  ReadScope = read
  WriteScope = write
  Asked <- OneScopeEach
  Codes = {n1}
  Tokens = {k1, k2}
  Askers = {p1, p2}
  Processes = {x1, x2}
  Calls = {y1, y2}
  On <- OneEach
  Admin = x1
  TTL = 2
  Delay = 1
  MaxTime = 4
  PerWindow = 2
  Window = 2
  MaxPassed = 8
  Emails = {p1, p2}
  OneEmail = {e1}
  Visitors = {k1, k2}
  MaxInvites = 1
  Products = {p1, p2}
  Rules = {r1}
  Editors = {k1, k2}
  MaxChanges = 1
  Imports = {k1, k2}
  CsvRows <- SkuOrTitle
  MaxRows = 2
INVARIANTS BooksAddUp   OneHeirEach
    OrderIsItsLines AcceptedStoodWhole
  ConsentedScopes RevokedIsRefused NoBurst SignedInHasShown RulesReachMembers ImportedOnce
SYMMETRY Symmetry
CHECK_DEADLOCK FALSE
