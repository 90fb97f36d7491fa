SPECIFICATION Spec
CONSTANTS
  None = None
  Replicas = {r1, r2}
  Subs = {s1}
  Requests = {q1}
  Carts = {c1, c2}
  MaxDue = 2
  MaxFaults = 1
  MaxCrashes = 1
  MaxResends = 1
  Unguarded = FALSE
  Overrun = FALSE
  Cycle = 2
  MaxDay = 2
  MaxTries = 2
  MaxUpgrades = 1
INVARIANTS  OneMailPerCart ChargedOncePerTask 
PROPERTIES OnlyResumeRevives WorkIsDone
CHECK_DEADLOCK FALSE
