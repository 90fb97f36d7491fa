SPECIFICATION Spec
CONSTANTS
  None = None
  Requests = {b1, b2}
  Guests = {b1}
  LastNight = 2
  Conns = 2
  Pushes = {p1, p2}
  Imports = {i1}
  Events = {e1}
  Providers = {n1, n2}
  Mailed = {n2}
  MaxRetries = 2
  MaxSwitches = 1
  MaxCrashes = 1
  Products = {"a", "b"}
  Workers = {w1, w2}
  Limit = 2
  Batch = 2
  Poison = {}
  MaxEdits = 1
  MaxFaults = 1
INVARIANTS NoDoubleBooking SoldNightsAreClosed IndexedIsCurrent
PROPERTIES BookingEnds NothingIsLeft
CHECK_DEADLOCK FALSE
