CONSTANTS
  s1 = s1
  s2 = s2
  m1 = m1
  m2 = m2
  b1 = b1
  b2 = b2
  w1 = w1
  w2 = w2
  a1 = a1
  a2 = a2
  x1 = x1
  x2 = x2
  c1 = c1
  c2 = c2
  None = None
  Students = {s1, s2}
  Machines = {m1}
  BookingIds = {b1, b2}
  Workers = {w1}
  Admins = {}
  ExchangeIds = {x1, x2}
  Callers = {c1}
  Databases = {"sqlite"}
  Kind <- OneWasher
  Grids <- Short
  DryerCap = FALSE
  QuotaLimit = 1
  AdvanceDays = 1
  Cutoff = 1
  DayLen = 3
  WeekLen = 10
  MaxTime = 1
  Ops = {"create", "move", "cancel", "offer", "approve", "withdraw", "list"}
SPECIFICATION ExchangeSpec
SYMMETRY ExchangeSymmetry
INVARIANTS
  QuotaHeldUnlessCrossed
PROPERTIES
  ImplementsBookingDeals
CHECK_DEADLOCK FALSE
