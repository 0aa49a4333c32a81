CONSTANTS
  s1 = s1
  s2 = s2
  m1 = m1
  m2 = m2
  b1 = b1
  b2 = b2
  w1 = w1
  w2 = w2
  a1 = a1
  a2 = a2
  None = None
  Students = {s1}
  Machines = {m1, m2}
  BookingIds = {b1, b2}
  Workers = {w1, w2}
  Admins = {}
  Kind <- TwoWashers
  Grids <- OneGrid
  DryerCap = FALSE
  QuotaLimit = 1
  AdvanceDays = 1
  Cutoff = 2
  DayLen = 5
  WeekLen = 4
  MaxTime = 3
  Ops = {"create"}
SPECIFICATION Spec
INVARIANTS
  QuotaHeld
CHECK_DEADLOCK FALSE
