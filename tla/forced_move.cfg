CONSTANTS
  s1 = s1
  s2 = s2
  m1 = m1
  m2 = m2
  b1 = b1
  b2 = b2
  w1 = w1
  w2 = w2
  a1 = a1
  a2 = a2
  None = None
  Students = {s1}
  Machines = {m1}
  BookingIds = {b1, b2}
  Workers = {w1}
  Admins = {a1}
  Kind <- OneWasher
  Grids <- TwoGrids
  DryerCap = FALSE
  QuotaLimit = 2
  AdvanceDays = 1
  Cutoff = 2
  DayLen = 5
  WeekLen = 10
  MaxTime = 3
  Ops = {"create", "move", "hours"}
SPECIFICATION Spec
INVARIANTS
  ForcedNeverCounts
CHECK_DEADLOCK FALSE
