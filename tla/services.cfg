CONSTANTS
  x1 = x1
  x2 = x2
  y1 = y1
  y2 = y2
  m1 = m1
  o1 = o1
  o2 = o2
  Nothing = Nothing
  NoChannel = NoChannel
  Unissued = Unissued
  Students = {x1, x2}
  Machines = {m1}
  BookingIds = {y1, y2}
  Kind <- OneDryer
  Windows <- SomeWindows
  DryerCap = TRUE
  QuotaLimit = 1
  AdvanceDays = 1
  Cutoff = 2
  DayLen = 6
  HourLen = 2
  SafetyCap = 4
  Horizon = 3
  WeekLen = 12
  FirstHour = 1
  LastInstant = 8
  Connectors = {y1, y2}
  ProviderOf <- EachItsProduct
  Calls = {x1, x2}
  MaxCodes = 2
  MaxPairs = 3
  MaxRows = 4
  Raisers = {x1, x2}
  Officers = {o1, o2}
  MaxTickets = 2
  MaxTries = 2
  Washer = {m1}
  FeedLimit = 2
  StaleOffline = 2
  MaxEvents = 6
  MaxBooked = 8
SPECIFICATION ServicesSpec
SYMMETRY Symmetric
INVARIANTS
  FreeSlotsCanBeBooked
  MoveOptionsHonoured
  FreeUntilIsFree
  FoundSlotsAreBooked
  GridShowsBookings
  DriesShownAreCharged
  YieldsOnePair
  CutGrantsStayCut
  ConnectedWhileUsable
  NumberedInOrder
  TriesAreLostToOthers
  ThreadTellsTheStatus
  FeedShowsTheNewest
  OfflineSinceIsTrue
  SharesAddUp
  ServicesTypeOK
PROPERTIES
  OthersAreSpared
  ImplementsGrantKeys
  HoursCancelTheStranded
CHECK_DEADLOCK FALSE
