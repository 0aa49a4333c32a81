CONSTANTS
  x1 = x1
  x2 = x2
  h1 = h1
  h2 = h2
  e1 = e1
  p1 = p1
  i1 = i1
  i2 = i2
  y1 = y1
  t1 = t1
  Nobody = Nobody
  NoOne = NoOne
  Addresses = {e1}
  Clients = {x1, x2}
  InstituteOf <- EveryAddressAtGim
  Backends = {"db", "locmem"}
  MaxAttempts = 2
  MaxSends = 1
  CodeLife = 2
  LinkLife = 1
  RateWindow = 2
  Cooldown = 1
  DefaultLife = 1
  MaxSecrets = 3
  CodesUpTo <- FewCodes
  CountCap = 3
  People = {p1}
  Institutes = {i1, i2}
  Hostels = {h1, h2}
  AllowedAt <- OnlyTheFirst
  Sheets = {x1, x2}
  LastDay = 1
  MaxMoves = 1
  Sessions = {y1}
  Pasted = {t1}
  Requests = {x1, x2}
  NoCredential = NoCredential
  AccessLife = 1
  RefreshLife = 2
  LastTick = 3
  Ids = {x1, x2}
  Newcomer = Newcomer
  Nil = Nil
  Permissions = {1, 2}
  NameInSource <- SourceNames
  NameInTarget <- TargetNames
  MaxWrites = 4
SPECIFICATION AccountsSpec
SYMMETRY Symmetric
INVARIANTS
  SecretsWorkOnce
  GuessesAreBounded
  AccountsAgree
  HomesAreOwn
  RequestsStayInScope
  AccountsTypeOK
PROPERTIES
  AccountsAreKept
  SuspensionsAreServed
  CopiesAreWhole
  SessionsEnd
CHECK_DEADLOCK FALSE
