SPECIFICATION ServicesSpec
CONSTANTS
  Requests = {r1, r2}
  Pats = {pa, pb}
  Years = {y}
  Default = default
  None = None
  Unknown = Unknown
  MaxChanges = 1
  Callers = {c1, c2}
  Cookies = {ka, kb}
  NoCookie = nocookie
  NoMint = NoMint
  Margin = 1
  Lifetimes = {1, 3}
  LastMintSecond = 3
  MaxMints = 3
  OpsInstances = {i1, i2}
  OpsRequests = {q1, q2}
  NoReport = NoReport
  DayLength = 6
  BuildMargin = 2
  Late = 1
  BoundaryBuffer = 1
  ShortAge = 2
  Patience = 1
  LastDay = 2
  LocalIds = {ma, eb}
  NoId = NoId
  MaxWidgets = 2
  MaxRows = 3
  Ips = {ipa, ipb}
  Beacons = {b1, b2}
  NoBucket = NoBucket
  Capacity = 3
  UtcDay = 4
  LastSecond = 7
  Supervisors = {s1, s2}
  NoWork = NoWork
  Chains = {h1}
  MaxPlays = 1
  MaxTerms = 2
  MaxTurns = 3
  MaxMisses = 0
  MaxSections = 3
  Pages = {home, about}
  MaxRequests = 2
  Nothing = Nothing
  MaxCommits = 3
  MaxVersions = 2
  ResumeCalls = {ra, rb}
CHECK_DEADLOCK FALSE
INVARIANTS
  TokenOfOwnCookie
  WholeDays
  NewsArrives
  PlanIsDrawable
  HealthIsOwnWord
  ServedIsThere
  NothingLeftBehind
PROPERTIES
  SettledStays
  NoSecondAttempt
  ImplementsBucket
  TiesComeFromOverlap
  OrderIsKept
