SPECIFICATION MCSpec
CONSTANTS
  p1 = p1
  p2 = p2
  Policies = {p1, p2}
  Rate <- MCRate
  Burst <- MCRate
  CallerNames = {caller, blank}
  NoSubject = blank
  UnknownSubject = unknown
  BucketCapacity = 1
  IdleTimeout = 2
  LimiterCalls = {r1, r2}
  LockDelay = 1
  LimiterMaxTime = 4
  MaxGrants = 6
  Admins = {r1, r2}
  Patches <- MCPatches
  Submissions <- MCSubmissions
  FirstRows <- MCFirstRows
  Keep = Keep
  Nothing = Nothing
  MaxSettingWrites = 3
  WidgetSites = {s1, s2}
  WidgetOrigins = {o1, o2}
  WidgetUsers = {w1}
  Issues = {i1}
  Exchanges = {r1, r2}
  Visits = {v1}
  MaxWidgetChanges = 2
  Fans = {fan}
  PageLimit = 1
  MaxPosts = 3
  MaxCreated = 2
  MaxPageEdits = 2
  Checks = {r1, r2}
  Letters = {"x", "y"}
  Texts <- MCTexts
  KeywordFiles <- MCKeywordFiles
  FirstFiles <- MCKeywordFiles
  Detectors <- MCDetectors
  MaxFileEdits = 1
  Records = {1, 2, 3}
  Exports <- MCExports
  Origins = {"o1", "o2", "o3"}
  NoOrigin = "none"
  Score <- MCScore
  FirstSites <- MCFirstSites
  AllAuthors = {1, 2}
  Pages = {1, 2}
  MaxRuns = 2
SYMMETRY ServicesSymmetry
INVARIANTS GrantsWithinRate SnapshotFresh CredentialsEarned 
  SteadyRowsShownOnce PageWhole KeywordsHonoured ImportFaithful
PROPERTIES EpochFollowsMode ConsentsCounted SelectionUsable
CHECK_DEADLOCK FALSE
