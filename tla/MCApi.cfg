SPECIFICATION ApiSpec
CONSTANTS
  k1 = k1
  t1 = t1
  t2 = t2
  n1 = n1
  Cases = {k1}
  Threads = {t1, t2}
  Clerks = {t1, t2}
  Notes = {n1}
  MaxErrands = 5
  VerifyMaxFiles = 13
  ActionClass <- Class
  Earlier <- EarlierData
  Facts <- FactsData
  Commands <- CommandsData
  MaxRequests = 3
  MaxDeaths = 1
  WordsIn <- Words
  Readings <- ReadingsData
  Context <- ContextData
  WindowMax = 3
  MaxReadings = 4
  p1 = p1
  nokey = nokey
  key1 = key1
  IdemKeys = {key1}
  NoKey = nokey
  Bodies <- BodiesData
  PoolThreads = {p1}
  Ids = {1, 2, 3}
  Who = {"h", "u"}
  Hours = {1, 2}
  Ttl = 1
  RecentMax = 2
  HitsBetween = 2
  MaxClock = 2
  MaxSends = 2
  MaxTroubles = 1
  Addresses = {1, 2, 3}
  PerMinute = 2
  MaxTracked = 2
  MaxMinute = 1
  MaxCalls = 3
  Admins = {t1, t2}
  Proposals <- ProposalsData
  Shipped <- ShippedData
  MaxMonth = 2
  MaxPuts = 3
  MaxBreaks = 1
  Stored <- StoredData
  Standby <- StandbyData
  Newcomers <- NewcomersData
  Queries <- QueriesData
  PageSize = 2
  MaxWrites = 2
  Feed <- FeedData
  FeedFirst <- FeedFirstData
  Pipeline <- PipelineData
  Requests <- RequestsData
  UnionScore <- Union
  ClassOf <- Classified
  EventPage = 2
  MaxPages = 3
  Recent = 3
  MaxFeed = 2
  MaxPivots = 2
  MaxMoves = 2
  Couriers = {t1, t2}
  Dossier <- DossierData
  HitRules = {"blind_command"}
  NewCase <- FreshData
  Tasks = {"finding", "artifact", "decision", "edition", "approval"}
  Limit <- LimitData
  Destinations <- DestinationsData
  Setups <- SetupsData
  Resolutions <- ResolutionsData
  Inside = {1}
  Retries = 2
  Slots = 1
  MaxAsks = 2
  MaxTicks = 2
  MaxFalls = 1
  Lower <- LowerOf
  Upper <- UpperOf
  FirstWord <- FirstWordOf
  Masked <- MaskedText
  Segments <- SegmentsOf
  Times <- TimesData
  Numbers <- NumbersData
  Mapped <- MappedData
  Untranslated <- RefusedData
  Exports <- ExportsData
  Posts <- PostsData
  Alarming <- AlarmingData
  Trust <- TrustData
  Linked <- LinkedData
  MaxLoads = 2
  MaxPosts = 1
  MaxMishaps = 1
  MaxKills = 1
SYMMETRY Symmetry
CHECK_DEADLOCK FALSE
INVARIANTS ApiTypeOK EveryRecordTellsItsStory ReadersAgree NothingGetsLost BundleVerifies
INVARIANTS LoadedOnce OncePerKey CountersAddUp SettingsInForce AssessmentStands
PROPERTY ApprovedWasRead
