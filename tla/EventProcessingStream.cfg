SPECIFICATION Spec
CONSTANTS
  e1 = e1
  e2 = e2
  e3 = e3
  e4 = e4
  e5 = e5
  e6 = e6
  loop = loop
  pool = pool
  Events = {e1, e2, e3, e4, e5, e6}
  Threads = {loop}
  ConfigRules <- Rules
  KnownFields = {"host_id", "user_id", "hash"}
  KnownSources = {"edr", "siem", "plc_polling"}
  BurstBucket = 300
  Bucketed = TRUE
  Generalized = TRUE
  KeysOf <- KeysOfData
  BurstOf <- BurstOfData
  BornAt <- TimeOfData
  Hitting = {e1, e3}
  WithEvidence = {e1, e3, e4}
  Backends = {"sqlite", "memory"}
  Targets = {"TRIAGE", "CONFIRMED"}
  MaxDecisions = 1
  MaxCrashes = 1
CHECK_DEADLOCK FALSE
INVARIANTS TypeOK Orderly EventsHeld AnsweredIsKept MergedIsTraceable
INVARIANTS OneOpenCaseForKey OpenCaseIsFound NeighboursShareCase
PROPERTY DeltaEqualsRewrite
