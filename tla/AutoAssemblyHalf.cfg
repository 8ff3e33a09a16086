SPECIFICATION SceneSpec
CONSTANTS
  e1 = e1
  e2 = e2
  e3 = e3
  e4 = e4
  a = a
  b = b
  c1 = c1
  c2 = c2
  c3 = c3
  Events <- ThreeEvents
  Seeds = {a, b}
  SeedsOf <- SeedsOfEvent
  Cases = {c1, c2, c3}
  CaseOf <- CaseOfEvent
  Triggering = {e1, e2}
  MaxOccurrences = 1
  Runners = {worker}
  MaxRuns = 2
  MaxAnalyst = 0
  MaxCrashes = 1
CHECK_DEADLOCK FALSE
INVARIANTS NothingHalfSaved
