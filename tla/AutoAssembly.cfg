SPECIFICATION SceneSpec
CONSTANTS
  e1 = e1
  e2 = e2
  e3 = e3
  e4 = e4
  a = a
  b = b
  c1 = c1
  c2 = c2
  c3 = c3
  Events <- FourEvents
  Seeds = {a, b}
  SeedsOf <- SeedsOfFour
  Cases = {c1, c2, c3}
  CaseOf <- CaseOfFour
  Triggering = {e1, e2}
  MaxOccurrences = 2
  Runners = {worker, endpoint}
  MaxRuns = 3
  MaxAnalyst = 1
  MaxCrashes = 1
SYMMETRY Symmetry
CHECK_DEADLOCK FALSE
INVARIANTS TypeOK GroupsDisjoint Converged
