SPECIFICATION Spec
CONSTANTS
  a = a
  b = b
  c = c
  d = d
  e1 = e1
  e2 = e2
  e3 = e3
  unknown = unknown
  f1 = f1
  f2 = f2
  NoCase = NoCase
  Cases = {a, b, c, d}
  Events = {e1, e2, e3, unknown}
  Known = {e1, e2, e3}
  Findings = {f1, f2}
  Requests = {r1, r2, r3}
  Threads = {t1, t2}
  FirstCards <- CardsData
  WrittenIn <- WrittenData
  Commands <- CommandsData
  MaxSends = 4
  MaxDeaths = 1
CHECK_DEADLOCK FALSE
SYMMETRY Symmetric
INVARIANTS TypeOK EvidenceBelongs OriginIsTrue OneEffectPerRequest
PROPERTY NothingLeftBehind
