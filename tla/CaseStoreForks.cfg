SPECIFICATION Spec
CONSTANTS
  api = api
  worker = worker
  a1 = a1
  a2 = a2
  w1 = w1
  merge = merge
  decide = decide
  split = split
  assemble = assemble
  c1 = c1
  c2 = c2
  c3 = c3
  NoOne = NoOne
  Cases = {c1, c2, c3}
  Requests = {merge, decide, split, assemble}
  Threads = {a1, a2, w1}
  Procs = {api, worker}
  ProcOf <- ProcOfData
  Home <- HomeData
  Touches <- TouchesData
  Rebuilds = {assemble}
  FaultKinds = {}
  MaxFaults = 0
CHECK_DEADLOCK FALSE
INVARIANT ChainNeverForks
