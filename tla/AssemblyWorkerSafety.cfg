SPECIFICATION WorkerSpec
CONSTANTS
  Workers = {w1, w2}
  LeaseTtl = 2
  Arrivals = {e1, e2, e3}
  Alarms = {e1, e2}
  Supervisor = "systemd"
  ConfigAgrees = {w1, w2}
  OnceWorkers = {}
  SlowRuns = FALSE
  OperatorStops = TRUE
  MaxFaults = 2
CHECK_DEADLOCK FALSE
SYMMETRY Symmetric
INVARIANTS WorkerTypeOK NoSignalLost LeaseExcludes
PROPERTIES PromiseSafety
