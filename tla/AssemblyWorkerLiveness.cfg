SPECIFICATION FairSpec
CONSTANTS
  Workers = {w1, w2}
  LeaseTtl = 2
  Arrivals = {e1, e2, e3}
  Alarms = {e1, e2}
  Supervisor = "docker"
  ConfigAgrees = {w1}
  OnceWorkers = {w2}
  SlowRuns = FALSE
  OperatorStops = FALSE
  MaxFaults = 2
CHECK_DEADLOCK FALSE
PROPERTIES SignalAssembled AssemblyComesBack PromiseSpec
