SPECIFICATION FairSpec
CONSTANTS
  Workers = {w1}
  LeaseTtl = 2
  Arrivals = {e1, e2, e3}
  Alarms = {e1, e2}
  Supervisor = "systemd"
  ConfigAgrees = {w1}
  OnceWorkers = {}
  SlowRuns = FALSE
  OperatorStops = FALSE
  MaxFaults = 1
CHECK_DEADLOCK FALSE
PROPERTIES AssemblyComesBack
