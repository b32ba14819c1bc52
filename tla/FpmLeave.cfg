SPECIFICATION FairSpec
CONSTANTS
  NPools = 1
  Pid = {c1, c2}
  config <- Static2
  process_max = 0
  emergency_restart_threshold = 0
  MaxSignals = 1
  MaxFaults = 0
  Backlog = 1
PROPERTIES
  MasterProgress
