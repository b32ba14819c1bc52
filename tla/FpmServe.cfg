SPECIFICATION ServingSpec
CONSTANTS
  NPools = 1
  Pid = {c1, c2}
  config <- Dynamic2Plain
  process_max = 0
  emergency_restart_threshold = 0
  MaxSignals = 0
  MaxFaults = 2
  Backlog = 1
PROPERTIES
  ServeProgress
