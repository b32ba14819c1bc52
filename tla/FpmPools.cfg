SPECIFICATION Spec
CONSTANTS
  NPools = 2
  Pid = {c1, c2, c3}
  config <- Mixed
  process_max = 2
  emergency_restart_threshold = 0
  MaxSignals = 1
  MaxFaults = 1
  Backlog = 1
SYMMETRY Symmetry
INVARIANTS
  NoOrphans
  EveryChildSignalled
PROPERTIES
  ImplementsSupervisor
