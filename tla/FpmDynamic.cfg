SPECIFICATION Spec
CONSTANTS
  NPools = 1
  Pid = {c1, c2}
  config <- Dynamic2
  process_max = 0
  emergency_restart_threshold = 1
  MaxSignals = 1
  MaxFaults = 1
  Backlog = 1
SYMMETRY Symmetry
INVARIANTS
  TypeOK
  CountersExact
  SlotsExact
  ZombiesNoticed
  EveryChildSignalled
PROPERTIES
  KillOnlyAfterWarning
  NeverWeakened
