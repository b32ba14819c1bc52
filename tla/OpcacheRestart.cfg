SPECIFICATION FairSpec
CONSTANTS
  Process = {p1, p2}
  None = None
  force_restart_timeout = TRUE
  MaxRestarts = 2
  MaxDeaths = 1
  MaxHangs = 1
  MaxRefused = 1
INVARIANTS
  TypeOK
  ScriptsStay
  CacheComesBack
PROPERTIES
  RestartHappens
