SPECIFICATION FairSpec
CONSTANTS
  NWorkers = 1
  MaxRetries = 2
  MaxReads = 3
  MaxDeaths = 3
INVARIANTS
  TypeOK
  NoStuckWriter
  WritersExclusive
  SlotLocksRight
PROPERTIES
  WaitsEnd
