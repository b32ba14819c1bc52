SPECIFICATION Spec
CONSTANTS
  NWorkers = 2
  MaxRetries = 1
  MaxReads = 1
  MaxDeaths = 0
PROPERTIES
  ReaderWaitsForWriter
