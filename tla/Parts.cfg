SPECIFICATION PartsSpec
CONSTANTS
  zend_sigs = {hup, term, usr1}
  StartHandler = {"function"}
  NewHandler = {"default", "ignore"}
  QueueSize = 2
  MaxNesting = 2
  MaxRequests = 2
  MaxChanges = 1
  Record = {r1, r2, r3, r4}
  num_signals = 2
  MaxSent = 3
  Fiber = {f1, f2}
  Throwable = {e1, e2}
  MaxBlocking = 1
  MayFail = TRUE
  Extension = {x, y}
  Library = {l, m}
  enabled_extensions = {x}
  enabled_extensions_mobile = {y}
  MaxOptions = 2
  MaxDependencies = 3
INVARIANTS
  PartsTypeOK
  SignalQueueOK
  PcntlQueueOK
  FibersOK
  NoExceptionLost
  BuildRight
PROPERTIES
  SignalsDeferred
  AsyncCalled
  SwitchesRight
CHECK_DEADLOCK FALSE
