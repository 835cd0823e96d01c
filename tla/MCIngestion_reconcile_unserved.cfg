SPECIFICATION Spec
CONSTANTS
  d1 = d1  d2 = d2  w1 = w1  w2 = w2  a1 = a1  c1 = c1
  None = None
  Docs <- OneDoc
  Workers <- OneWorker
  ApiThreads <- NoProcs
  CliThreads <- NoProcs
  UseAsync = TRUE
  Reconcile = TRUE
  MaxRetries = 1
  Faults <- CrashFaults
  MaxCrashes = 1
  MaxRedeliveries = 0
INVARIANTS ReadyServed
CHECK_DEADLOCK FALSE
