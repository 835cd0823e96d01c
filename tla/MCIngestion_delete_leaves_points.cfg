SPECIFICATION Spec
CONSTANTS
  d1 = d1  d2 = d2  w1 = w1  w2 = w2  a1 = a1  c1 = c1
  None = None
  Docs <- OneDoc
  Workers <- OneWorker
  ApiThreads <- NoProcs
  CliThreads <- NoProcs
  UseAsync = TRUE
  Reconcile = FALSE
  MaxRetries = 1
  Faults <- NoFaults
  MaxCrashes = 0
  MaxRedeliveries = 0
INVARIANTS HardDeleted
CHECK_DEADLOCK FALSE
