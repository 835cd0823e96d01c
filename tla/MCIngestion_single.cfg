SPECIFICATION FairSpec
CONSTANTS
  d1 = d1  d2 = d2  w1 = w1  w2 = w2  a1 = a1  c1 = c1
  None = None
  Docs <- OneDoc
  Workers <- OneWorker
  ApiThreads <- NoProcs
  CliThreads <- NoProcs
  UseAsync = TRUE
  Reconcile = FALSE
  MaxRetries = 2
  Faults <- LiveFaults
  MaxCrashes = 2
  MaxRedeliveries = 2
INVARIANTS ReadyIndexed
PROPERTIES Settles
CHECK_DEADLOCK FALSE
