SPECIFICATION Spec
CONSTANTS
  d1 = d1  d2 = d2  w1 = w1  w2 = w2  a1 = a1  c1 = c1
  None = None
  Docs <- TwoDocs
  Workers <- NoProcs
  ApiThreads <- OneThread
  CliThreads <- OneCli
  UseAsync = FALSE
  Reconcile = TRUE
  MaxRetries = 1
  Faults <- OnceFaults
  MaxCrashes = 0
  MaxRedeliveries = 0
PROPERTIES LegalStatusChanges
CHECK_DEADLOCK FALSE
