SPECIFICATION FairSpec
CONSTANTS
  d1 = d1  d2 = d2  w1 = w1  w2 = w2
  None = None
  Docs <- BothDocs
  Workers <- BothWorkers
  ApiThreads <- NoProcs
  CliThreads <- NoProcs
  UseAsync = TRUE
  Reconcile = FALSE
  MaxRetries = 1
  Faults <- LostOnly
  MaxCrashes = 0
  MaxRedeliveries = 0
INVARIANTS NoOverlap
PROPERTIES ImplementsLifecycle DecidesUploads
CHECK_DEADLOCK FALSE
