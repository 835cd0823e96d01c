SPECIFICATION Spec
CONSTANTS
  d1 = d1  d2 = d2  w1 = w1  w2 = w2  a1 = a1  c1 = c1
  None = None
  Docs <- OneDoc
  Workers <- TwoWorkers
  ApiThreads <- NoProcs
  CliThreads <- NoProcs
  UseAsync = TRUE
  Reconcile = TRUE
  MaxRetries = 1
  Faults <- BrokerFaults
  MaxCrashes = 1
  MaxRedeliveries = 1
INVARIANTS TypeOK NoStranded OriginalRetained
PROPERTIES DecisionsStand
CHECK_DEADLOCK FALSE
