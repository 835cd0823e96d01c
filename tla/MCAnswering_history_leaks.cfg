SPECIFICATION Spec
CONSTANTS
  d1 = d1  d2 = d2  c1 = c1  c2 = c2  r1 = r1  r2 = r2  r3 = r3
  None = None
  Docs <- TwoDocs
  Convs <- TwoConvs
  Requests <- ThreeRequests
  CacheEnabled = TRUE
  OneAtATime = TRUE
  DocumentsChange = FALSE
  Interrupted = FALSE
CONSTRAINTS OneRunning NoneFails
INVARIANTS OnlyActiveParticipate
SYMMETRY AllSymmetric
CHECK_DEADLOCK FALSE
