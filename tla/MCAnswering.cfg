SPECIFICATION Spec
CONSTANTS
  d1 = d1  d2 = d2  c1 = c1  c2 = c2  r1 = r1  r2 = r2  r3 = r3
  None = None
  Docs <- TwoDocs
  Convs <- OneConv
  Requests <- TwoRequests
  CacheEnabled = TRUE
  OneAtATime = TRUE
  DocumentsChange = TRUE
  Interrupted = TRUE
INVARIANTS TypeOK LabelsAgree InScope AnsweredOnce UnansweredIsFlagged HistoryPaired
SYMMETRY Symmetric
CHECK_DEADLOCK FALSE
