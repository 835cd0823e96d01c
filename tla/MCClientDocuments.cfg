SPECIFICATION FairSpec
CONSTANTS
  d1 = d1  d2 = d2
  None = None
  Docs <- TwoDocs
  PageLimit = 2
  MaxBatch = 2
  MaxUnderWay = 2
  InOrder = TRUE
ACTION_CONSTRAINTS OneBehind TwoAtATime
INVARIANTS TypeOK ShowsTable UploadsWatched ActiveIsReady
PROPERTIES PollingEnds
