SPECIFICATION FairSpec
CONSTANTS
  d1 = d1  d2 = d2  c1 = c1  c2 = c2  s1 = s1  s2 = s2  h1 = h1  h2 = h2
  None = None
  Docs <- TwoDocs
  Convs <- TwoConvs
  Sends <- TwoSends
  Loads <- TwoLoads
  ReadsFail = TRUE
  Beyond <- OneBeyond
ACTION_CONSTRAINT NotBothLapses
INVARIANTS TypeOK BubblesFollowQuestions RefreshKeepsConversation
PROPERTIES InputComesBack
