SPECIFICATION Spec
CONSTANTS
  Rows <- TheRows
  Limits <- TheLimits
  MaxLimit = 2
  NoCursor = NoCursor
  Texts <- TheTexts
  Settings <- TheSettings
  MaxAttempts = 3
  d1 = d1
  d2 = d2
  Docs <- TheDocs
  Chunks <- TheChunks
  DocOf <- TheDocOf
  Lengths <- TheLengths
  LexicalTopK = 2
  SemanticTopK = 2
  FinalTopK = 3
  MaxChars = 6
  Events = 3
ACTION_CONSTRAINT OneAstray
INVARIANTS
  PartsTypeOK
  NoRepeats NothingMissed
  TextCovered ChunksAdvance NeighboursOverlap VectorsAligned
  AgreedFirst BetterFirst ContextFits LabelsInOrder ContextFilled
  EventsInOrder NothingHeldBack
CHECK_DEADLOCK FALSE
