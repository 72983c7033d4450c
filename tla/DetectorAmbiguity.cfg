SPECIFICATION ScanSpec
CONSTANTS
  Bear = Bear
  Bucko = Bucko
  Riley = Riley
  Clover = Clover
  Rose = Rose
  Other = Other
  Bindings <- MCBindings
  MatchMinimum = 90
  Margin = 4
  Frames = 3
  Agreements = 2
  ScoreFrames <- MCScores
  RowFrames <- MCRows
  Readings <- MCReadings
  Catalog <- MCCatalog
  Attempts = 2
INVARIANT GiverIsUnambiguous
CHECK_DEADLOCK FALSE
