\* Input, scan, port and hotkeys, one at a time, each within the bounds of its constants.
SPECIFICATION ServicesSpec
CONSTANTS
  key = key
  button = button
  Inputs = {key, button}
  Wait = wait
  Plan <- MCPlan
  MaxRuns = 2
  Bear = Bear
  Bucko = Bucko
  Riley = Riley
  Clover = Clover
  Rose = Rose
  Other = Other
  Bindings <- MCBindings
  MatchMinimum = 90
  Margin = 4
  Frames = 3
  Agreements = 2
  ScoreFrames <- MCScores
  RowFrames <- MCRows
  Readings <- MCReadings
  Catalog <- MCCatalog
  Attempts = 2
  Pids = {p1, p2}
  Births = 3
  Activations = 1
  Polls = 2
  NoClient = NoClient
  Bound <- MCBound
  Conflicts <- MCConflicts
  MaxPresses = 3
INVARIANTS
  HeldIsKnown
  OneLatePress
  SuccessLeavesNothing
  OneLateInput
  WarrantedFields
  OnlyTheAdoptedClient
PROPERTIES
  PressOnDetectedGeometry
  StopLetsGo
  ScanLetsGo
  CancelledCallsEnd
  HardStopIsObeyed
CHECK_DEADLOCK FALSE
