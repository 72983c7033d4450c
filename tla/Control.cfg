\* The bridge: one call; one broken connection, crashed daemon or lost event; a daemon of its own or another's.
\* The session: two sessions of two cycles over two fields, with a collection at each boundary.
SPECIFICATION ControlSpec
CONSTANTS
  Profiles = {p1, p2}
  NoProfile = nobody
  FirstProfile = p1
  CallCount = 1
  CallKinds = {"save", "select", "delete", "start"}
  MaxSpawns = 1
  Capacity = 3
  MaxFaults = 1
  clock = clock
  Rotations = 2
  GatherTime <- MCGatherTime
  Targets = {clock}
  Collect <- MCCollect
  MaxCycles = 2
  MaxMinutes = 5
  Horizon = 10
  Reconnect = TRUE
  FaultyStore = TRUE
  Crashes = TRUE
INVARIANTS
  AnswersAreTrue
  CacheIsStore
  ExitStopsOwned
  ScriptsStartInPlace
  CompletedMeansDone
  RepeatsOnlyUnrecorded
PROPERTIES
  StateIsShown
  ShutdownEnds
  SessionEnds
CHECK_DEADLOCK FALSE
