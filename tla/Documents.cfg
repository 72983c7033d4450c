\* Settings, store, assets, pipe, reconnect, planner and statistics, one at a time, each within its bounds.
SPECIFICATION DocumentsSpec
CONSTANTS
  Inis <- MCInis
  Edits <- MCEdits
  Lowest <- MCLowest
  Highest <- MCHighest
  Stock <- MCStock
  Routes = {"clover", "rose"}
  Executable = {"snake", "e_lol"}
  DefaultPattern = "e_lol"
  ImportPattern = "stationary"
  Nowhere = "none"
  Absent = Absent
  Invalid = Invalid
  MaxFields = 2
  MaxMinutesPerField = 3
  Edited = 2
  Profiles = {p1, p2}
  Default = p1
  NoProfile = nobody
  Secret = secret
  Version = 2
  Threshold = 2
  Window = 2
  MaxTime = 3
  MaxCommands = 2
  MaxFaults = 3
  route = route
  pattern = pattern
  clock = clock
  preview = preview
  Releases = {1, 2}
  Shipped = 1
  Assets = {route, pattern, clock, preview}
  Converted = {preview}
  Runtime = runtime
  Support = support
  Pinned <- MCPinned
  Spoiled = 0
  SessionFields <- MCSessionFields
  Collects <- MCCollects
  Reset = reset
  None = None
  MaxChanges = 2
  MaxStarts = 1
  MaxScripts = 1
  CommandSizes = {1, 2}
  EventSizes = {2, 3}
  Limit = 2
  Capacity = 1
  Ring = 1
  MaxLinks = 3
  MaxFrames = 2
  MaxEvents = 3
  Requested = 7
  Delays <- MCDelays
  Deadline = 6
  Horizon = 9
  Lines <- MCLines
  Quests <- MCQuests
  Places <- MCPlaces
  FieldOrder <- MCFieldOrder
  Colors = {"red", "blue", "white"}
  Mobs <- MCMobs
  Budgets = {"dice"}
  Dwells = {0, 180}
  Unit = 12
  Anywhere = Anywhere
  Nothing = Nothing
  Screens <- MCScreens
  NotRead = NotRead
  HoneyMaximum = 3
  KeepFor = 3
  MinimumSpan = 2
  Pauses <- MCPauses
  MaxSamples = 3
INVARIANTS
  RunsWhatWasReviewed
  PreflightSuffices
  FramesArriveInOrder
  ReconnectIsBounded
  PlanIsWarranted
  ScriptsRunSoundValues
  AcceptedIsDurable
  CrashGuardHolds
  StatisticsAreSound
PROPERTIES
  SavesAreExact
  MigrationIsUndone
CHECK_DEADLOCK FALSE
