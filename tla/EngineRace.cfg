\* The pipe and the hotkey thread race, and an uncaught panic may end a worker.
SPECIFICATION Spec
CONSTANTS
  Clients = {"pipe", "hotkey"}
  Profiles = {p1}
  HotkeyProfile = p1
  MaxStarts = 2
  TaskKinds = {"native", "session"}
  FaultModes = {{"panic"}}
INVARIANTS
  StopReachesWorker
  RecordsOwnRun
  PermitsAccounted
  IdleMeansNoWork
PROPERTIES
  ImplementsExclusiveRun
