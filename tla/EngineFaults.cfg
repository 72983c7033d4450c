\* One command source and every kind of run; ports fail and workers panic, or nothing does.
SPECIFICATION FairSpec
CONSTANTS
  Clients = {"pipe"}
  Profiles = {p1, p2}
  HotkeyProfile = p1
  MaxStarts = 2
  TaskKinds = {"native", "legacy", "session", "scan"}
  FaultModes = {{}, {"port", "panic"}}
INVARIANTS
  InputsReleased
  ActiveRunOwnsSelection
PROPERTIES
  CancelledRunEnds
  StopSettles
