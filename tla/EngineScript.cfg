\* Pausing a session through the toggle of its script.
SPECIFICATION Spec
CONSTANTS
  Clients = {"pipe"}
  Profiles = {p1}
  HotkeyProfile = p1
  MaxStarts = 1
  TaskKinds = {"session"}
  FaultModes = {{}}
INVARIANT PauseReachesScript
