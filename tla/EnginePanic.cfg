\* The trait's claim that inputs are released on panic recovery.
SPECIFICATION Spec
CONSTANTS
  Clients = {"pipe"}
  Profiles = {p1}
  HotkeyProfile = p1
  MaxStarts = 1
  TaskKinds = {"session"}
  FaultModes = {{"panic"}}
INVARIANT NoRunEndsDirty
