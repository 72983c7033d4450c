\* One save, no faults: what the settings page shows right after it was accepted.
SPECIFICATION BridgeSpec
CONSTANTS
  Profiles = {p1}
  NoProfile = nobody
  FirstProfile = p1
  CallCount = 1
  CallKinds = {"save"}
  MaxSpawns = 1
  Capacity = 3
  MaxFaults = 0
INVARIANT ShownSettingsAreFresh
CHECK_DEADLOCK FALSE
