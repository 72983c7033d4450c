\* What is said of the cooldowns.
SPECIFICATION Spec
CONSTANTS
  clock = clock
  Rotations = 2
  GatherTime <- MCGatherTime
  Targets = {clock}
  Collect <- MCCollect
  MaxCycles = 1
  MaxMinutes = 5
  Horizon = 10
  Reconnect = TRUE
  FaultyStore = FALSE
  Crashes = FALSE
INVARIANT SuccessNotRepeated
