\* What a clean report says of the keys.
SPECIFICATION Spec
CONSTANTS
  key = key
  button = button
  Inputs = {key, button}
  Wait = wait
  Plan <- MCPlan
  MaxRuns = 1
INVARIANT CleanReportIsTrue
