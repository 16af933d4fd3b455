CONSTANTS
  Handle = {4}
  ProcessMax = 1
  ExitCodes = {0, 255}
  FirstPids = 1
  ForkFails = TRUE
  MCInputMax = 4
  Uses <- MCOne
SPECIFICATION Spec
INVARIANT AbortsAt255
