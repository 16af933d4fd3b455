CONSTANTS
  Handle = {4, 8, 12}
  ProcessMax = 3
  ExitCodes = {0, 126, 255, 256}
  FirstPids = 1
  ForkFails = TRUE
  MCInputMax = 4
  Uses <- MCUses
SPECIFICATION FairSpec
INVARIANTS TypeOK BatchesRight ExitTells
PROPERTY Termination
