SPECIFICATION FairSpec
CONSTANTS
  Job <- const_Job
  Builds <- const_Builds
  JobSlots = 2
  MaxWait = 3
  Addr = {1, 2, 3}
  Handle = {11, 12, 13}
  Code = {0, 127}
  BeginErrors = {2}
  PipeFails = FALSE
INVARIANTS
  TypeOK
PROPERTIES
  ToldOnce
  Termination
