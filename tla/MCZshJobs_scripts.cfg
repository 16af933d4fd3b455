SPECIFICATION FairSpec
CONSTANTS
  Child <- const_Child
  None = "none"
  Scripts <- const_Scripts
  ExitCode <- const_ExitCode
  Garbage = {0, 7}
  MaxAllocs = 1
INVARIANTS
  TypeOK
  StatusTells
PROPERTIES
  Termination
