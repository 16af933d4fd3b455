SPECIFICATION FairSpec
CONSTANTS
  NMERGE = 2
  Jobs <- const_Jobs
  MaxChunk = 2
  Faults = {"open", "create", "read", "write"}
INVARIANTS
  TypeOK
  NoTempLeft
  OutputIsSorted
PROPERTY
  Termination
