SPECIFICATION FairSpec
CONSTANTS
  Job <- const_Job
  Lines <- const_Lines
  JobSlots = 2
  Options <- const_Options
  MayFail = {"b"}
  ForkFails = {"a", "c"}
  Ignores = {"c"}
  Sigs = {"INT", "TERM", "XCPU"}
INVARIANTS
  TypeOK
  EndsClean
PROPERTIES
  KeptOnceDone
  Termination
