SPECIFICATION FairSpec
CONSTANTS
  LBUFSIZE = 2
  MaxSize = 4
  Kinds = {"file", "pipe", "proc"}
  Cbufs <- const_Cbufs
  Autobufs = {TRUE, FALSE}
  Faults = {"alloc", "seek", "read", "late"}
  GoesOn = FALSE
INVARIANTS
  TypeOK
  AnswerRight
  PipeKept
PROPERTY
  Termination
