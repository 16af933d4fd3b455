CONSTANTS
  a = a  agz = agz  b = b  bgz = bgz  c = c  cgz = cgz
  Name = {a, agz, b, bgz, c, cgz}  NoName = NoName
  CommandLines <- MCCommandLines  Existing = {a, agz, bgz, c}  Contents <- MCContents
  Suffixed <- MCSuffixed  OutName <- MCOutName
  OrigNames <- MCOrigNames  Inbufsiz = 4
  force = FALSE  foreground = TRUE
  Unreadable = {c}  ReadFails = {agz, bgz}  Uncreatable = {b, cgz}
  NoSpace = {a, agz, cgz}  Undeletable = {a, c}
SPECIFICATION Spec
INVARIANTS TypeOK DataKept NoPartialLeft ExitTells
PROPERTY RemovesOwn
