CONSTANTS
  a = a  agz = agz  b = b  bgz = bgz  c = c  cgz = cgz
  Name = {a, agz}  NoName = NoName
  CommandLines <- MCGunzip  Existing = {agz}  Contents <- MCBoundary
  Suffixed <- MCSuffixed  OutName <- MCOutName
  OrigNames <- MCOrigNames  Inbufsiz = 4
  force = FALSE  foreground = TRUE
  Unreadable = {}  ReadFails = {}  Uncreatable = {}  NoSpace = {}  Undeletable = {}
SPECIFICATION Spec
INVARIANT SafeToRemove
