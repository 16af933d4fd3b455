CONSTANTS
  r = r  s = s  a = a  b = b  p = p  c = c  d = d  e = e
  Make = {r, s}  Root = r  NoMake = NoMake
  Job = {a, b, p, c, d, e}  NoJob = NoJob
  Owner <- MCOwner  Lines <- MCLines  Sub <- MCSub  Uses <- MCUses
  Slot = {s1, s2}  Byte = {s1, s2, x1, x2, x3}  NoSlot = NoSlot
SPECIFICATION FairSpec
INVARIANTS TypeOK MaxJobs NoLostWakeup OnlyChildIsFreeJob TokensReturned NoOrphans
PROPERTY Termination
