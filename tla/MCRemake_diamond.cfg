CONSTANTS
  all = all  w = w  x = x  y = y  z = z  v = v  s = s  t = t  u = u
  File = {all, w, x, y, z, v, s, t, u}
  Deps <- MCDeps  also_make <- MCAlso  Lines <- MCLines  OldTimes <- MCOldTimes  Goals <- MCGoals
  Cmds = {all, w, x, y, z, v, s}  Target = {all, w, x, y, z, v, s}
  Touches = {w, x, y, z, v, s}
  New = 3  JobSlots = 1
  Options <- MCDiamond
SPECIFICATION Spec
INVARIANT PreconditionsMet
