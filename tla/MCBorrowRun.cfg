CONSTANTS
  x = x
  y = y
  m1 = m1
  m2 = m2
  two = two
  sh = sh
  ret = ret
  gd = gd
  f = f
  g = g
  Locals = {x, y, m1, m2, two, sh, ret, gd}
  Fields = {f, g}
  Paths <- MCPaths
  Bodies <- MCBodies
  MaxSteps = 10
SPECIFICATION Spec
INVARIANTS TypeOK PoloniusIsMorePrecise AcceptedIsSafe ActiveWhenUsed UnusedMutIsNeverMutated ConflictIsReal
CHECK_DEADLOCK FALSE
