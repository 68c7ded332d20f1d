CONSTANTS
  p = p
  q = q
  t = t
  r1 = r1
  r2 = r2
  UserLocals = 2
  OtherLocals = 1
  MaxStmts = 3
  Places = {p, q, t}
  LocalOf <- MCLocalOf
  Borrows <- MCBorrows
  MaxEdges = 2
SPECIFICATION Spec
INVARIANT ReadsTheWriteOnlyPlace
CHECK_DEADLOCK FALSE
