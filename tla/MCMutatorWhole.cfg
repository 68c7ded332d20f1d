CONSTANTS
  MaxBlocks = 2
  MaxStmts = 3
  MaxYield = 1
SPECIFICATION Spec
INVARIANT TraversesEntireBody
CHECK_DEADLOCK FALSE
