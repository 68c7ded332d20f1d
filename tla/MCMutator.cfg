CONSTANTS
  MaxBlocks = 3
  MaxStmts = 3
  MaxYield = 2
SPECIFICATION Spec
INVARIANTS TypeOK DeliveredIsBehind
PROPERTIES ImplementsEnumeration
CHECK_DEADLOCK FALSE
