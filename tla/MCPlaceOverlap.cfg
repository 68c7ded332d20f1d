SPECIFICATION MCSpec
CONSTANTS
  Bodies <- MCBodies
  MaxIndex = 3
INVARIANTS KillsAreFrontier InScopeIsPath ConflictIsOverlap
PROPERTIES ReachesFixpoint
CHECK_DEADLOCK FALSE
