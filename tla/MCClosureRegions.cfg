SPECIFICATION Spec
CONSTANTS
  Programs <- MCPrograms
  Bodies <- MCBodies
INVARIANTS RequirementsArrive AssumptionsHold
CHECK_DEADLOCK FALSE
