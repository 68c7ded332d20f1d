CONSTANTS
  NumOwners = 2
  NumMutations = 2
  MaxMutants = 3
  Codes = {E0499}
SPECIFICATION Spec
INVARIANTS TypeOK CountsAddUp VerdictsCounted CodesAttributed LogIsHistory ErrorsTakenBack
PROPERTIES EventuallyOver
CHECK_DEADLOCK FALSE
