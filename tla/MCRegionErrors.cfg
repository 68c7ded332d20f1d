SPECIFICATION MCSpec
CONSTANTS
  p1 = p1
  bound_region = bound_region
  ReBound = bound_region
  first_local_index = 1
  num_universals = 5
  NumRegions = 8
  Points <- MCPoints
  Placeholders <- MCPlaceholders
  Universe <- MCUniverse
  Liveness <- MCLiveness
  ConstraintSets <- MCConstraintSets
  BoundSets <- MCBoundSets
  MemberSeqs <- MCMemberSeqs
  VerifyBounds <- MCVerifyBounds
  TypeTestSets <- MCTypeTestSets
  Settings <- MCSettings
INVARIANT ErrorsAreAnswered
CHECK_DEADLOCK FALSE
