SPECIFICATION MCSpec
CONSTANTS
  p1 = p1
  p2 = p2
  bound_region = bound_region
  ReBound = bound_region
  first_local_index = 2
  num_universals = 4
  NumRegions = 8
  Points <- MCPoints
  Placeholders <- MCPlaceholders
  Universe <- MCUniverse
  Liveness <- MCLiveness
  ConstraintSets <- MCConstraintSets
  BoundSets <- MCBoundSets
  MemberSeqs <- MCMemberSeqs
  VerifyBounds <- MCVerifyBounds
  TypeTestSets <- MCTypeTestSets
INVARIANT TypeOK
INVARIANT SolvesConstraints
INVARIANT SolutionIsExact
INVARIANT UniversesRespected
INVARIANT RequirementsSuffice
INVARIANT TypeTestsSuffice
INVARIANT MembersAddNoError
INVARIANT BlameIsFound
CHECK_DEADLOCK FALSE
