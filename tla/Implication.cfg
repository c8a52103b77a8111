\* Implications to their result: premises of up to 3 operands over 3 variables
\* and 3 values.
SPECIFICATION ComputeSpec
CONSTANTS
  x = x
  y = y
  z = z
  Variables = {x, y, z}
  EdgeVariables = {z}
  Values = {0, 1, 2, 3, 4, 5, 6, 7}
  Offset <- OffsetOf
  Fresh <- ManyFresh
  Inputs <- ComputeInputs
  Existing <- FoundOfConclusions
  WalkSet <- SomeWalks
  MaxDepth = 4
INVARIANTS
  ConjunctionIsJoin
  DisjunctionIsUnion
  EquivalenceIsAgreement
  FalsePremiseIsInert
  GeneratedForJoin
  IllFormedIsInert
  NotInKbIsExact
  ImplicationHolds
  ImplicationColumnsHold
  GeneratedIsRecorded
  ThrowsOnlyRagged
