\* A disjunction whose operands have nested variables.
SPECIFICATION Spec
CONSTANTS
  x = x
  y = y
  z = z
  Variables = {x, y, z}
  EdgeVariables = {z}
  Values = {0, 1, 2, 3, 4}
  Offset <- OffsetOf
  Fresh <- FreshValues
  Inputs <- MCInputs
  Existing <- ExistingMatrices
  WalkSet <- SomeWalks
  MaxDepth = 4
INVARIANTS
  ReplacementsAreMatrix
