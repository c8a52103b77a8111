\* One variable; two delete actions, for the same solution or for two of them.
SPECIFICATION Spec
CONSTANTS
  g1 = g1
  g2 = g2
  d1 = d1
  d2 = d2
  Solutions = {g1, g2}
  Deleters = {d1, d2}
  Scenarios <- SomeScenarios
  Variables = {v}
  Values = {p, q}
  None = None
  MaxNodes = 3
CHECK_DEADLOCK FALSE
INVARIANTS
  TypeOK
  TreeIsWhole
  NothingLeft
  BeginningIsErased
  ArcsKept
PROPERTIES
  DeletionEnds
