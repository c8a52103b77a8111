\* The loop of the target manager: 3 formulas in up to 3 sets, up to 2
\* generations; a and b may generate silently, b and c may throw.
SPECIFICATION Spec
CONSTANTS
  s1 = s1
  s2 = s2
  s3 = s3
  None = None
  Sets = {s1, s2, s3}
  Formulas = {a, b, c}
  FormulasSets <- AllShapes
  SilentFormulas = {a, b}
  Throwers = {b, c}
  MaxKnowledge = 2
INVARIANTS
  TypeOK
  LoopInvariant
  PriorityRespected
  GivesUpExhausted
  QueueGrowthBounded
PROPERTIES
  FailedIsRetried
  Terminates
  ImplementsForwardChaining
