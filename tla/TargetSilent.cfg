\* Formulas that generate silently: failed formulas are not retried.
SPECIFICATION Spec
CONSTANTS
  s1 = s1
  s2 = s2
  s3 = s3
  None = None
  Sets = {s1, s2, s3}
  Formulas = {a, b}
  FormulasSets <- AllShapes
  SilentFormulas = {a}
  Throwers = {}
  MaxKnowledge = 2
INVARIANTS
  GivesUpSaturated
