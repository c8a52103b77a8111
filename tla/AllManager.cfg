\* Every formula once: 3 formulas in up to 3 sets, up to 3 generations.
SPECIFICATION Spec
CONSTANTS
  s1 = s1
  s2 = s2
  s3 = s3
  None = None
  Sets = {s1, s2, s3}
  Formulas = {a, b, c}
  FormulasSets <- AllShapes
  SilentFormulas = {a, b}
  Throwers = {b, c}
  MaxKnowledge = 3
INVARIANTS
  TriedInOrder
PROPERTIES
  Terminates
