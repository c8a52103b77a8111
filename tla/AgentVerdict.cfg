\* The verdict on a target that was there before the first formula.
SPECIFICATION AgentSpec
CONSTANTS
  s1 = s1
  s2 = s2
  s3 = s3
  None = None
  Sets = {s1, s2, s3}
  Formulas = {a, b}
  FormulasSets <- AllShapes
  SilentFormulas = {}
  Throwers = {b}
  MaxKnowledge = 2
INVARIANTS
  AchievedIsSuccess
