\* One action of the inference agent: every combination of parameters, 2
\* formulas in up to 3 sets, up to 2 generations; b may throw.
SPECIFICATION AgentSpec
CONSTANTS
  s1 = s1
  s2 = s2
  s3 = s3
  None = None
  Sets = {s1, s2, s3}
  Formulas = {a, b}
  FormulasSets <- AllShapes
  SilentFormulas = {a}
  Throwers = {b}
  MaxKnowledge = 2
INVARIANTS
  AnswerIsComplete
  OrphansOnlyByException
PROPERTIES
  ActionIsFinished
