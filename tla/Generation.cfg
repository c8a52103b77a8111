\* Two evaluations, two formulas and two columns.
SPECIFICATION Spec
CONSTANTS
  main = main
  other = other
  p = p
  q = q
  a = a
  b = b
  Evaluations = {main, other}
  Formulas = {p, q}
  Columns = {a, b}
  Inputs <- InputsOf
  Storages <- InitialStorages
INVARIANTS
  DuplicatesAreRaces
  FirstGeneratesOnce
  TrueConclusionHolds
  FalseConclusionIsKnown
  ReportsWholeConclusion
  StructureIsExact
