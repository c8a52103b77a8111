\* One template over 2 node variables: up to 4 matches, up to 2 arguments.
SPECIFICATION Spec
CONSTANTS
  x = x
  y = y
  w = w
  e = e
  a = a
  b = b
  aa = aa
  ab = ab
  ba = ba
  bb = bb
  l = l
  NodeVariables = {x, y}
  EdgeVariables = {e}
  OtherVariables = {w}
  MaxFixedArguments = 2
  Elements = {a, b, aa, ab, ba, bb, l}
  Inputs <- AllInputs
INVARIANTS
  ParamsAreAssignments
  TrueIffMatched
  ColumnsAreHits
  NoHitLost
