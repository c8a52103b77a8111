\* An argument without a match after one that has a match.
SPECIFICATION Spec
CONSTANTS
  x = x
  y = y
  w = w
  e = e
  a = a
  b = b
  aa = aa
  ab = ab
  ba = ba
  bb = bb
  l = l
  NodeVariables = {x, y}
  EdgeVariables = {e}
  OtherVariables = {w}
  MaxFixedArguments = 2
  Elements = {a, b, aa, ab, ba, bb, l}
  Inputs <- AllInputs
INVARIANTS
  ColumnsAreMatches
