CONSTANTS
  a = a
  b = b
  c = c
  d = d
  FalseDp = FalseDp
  Point = {a, b, c, d}
  NumClauses = 3
  Problems <- AllProblems
SPECIFICATION FairSpec
INVARIANTS
  VerdictExact
  ForcedExactly
  PositiveFirst
PROPERTIES
  KeepsPromise
  Terminates
