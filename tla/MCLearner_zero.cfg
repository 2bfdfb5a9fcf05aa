CONSTANTS
  a = a
  b = b
  c = c
  FalseDp = FalseDp
  Point = {a, b, c}
  Attribute <- UW
  MaxBound = 2
  Samples <- OneConstraintSamples
SPECIFICATION Spec
INVARIANTS
  CutAtZero
CHECK_DEADLOCK FALSE
