CONSTANTS
  a = a
  b = b
  c = c
  FalseDp = FalseDp
  Point = {a, b, c}
  Attribute <- UW
  MaxBound = 2
  Samples <- AllSamples
SPECIFICATION Spec
INVARIANTS
  Consistent
  FitsSample
  Divided
  FreePointsStayFree
  SplitHasLabels
  FailsOnlyIfContradictory
  NegativeSampleAtOnce
PROPERTIES
  Terminates
CHECK_DEADLOCK FALSE
