CONSTANTS
  a = a
  b = b
  c = c
  FalseDp = FalseDp
  Point = {a, b, c}
  Attribute = {"u"}
  Function = {1, 2}
  Interval <- TwoFunctions
  Threshold = 0
  Samples <- TwoFunctionSamples
SPECIFICATION Spec
INVARIANTS
  TypeOK
  ClosedWhenBuilt
  Strongest
  RejectsOnlyIfNone
PROPERTIES
  Terminates
CHECK_DEADLOCK FALSE
