CONSTANTS
  a = a
  b = b
  c = c
  FalseDp = FalseDp
  Point = {a, b, c}
  Impl = {"m", "n"}
  Func = {"f", "g"}
  FuncOf <- FG
  NumBounds = 1
  CCLimit = 2
  Programs <- AllPrograms
  MaxBound = 2
  Options <- AnyOptions
SPECIFICATION Spec
PROPERTIES
  EndsIfInconsistent
CHECK_DEADLOCK FALSE
