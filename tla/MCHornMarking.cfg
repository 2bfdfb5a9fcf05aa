CONSTANTS
  a = a
  b = b
  c = c
  FalseDp = FalseDp
  Point = {a, b, c}
  NumClauses = 3
  Systems <- AllSystems
SPECIFICATION Spec
INVARIANTS
  TypeOK
  ReachesFixpoint
PROPERTIES
  Terminates
CHECK_DEADLOCK FALSE
