CONSTANTS
  x = x
  y = y
  z = z
  Relations <- QP
  VarsOf <- PQVars
  ValuesOf <- Bools
  BoolVars = {x}
  NodesOf <- BoolNodes
  Height <- BoolHeights
  Trees <- BoolTrees
  BoolParams = {}
SPECIFICATION Spec
INVARIANTS
  ConjecturesAreTree
