CONSTANTS
  x = x
  y = y
  z = z
  Relations <- QP
  VarsOf <- PQVars
  ValuesOf <- Ints
  BoolVars = {}
  NodesOf <- IntNodes
  Height <- IntHeights
  Trees <- IntTrees
  BoolParams = {z}
SPECIFICATION Spec
INVARIANTS
  TypeOK
  ConjecturesAreTree
  FunctionsAreTree
