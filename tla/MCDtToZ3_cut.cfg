CONSTANTS
  x = x
  y = y
  z = z
  Relations <- OnlyQ
  VarsOf <- QVars
  ValuesOf <- Bit
  BoolVars = {}
  NodesOf <- KeptNodes
  Height <- KeptHeights
  Trees <- PrephaseResults
  BoolParams = {z}
SPECIFICATION Spec
INVARIANTS
  FunctionsAreTreeInRelease
