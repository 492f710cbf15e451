SPECIFICATION Spec
CONSTANTS
  Indices <- MCIndices
  Shapes <- MCShapes
  ModulePairs <- MCPairs
INVARIANT TypesExact
CHECK_DEADLOCK FALSE
