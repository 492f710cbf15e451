SPECIFICATION Spec
CONSTANTS
  Indices <- MCIndices
  Shapes <- MCShapes
  ModulePairs <- MCPairs
INVARIANT NoPanic
CHECK_DEADLOCK FALSE
