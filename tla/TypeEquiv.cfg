SPECIFICATION FairSpec
CONSTANTS
  Indices <- MCIndices
  Shapes <- MCShapes
  ModulePairs <- MCPairs
INVARIANTS TypeOK TypesUnfolded SubtypeExact
PROPERTY Answers
CHECK_DEADLOCK FALSE
