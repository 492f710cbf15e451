SPECIFICATION Spec
CONSTANTS
  ResultTypes <- I64
  ParamTypes <- None
  LocalTypes <- None
  TagParams <- MCTags
  Funcs <- MCFuncs
  Alphabets <- ElseAlphabets
  MaxArity = 3
INVARIANT NoFault
CHECK_DEADLOCK FALSE
