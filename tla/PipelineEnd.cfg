SPECIFICATION Spec
CONSTANTS
  ResultTypes <- I32
  ParamTypes <- None
  LocalTypes <- None
  TagParams <- MCTags
  Funcs <- MCFuncs
  Alphabets <- EndAlphabets
  MaxArity = 3
INVARIANT ValidCompiles
CHECK_DEADLOCK FALSE
