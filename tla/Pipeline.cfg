SPECIFICATION FairSpec
CONSTANTS
  ResultTypes <- I32
  ParamTypes <- None
  LocalTypes <- Exn
  TagParams <- MCTags
  Funcs <- MCFuncs
  Alphabets <- MCAlphabets
  MaxArity = 3
INVARIANTS NoFault AcceptedCompiles DeadCodeNeverRuns StackAgrees NothingLeftBehind
PROPERTIES HandledFirst ImplementsStructured LoopFreeEnds
CHECK_DEADLOCK FALSE
