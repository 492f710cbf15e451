SPECIFICATION Spec
CONSTANTS
  Insts <- MCInsts
  Types <- MCTypes
  Subtypes <- MCSubtypes
  Reg <- MCReg
  Programs <- MCPrograms
  Funcs <- MCFuncs
  Data <- MCData
  Elems <- MCElems
  Hosts = {1}
  Base = 2
  I31Size = 2
  MaxWord = 3
  MaxLength = 2
INVARIANTS HeapTyped CastsExact AccessExact TypesNeverMismatch
PROPERTY ImmutableKept
CHECK_DEADLOCK FALSE
