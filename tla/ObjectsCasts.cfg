SPECIFICATION Spec
CONSTANTS
  Insts <- MCInsts
  Types <- MCTypes
  Subtypes <- MCSubtypes
  Reg <- MCReg
  Programs <- MCPrograms
  Funcs <- MCFuncs
  Data <- MCData
  Elems <- MCElems
  Hosts = {1}
  Base = 2
  I31Size = 2
  MaxWord = 3
  MaxLength = 2
INVARIANT CastsAgree
CHECK_DEADLOCK FALSE
