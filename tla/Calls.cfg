SPECIFICATION Spec
CONSTANTS
  i1 = i1
  i2 = i2
  e1 = e1
  e2 = e2
  Insts = {i1, i2}
  Host = Host
  Exns = {e1, e2}
  None = None
  MaxDepth = 2
  MaxExns = 2
  SharesRefs = FALSE
  Panics = TRUE
SYMMETRY Alike
INVARIANTS IInv DepthCovers GoStackBounded RefsResolve
PROPERTIES TailFramesDone OnlyPanicsLeak
