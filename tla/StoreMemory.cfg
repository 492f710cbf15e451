SPECIFICATION Spec
CONSTANTS
  first = first
  second = second
  Nobody = Nobody
  Insts = {first, second}
  Mems = {m1, m2}
  Tabs = {}
  Module <- MemoryModules
  HostMemoryLimits <- MemoryLimits
  HostTableLimits = {}
  Bytes = {0, 1}
  PageSize = 2
  MaxPages = 2
  MaxElems = 2
  MaxWord = 3
INVARIANTS IInv ImportContracts TrapsExactly SegmentsSpent PrivateUntilLive
PROPERTY GrowKeeps
CHECK_DEADLOCK FALSE
