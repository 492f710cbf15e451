SPECIFICATION Spec
CONSTANTS
  first = first
  second = second
  Nobody = Nobody
  Insts = {first, second}
  Mems = {}
  Tabs = {t1, t2, t3}
  Module <- TableModules
  HostMemoryLimits = {}
  HostTableLimits <- TableLimits
  Bytes = {0, 1}
  PageSize = 1
  MaxPages = 2
  MaxElems = 2
  MaxWord = 3
INVARIANTS RefsCallable OnlyBuiltRuns
CHECK_DEADLOCK FALSE
