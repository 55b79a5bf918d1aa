CONSTANTS
  Keys = {k1, k2}
  Data = {d1, d2}
  NULL = NULL
  InitialCapacity = 2
  Ttls = {0, 1}
  MsPerSec = 2
  UintMax = 3
  ReapBudgets = {1}
  MaxNow = 2
SPECIFICATION Spec
INVARIANT TypeOK
PROPERTIES ImplementsKv ReaperDrains
