CONSTANTS
  Threads = {m}
  Main = m
  m = m
  MaxPages = 3
  NShared = 0
  MaxSize = 2
  Size <- MCSize
  Budgets = {2}
  SafeRam = {1}
  v1 = v1
  v2 = v2
  Val = {v1, v2}
  Garbage = Garbage
  Torn = Torn
  Absent = Absent
  Arena = TRUE
  Faults = TRUE
SPECIFICATION FairSpec
INVARIANTS
  PinnedStays
  UsedIsResident
PROPERTIES
  BudgetRespected
  FullIsReal
  CallsReturn
  ImplementsPageStore
CHECK_DEADLOCK FALSE
