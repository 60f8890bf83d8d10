CONSTANTS
  Threads = {t1, t2}
  Main = t1
  t1 = t1
  t2 = t2
  MaxPages = 2
  NShared = 0
  MaxSize = 1
  Size <- UnitSize
  Budgets = {1}
  SafeRam = {}
  v1 = v1
  Val = {v1}
  Garbage = Garbage
  Torn = Torn
  Absent = Absent
  Arena = FALSE
  Faults = FALSE
SPECIFICATION Spec
INVARIANT WithinBudget
CHECK_DEADLOCK FALSE
