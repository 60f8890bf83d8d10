CONSTANTS
  Threads = {t1, t2}
  Main = t1
  t1 = t1
  t2 = t2
  MaxPages = 2
  NShared = 1
  MaxSize = 1
  Size <- UnitSize
  Budgets = {1, 2}
  SafeRam = {}
  v1 = v1
  Val = {v1}
  Garbage = Garbage
  Torn = Torn
  Absent = Absent
  Arena = FALSE
  Faults = FALSE
  Transactions <- MCTransactions
  TxBytes <- MCTxBytes
  MaxTxBytes = 48
  PageSizes <- MCPageSizes
SPECIFICATION StorageSpec
INVARIANTS
  TypeOK
  UsedCoversResident
  AmpleIsSafe
  Findable
  PagesFit
CHECK_DEADLOCK FALSE
