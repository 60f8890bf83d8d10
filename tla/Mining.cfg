CONSTANTS
  Threads = {w1, w2}
  Items <- MCItems
  Tids <- MCTids
  MaxUtility = 2
  MinedDatabases <- MCDatabases
  Modes <- MCModes
  PoolFails = TRUE
  OffsetLimit = 4
  ListNodes = 2
  PageNodes = 2
SPECIFICATION FairSpec
INVARIANTS
  TypeOK
  LedgerClosed
  ProjectionsExact
  LedgerExact
  ListsRight
  TreesExact
  ArenaTight
  CandidatesOnce
PROPERTIES
  PromiseKept
  Ends
