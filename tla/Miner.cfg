CONSTANTS
  Threads = {w1, w2}
  Items <- MCItems
  Tids <- MCTids
  MaxUtility = 2
  MinedDatabases <- MCDatabases
  Modes <- MCModes
  EucsRoom = 3
SPECIFICATION FairSpec
INVARIANTS
  TypeOK
  Exact
  TopKExact
  ListsExact
  NothingMissed
PROPERTIES
  Ends
CHECK_DEADLOCK FALSE
