CONSTANTS
  Threads = {w1}
  Items <- MCItems
  Tids <- MCTids
  MaxUtility = 2
  MinedDatabases <- MCDatabases
  Modes <- FhmModes
  EucsRoom = 1
SPECIFICATION Spec
INVARIANTS
  Exact
CHECK_DEADLOCK FALSE
