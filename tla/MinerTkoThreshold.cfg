CONSTANTS
  Threads = {w1}
  Items <- MCItems
  Tids <- MCTids
  MaxUtility = 2
  MinedDatabases <- MCDatabases
  Modes <- ThresholdModes
  EucsRoom = 3
SPECIFICATION Spec
INVARIANTS
  Exact
CHECK_DEADLOCK FALSE
