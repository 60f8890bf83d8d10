CONSTANTS
  NTasks = 1
  Longest = 1
  Count <- MCCount
  ThreadCounts = {2}
  Capacity = 1
  Faults = {"write"}
SPECIFICATION Spec
INVARIANTS
  WriteErrorsSurface
CHECK_DEADLOCK FALSE
