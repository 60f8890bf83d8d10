CONSTANTS
  NTasks = 3
  Longest = 2
  Count <- MCCount
  ThreadCounts = {1, 2}
  Capacity = 2
  Faults = {"create", "write", "flush", "task"}
SPECIFICATION FairSpec
INVARIANTS
  PipelineInv
  NothingLost
  InTaskOrder
PROPERTIES
  Ends
CHECK_DEADLOCK FALSE
