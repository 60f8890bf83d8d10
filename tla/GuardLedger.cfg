CONSTANTS
  Threads = {1, 2, 3}
  NoBlock = 0
  NBlocks = 6
  Blocks <- MCBlocks
  Owner <- MCOwner
  MaxSize = 2
  Size <- MCSize
  Budget = 3
  FreesSpilled = FALSE
  Items <- MCItems
  Tids <- MCTids
  MaxUtility = 2
  Streams <- MCStreams
  Thresholds = {3}
  WindowSize = 4
  PairRoom = 2
SPECIFICATION LedgerSpec
INVARIANTS
  GuardInv
  GrantsFit
  UsedCoversHeld
  UsedIsHeld
  StretchesMined
  
