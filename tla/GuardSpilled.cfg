CONSTANTS
  Threads = {1}
  NoBlock = 0
  NBlocks = 3
  Blocks <- MCBlocks
  Owner <- MCOwner
  MaxSize = 2
  Size <- MCSize
  Budget = 3
  FreesSpilled = TRUE
SPECIFICATION Spec
INVARIANTS
  GrantsFit
