SPECIFICATION ProcSpec
CONSTANTS
  HDR = 6
  MEM = 3
  Sizes = {1, 8}
  ALIGN = 8
  MaxBlocks = 5
INVARIANTS
  NothingVeryBad
CHECK_DEADLOCK FALSE
