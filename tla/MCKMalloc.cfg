SPECIFICATION Spec
CONSTANTS
  HDR = 6
  MEM = 3
  Sizes = {1, 7, 8}
  ALIGN = 8
  MaxBlocks = 5
INVARIANTS
  KTypeOK
  InOrder
  LiveApart
PROPERTIES
  FreesItsOwn
  FreshShortOnlyIfTooClose
CHECK_DEADLOCK FALSE
