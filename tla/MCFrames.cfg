CONSTANTS
  MaxPid = 3
  NFrames = 8
  MaxSlot = 2
  PAGE = 3
  StackPages = 1
  HeapPages = 0
  CodePages = 1
  Value = {v1, v2}
  MaxStrays = 1
  HeapFrames = 7
  StrayFrames = 6
  Null = Null
SYMMETRY Symmetry
CONSTRAINT Bounded
SPECIFICATION Spec
INVARIANTS FTypeOK OneOwner MappedMarked HeapMapped
PROPERTIES ImplementsAddressSpaces ForkLeavesParent
