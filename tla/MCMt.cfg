SPECIFICATION FairSpec
CONSTANTS
  MaxPid = 3
  MaxBorn = 5
  Null = Null
INVARIANTS
  TypeOK
  WorkConserving
  OwnContext
  OwnAddressSpace
  WaiterStoppedInCall
PROPERTIES
  SavedFrameStable
  ImplementsSched
  RunnableRuns
