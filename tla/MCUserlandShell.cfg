SPECIFICATION USpec
CONSTANTS
  MaxPid = 4
  MaxBorn = 5
  Null = Null
INVARIANTS
  ShellExitedMeansExited
