SPECIFICATION USpec
CONSTANTS
  MaxPid = 5
  MaxBorn = 6
  Null = Null
INVARIANTS
  ExitNeverReturns
  NoStrangersExit
  CommandDoneAtPrompt
