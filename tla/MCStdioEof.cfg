SPECIFICATION Spec
CONSTANTS
  empty = empty
  text = text
  Inums <- MCInums
  Char <- MCChar
  InitialDisks <- MCDisks
  BLOCK_SIZE = 2
  BUFSIZ = 2
  NBits = 7
  NPointers = 3
  Newline = "nl"
  EOF = "EOF"
  MaxOpen = 2
  MaxPut = 2
INVARIANTS NeverSaid
