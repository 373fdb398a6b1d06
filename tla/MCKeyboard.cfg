SPECIFICATION FairSpec
CONSTANTS
  Readers = {r1}
  KBD_BUFSIZ = 2
  BufLen = 2
  MaxTyped = 5
  MaxSlot = 2
INVARIANTS
  TypeOK
  NoStuckModifier
PROPERTIES
  OnlyWholeLapsLost
  LineEndsRead
  ReadsLines
