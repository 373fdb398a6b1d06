SPECIFICATION Spec
CONSTANTS
  ww = 2
  wh = 2
  Bytes <- TextBytes
  NParams = 1
  MaxParam = 1
INVARIANTS
  TypeOK
  RedrawShowsPage
PROPERTIES
  KeepsText
