------------------------------ MODULE MCFrames ------------------------------
EXTENDS Frames, TLC

CONSTANTS
  MaxStrays,    \* brks that are not tame
  HeapFrames,   \* frames in use once a break has moved,
  StrayFrames   \* and once a brk was not tame

Symmetry == Permutations(Value)

Bounded ==
  /\ strays <= MaxStrays
  /\ (\E p \in Alive : brk[p] # FirstBreak) => marked \subseteq 0 .. HeapFrames
  /\ strays > 0 => marked \subseteq 0 .. StrayFrames
=============================================================================
