-------------------------------- MODULE Paper --------------------------------
(***************************************************************************)
(* What a terminal promises to those who print on it: the lines that are   *)
(* full, the line that is being written, each mark in the colours it was   *)
(* printed with, and nothing else.                                         *)
(***************************************************************************)
EXTENDS Naturals, Sequences

CONSTANTS
  Width, Height,
  Chars,   \* what can be printed
  Blank    \* the one that leaves no mark

VARIABLES
  lines,   \* the full lines that are still on the screen, oldest first
  line,    \* what stands before the cursor
  pen      \* the colours to print with

vars == <<lines, line, pen>>

Init == lines = <<>> /\ line = <<>>

NoMark == << >>

Mark(ch) == IF ch = Blank THEN NoMark ELSE <<ch, pen>>

(* There is always room for the line being written. *)
Fed(full) ==
  IF Len(lines) + 1 < Height THEN Append(lines, full) ELSE Tail(Append(lines, full))

Put(ch) ==
  /\ IF Len(line) + 1 < Width
     THEN line' = Append(line, Mark(ch)) /\ UNCHANGED lines
     ELSE line' = <<>> /\ lines' = Fed(Append(line, Mark(ch)))
  /\ UNCHANGED pen

Padded == [k \in 1 .. Width |-> IF k <= Len(line) THEN line[k] ELSE NoMark]

NewLine == line' = <<>> /\ lines' = Fed(Padded) /\ UNCHANGED pen

Erase ==
  /\ line # <<>>
  /\ line' = SubSeq(line, 1, Len(line) - 1)
  /\ UNCHANGED <<lines, pen>>

Clear == lines' = <<>> /\ line' = <<>> /\ UNCHANGED pen

(* What is printed keeps its colours. *)
Recolour == UNCHANGED <<lines, line>>

Next == (\E ch \in Chars : Put(ch)) \/ NewLine \/ Erase \/ Clear \/ Recolour

Spec == Init /\ [][Next]_vars
=============================================================================
