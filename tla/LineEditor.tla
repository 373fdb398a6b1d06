----------------------------- MODULE LineEditor ------------------------------
(***************************************************************************)
(* What read(2) on /dev/stdin promises each of its callers: keys build up  *)
(* a line, a backspace takes the last one away, and the call returns with  *)
(* the first terminator, or when the line fills the caller's buffer.       *)
(***************************************************************************)
EXTENDS Integers, SequencesExt

CONSTANTS
  Readers,      \* the processes that read
  Room,         \* the size of the caller's buffer
  Plain,        \* ordinary keys
  Terminators   \* newline and end of file

VARIABLES
  reading,   \* the readers inside a call
  line       \* what each has so far, or was given last

Init ==
  /\ reading = {}
  /\ line = [r \in Readers |-> <<>>]

Begin(r) ==
  /\ r \notin reading
  /\ reading' = reading \cup {r}
  /\ line' = [line EXCEPT ![r] = <<>>]

Rub(r) ==
  /\ r \in reading
  /\ line' = [line EXCEPT ![r] = IF @ = <<>> THEN @ ELSE Front(@)]
  /\ UNCHANGED reading

Key(r, k) ==
  /\ r \in reading
  /\ line' = [line EXCEPT ![r] = Append(@, k)]
  /\ reading' = IF k \in Terminators \/ Len(line[r]) + 1 = Room
                THEN reading \ {r}
                ELSE reading

Next ==
  \E r \in Readers : \/ Begin(r)
                     \/ Rub(r)
                     \/ \E k \in Plain \cup Terminators : Key(r, k)

Spec == Init /\ [][Next]_<<reading, line>>
=============================================================================
