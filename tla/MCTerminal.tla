----------------------------- MODULE MCTerminal ------------------------------
(* A terminal of two rows of two characters, for TLC. *)
EXTENDS Terminal

(* A letter, a digit, newline and backspace, and the start of an escape *)
(* sequence that the digit is a parameter of and the letter ends.       *)
TextBytes == {SmallM, 49, NL, BS, 155}
=============================================================================
