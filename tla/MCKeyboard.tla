----------------------------- MODULE MCKeyboard ------------------------------
(* The keyboard with a ring of three slots, for TLC. *)
EXTENDS Keyboard
=============================================================================
