------------------------------ MODULE MCKMalloc ------------------------------
(* The heap with a header of six words and pages of eight, for TLC. *)
EXTENDS KMalloc
=============================================================================
