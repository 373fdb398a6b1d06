-------------------------------- MODULE MCMt --------------------------------
(* Instances of Mt for TLC. *)
EXTENDS Mt
=============================================================================
