------------------------------ MODULE MCStdio ------------------------------
(***************************************************************************)
(* A disk of seven blocks behind block 0, with an empty file and one of      *)
(* three characters.                                                       *)
(***************************************************************************)
EXTENDS Stdio

CONSTANTS empty, text

MCChar == {"a", "nl"}
MCInums == {empty, text}

\* The file's blocks, and which blocks are in use.
Disk(bp, used) ==
  [inodes |-> [f \in MCInums |-> IF f = text THEN [size |-> 3, bp |-> bp]
                                 ELSE [size |-> 0, bp |-> [k \in DOMAIN bp |-> 0]]],
   blocks |-> [b \in Blocks |-> [o \in 0 .. BLOCK_SIZE - 1 |-> "a"]],
   bitmap |-> {u - 1 : u \in used}]

\* In front of the free blocks lies one reserved for lost+found.
MCDisks == {Disk((0 :> 3 @@ 1 :> 1 @@ 2 :> 0), {1, 2, 3, 4})}

\* The file was the last thing put on the disk.
FilledDisks == {Disk((0 :> 1 @@ 1 :> 2 @@ 2 :> 0), {1, 2})}
=============================================================================
