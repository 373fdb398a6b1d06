---------------------------- MODULE AddressSpaces ----------------------------
(***************************************************************************)
(* What the paging of the kernel promises to programs: every process has a *)
(* memory of its own, fork gives the child a copy of its parent's, and     *)
(* nobody else's stores, forks, execs or exits show in it.  Pages have no  *)
(* frames here and memory is not shared by construction.                   *)
(***************************************************************************)
CONSTANTS
  Pid,
  CodePage,  \* the pages programs are linked at
  Value,
  Null

VARIABLES
  space,    \* the memory of each process: what its mapped pages hold, or Null
  running   \* the process on the CPU

vars == <<space, running>>

(* Between two states the pages in kept hold what they held, and no other  *)
(* process notices anything.                                               *)
Keeps(kept) ==
  /\ \A x \in kept : x \in DOMAIN space'[running] /\ space'[running][x] = space[running][x]
  /\ \A p \in Pid \ {running} : space'[p] = space[p]

Init ==
  /\ running \in Pid
  /\ space[running] # Null
  /\ \A p \in Pid \ {running} : space[p] = Null

(* A store changes one page of one process. *)
Store ==
  /\ \E x \in DOMAIN space[running], v \in Value :
       space' = [space EXCEPT ![running][x] = v]
  /\ UNCHANGED running

(* brk: pages come, with anything in them, or go; what stays is untouched. *)
Grow ==
  /\ space'[running] # Null
  /\ DOMAIN space[running] \subseteq DOMAIN space'[running]
  /\ Keeps(DOMAIN space[running])
  /\ UNCHANGED running

Shrink ==
  /\ space'[running] # Null
  /\ DOMAIN space'[running] \subseteq DOMAIN space[running]
  /\ Keeps(DOMAIN space'[running])
  /\ UNCHANGED running

(* execve: of the pages programs are linked at some are replaced or lost. *)
Exec ==
  /\ space'[running] # Null
  /\ DOMAIN space'[running] \subseteq DOMAIN space[running] \cup CodePage
  /\ Keeps(DOMAIN space[running] \ CodePage)
  /\ UNCHANGED running

(* A copy of the whole memory, and not the parent runs next. *)
Fork ==
  \E p \in Pid :
    /\ space[p] = Null
    /\ space' = [space EXCEPT ![p] = space[running]]
    /\ running' \in {q \in Pid \ {running} : space'[q] # Null}

Exit ==
  /\ space' = [space EXCEPT ![running] = Null]
  /\ running' \in {q \in Pid : space'[q] # Null}

Switch ==
  /\ running' \in {q \in Pid : space[q] # Null}
  /\ UNCHANGED space

Next == Store \/ Grow \/ Shrink \/ Exec \/ Fork \/ Exit \/ Switch

Spec == Init /\ [][Next]_vars

=============================================================================
