----------------------------- MODULE ProcSched ------------------------------
(***************************************************************************)
(* What the scheduler of src/mt.c promises, and nothing about how: a       *)
(* process is ready or blocked; the running process alone creates, blocks  *)
(* or ends; a process leaves blocked only when another one ends; and       *)
(* every such step hands the CPU to a ready process if there is one.  A    *)
(* fork always hands it over to another process.                           *)
(***************************************************************************)
EXTENDS Integers

CONSTANT Pid

VARIABLES
  ready,     \* processes that can run
  blocked,   \* processes that wait for a child
  running    \* whose program is on the CPU: 0 for none that still exists

sched == <<ready, blocked, running>>

Init ==
  /\ \E p \in Pid : ready = {p}
  /\ blocked = {}
  /\ running = 0

(* Only with nobody ready may a blocked process stay on the CPU, or the    *)
(* remains of one that has ended.                                          *)
Dispatch(rdy, blk, candidates) ==
  /\ ready' = rdy
  /\ blocked' = blk
  /\ IF rdy # {}
     THEN running' \in rdy \cap candidates
     ELSE running' = IF running \in blk THEN running ELSE 0

Preempt == Dispatch(ready, blocked, Pid)

Spawn ==
  /\ running # 0
  /\ \E p \in Pid \ (ready \cup blocked) : Dispatch(ready \cup {p}, blocked, Pid \ {running})

Block ==
  /\ running # 0
  /\ Dispatch(ready \ {running}, blocked \cup {running}, Pid)

End ==
  /\ running # 0
  /\ \E woken \in SUBSET (blocked \ {running}) :
       /\ \A p, q \in woken : p = q
       /\ Dispatch((ready \ {running}) \cup woken, blocked \ ({running} \cup woken), Pid)

Next == Preempt \/ Spawn \/ Block \/ End

Spec == Init /\ [][Next]_sched
=============================================================================
