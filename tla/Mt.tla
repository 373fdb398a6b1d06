--------------------------------- MODULE Mt ---------------------------------
(***************************************************************************)
(* The process table and the scheduler of the kernel: src/mt.c, the system *)
(* calls of src/syscall.c that create, end, suspend or replace a process,  *)
(* and the timer interrupt that preempts them (src/timer.c).               *)
(*                                                                         *)
(* There is one CPU.  Gates clear IF, so a handler runs to its end unless  *)
(* it opens a window itself: devfs_read executes STI while it waits for    *)
(* the keyboard, and every disk read of execve reloads the IDT with        *)
(* interrupts on.  A handler with no window is one action; read and execve *)
(* are two, and the timer may strike in between.                           *)
(*                                                                         *)
(* Every process gets an incarnation number when it is created.  The code  *)
(* has no such number: a frame, a page table or a stack is told apart by   *)
(* its address, and the incarnation stands for that address.               *)
(***************************************************************************)
EXTENDS Integers

CONSTANTS
  MaxPid,    \* slots of ptab in use: 65535 in the code
  MaxBorn,   \* bound on the number of processes ever created
  Null       \* the null pointer

ASSUME MaxPidAssumption == MaxPid \in Nat \ {0}
ASSUME MaxBornAssumption == MaxBorn \in Nat \ {0}

Pid == 1 .. MaxPid
Incarnation == 1 .. MaxBorn

(* The page-directory entries a process owns: its stack and heap (48), its *)
(* code (32), and the window fork copies pages through (12).               *)
PDI == {"stack", "code", "temp"}

VARIABLES
  ptab,        \* the process table, slot 0 (the boot context) left out
  cur_ctx,     \* the slot whose registers are on the CPU; 0 at boot
  mt_enabled,  \* 1 until the first switch has loaded a process, 2 afterwards
  cpu,         \* the registers on the CPU
  esp0,        \* whose detach_stack the TSS names; 0 for the boot stack
  pagedir,     \* whose page table each directory entry points at; 0 for none
  born         \* processes created so far

vars == <<ptab, cur_ctx, mt_enabled, cpu, esp0, pagedir, born>>

(***************************************************************************)
(* A register frame.  own: whose program these registers belong to.        *)
(* at: where the program is: in user mode, stopped at a system call, or    *)
(* inside the kernel's read or execve.  ecx: the pid clear_wait reported,  *)
(* 0 for a value of the program's own (status is the constant 0x0100).     *)
(***************************************************************************)
Frame == [own : 0 .. MaxBorn, at : {"user", "sys", "read", "exec"}, ecx : 0 .. MaxPid]

Process == [inc : Incarnation, r : Frame, wait : BOOLEAN, ppid : 0 .. MaxPid,
            pt : SUBSET PDI]

ASSUME NullAssumption == Null \notin Process

Runnable(tab) == {p \in Pid : tab[p] # Null /\ ~tab[p].wait}

(* Definitions named Bad... are wrong versions of the one they precede, as *)
(* a slip in the code would make it.  Nothing uses them: put in place of   *)
(* the right one, each makes some property below fail.                     *)

BadResumeInCall(r) == r

(* memcpy into r, then iret: a program stopped at a system call goes on    *)
(* behind its INT instruction, in user mode.                               *)
Resume(r) == [r EXCEPT !.at = IF @ = "sys" THEN "user" ELSE @]

(* swap_page_table and update_page_table register every table of the new   *)
(* process and drop none of the old one.                                   *)
Install(dir, proc) == [d \in PDI |-> IF d \in proc.pt THEN proc.inc ELSE dir[d]]

(* The frame is saved once a process runs, unless its slot is gone. *)
Save(tab, r) ==
  IF mt_enabled > 1 /\ tab[cur_ctx] # Null THEN [tab EXCEPT ![cur_ctx].r = r] ELSE tab

(* Every scan starts at slot 1 again. *)
BadNextLowest(tab, i) == i \in Runnable(tab) /\ \A q \in Runnable(tab) : i <= q

(* The two loops: the lowest runnable slot above cur_ctx, or else the      *)
(* lowest of all, cur_ctx itself included.                                 *)
IsNext(tab, i) ==
  /\ i \in Runnable(tab)
  /\ \/ /\ i > cur_ctx
        /\ \A q \in Runnable(tab) : q > cur_ctx => i <= q
     \/ \A q \in Runnable(tab) : q <= cur_ctx /\ i <= q

(* The kernel stack is not set. *)
BadSwitchKeepsStack(tab, r, dir) ==
  LET saved == Save(tab, r) IN
  /\ ptab' = saved
  /\ \E i \in Pid :
       /\ IsNext(saved, i)
       /\ pagedir' = IF i # cur_ctx THEN Install(dir, saved[i]) ELSE dir
       /\ cpu' = Resume(saved[i].r)
       /\ cur_ctx' = i
       /\ mt_enabled' = 2
       /\ UNCHANGED esp0

(* switch_ctx(r) on a table and a directory the handler has edited.  With  *)
(* nobody to run it returns and leaves the caller's registers in place.    *)
SwitchCtx(tab, r, dir) ==
  LET saved == Save(tab, r) IN
  /\ ptab' = saved
  /\ \/ /\ Runnable(saved) = {}
        /\ cpu' = Resume(r)
        /\ pagedir' = dir
        /\ UNCHANGED <<cur_ctx, esp0, mt_enabled>>
     \/ \E i \in Pid :
          /\ IsNext(saved, i)
          /\ pagedir' = IF i # cur_ctx THEN Install(dir, saved[i]) ELSE dir
          /\ cpu' = Resume(saved[i].r)
          /\ esp0' = saved[i].inc
          /\ cur_ctx' = i
          /\ mt_enabled' = 2

(***************************************************************************)
(* enable_mt is about to raise the first, fake, timer interrupt.  Process  *)
(* 1 is init, built by kernel_main: loading its code has registered its    *)
(* code table, its stack table waits for the first switch.                 *)
(***************************************************************************)
InitProcess ==
  [inc |-> 1, r |-> [own |-> 1, at |-> "user", ecx |-> 0], wait |-> FALSE,
   ppid |-> 0, pt |-> {"stack", "code"}]

Init ==
  /\ ptab = [p \in Pid |-> IF p = 1 THEN InitProcess ELSE Null]
  /\ cur_ctx = 0
  /\ mt_enabled = 1
  /\ cpu = [own |-> 0, at |-> "user", ecx |-> 0]
  /\ esp0 = 0
  /\ pagedir = [d \in PDI |-> IF d = "code" THEN 1 ELSE 0]
  /\ born = 1

(***************************************************************************)
(* timer_intr.  It strikes in user mode and in the windows of read and     *)
(* execve.  The replay of a lost tick by check_pic_reset, after a system   *)
(* call and before its IRET, has the effect of a Tick right behind it.     *)
(***************************************************************************)
Tick ==
  /\ SwitchCtx(ptab, cpu, pagedir)
  /\ UNCHANGED born

(* A process that still has its slot is running its own code.  A process   *)
(* that exited with nobody to switch to has none: what its next system     *)
(* call does, through the null slot, is left out.                          *)
InUserMode ==
  /\ cur_ctx # 0
  /\ ptab[cur_ctx] # Null
  /\ cpu.at = "user"

(* The registers INT 0x80 pushes. *)
Trap == [own |-> cpu.own, at |-> "sys", ecx |-> 0]

(* new_process takes the lowest free slot.  The code scans past the end of *)
(* a full table; here a full table stops fork.                             *)
FirstFree(p) == p \in Pid /\ ptab[p] = Null /\ \A q \in Pid : q < p => ptab[q] # Null

(* fork: the child gets a copy of the frame and of every page, and since   *)
(* the copying goes through the child's own tables, they are left in the   *)
(* page directory while the parent still runs.                             *)
Child(parent) ==
  [inc |-> born + 1, r |-> [Trap EXCEPT !.own = born + 1], wait |-> FALSE,
   ppid |-> parent, pt |-> ptab[parent].pt \cup {"stack", "temp"}]

(* The parent goes on, and the child waits for the next tick. *)
BadForkNoSwitch ==
  /\ InUserMode
  /\ born < MaxBorn
  /\ born' = born + 1
  /\ \E pid \in Pid :
       /\ FirstFree(pid)
       /\ LET child == Child(cur_ctx)
          IN  /\ ptab' = [ptab EXCEPT ![pid] = child]
              /\ pagedir' = Install(pagedir, child)
  /\ UNCHANGED <<cpu, cur_ctx, esp0, mt_enabled>>

SysFork ==
  /\ InUserMode
  /\ born < MaxBorn
  /\ born' = born + 1
  /\ \E pid \in Pid :
       /\ FirstFree(pid)
       /\ LET child == Child(cur_ctx)
          IN  SwitchCtx([ptab EXCEPT ![pid] = child], Trap, Install(pagedir, child))

(* The process is marked, and goes on until the next tick. *)
BadWaitpidNoSwitch ==
  /\ InUserMode
  /\ ptab' = [ptab EXCEPT ![cur_ctx].wait = TRUE]
  /\ cpu' = Resume(Trap)
  /\ UNCHANGED <<cur_ctx, esp0, mt_enabled, pagedir, born>>

(* waitpid(-1): the flag is set whether or not a child is left to wait for. *)
SysWaitpid ==
  /\ InUserMode
  /\ SwitchCtx([ptab EXCEPT ![cur_ctx].wait = TRUE], Trap, pagedir)
  /\ UNCHANGED born

(* ECX is written whether the parent waits or not. *)
BadClearWaitAlwaysReports(tab, proc) ==
  LET pp == tab[proc].ppid IN
  IF pp = 0 \/ tab[pp] = Null
  THEN tab
  ELSE [tab EXCEPT ![pp].wait = FALSE, ![pp].r.ecx = proc]

(* The parent is told, and left suspended. *)
BadClearWaitLeavesFlag(tab, proc) ==
  LET pp == tab[proc].ppid IN
  IF pp = 0 \/ tab[pp] = Null
  THEN tab
  ELSE [tab EXCEPT ![pp].r.ecx = IF tab[pp].wait THEN proc ELSE @]

(* clear_wait(proc): whoever holds the parent's slot is woken, and told    *)
(* the pid through its saved ECX if it was waiting.                        *)
ClearWait(tab, proc) ==
  LET pp == tab[proc].ppid IN
  IF pp = 0 \/ tab[pp] = Null
  THEN tab
  ELSE [tab EXCEPT ![pp].wait = FALSE,
                   ![pp].r.ecx = IF tab[pp].wait THEN proc ELSE @]

(* proc_exit.  The slot is cleared before the switch; the page directory   *)
(* goes on naming the freed tables until the next process covers them.     *)
SysExit ==
  /\ InUserMode
  /\ SwitchCtx([ClearWait(ptab, cur_ctx) EXCEPT ![cur_ctx] = Null], Trap, pagedir)
  /\ UNCHANGED born

(* read and execve enter the kernel and open their window. *)
SysEnter(call) ==
  /\ InUserMode
  /\ cpu' = [Trap EXCEPT !.at = call]
  /\ UNCHANGED <<ptab, cur_ctx, mt_enabled, esp0, pagedir, born>>

(* read, or an execve whose file is not found, returns. *)
SysReturn ==
  /\ cpu.at \in {"read", "exec"}
  /\ cpu' = [cpu EXCEPT !.at = "user"]
  /\ UNCHANGED <<ptab, cur_ctx, mt_enabled, esp0, pagedir, born>>

(* The last block is in memory: execve maps the code pages, copies them in *)
(* through the page directory and returns to the new entry point.          *)
SysExecLoad ==
  /\ cpu.at = "exec"
  /\ cpu' = [cpu EXCEPT !.at = "user"]
  /\ ptab' = [ptab EXCEPT ![cur_ctx].pt = @ \cup {"code"}]
  /\ pagedir' = [pagedir EXCEPT !["code"] = ptab[cur_ctx].inc]
  /\ UNCHANGED <<cur_ctx, mt_enabled, esp0, born>>

Next ==
  \/ Tick
  \/ SysFork
  \/ SysWaitpid
  \/ SysExit
  \/ \E call \in {"read", "exec"} : SysEnter(call)
  \/ SysReturn
  \/ SysExecLoad

Spec == Init /\ [][Next]_vars

(* The PIT interrupts 100 times a second, and every path of the kernel     *)
(* comes back to code that runs with IF set.  Nothing else is fair.        *)
FairSpec == Spec /\ WF_vars(Tick)

-----------------------------------------------------------------------------
TypeOK ==
  /\ ptab \in [Pid -> Process \cup {Null}]
  /\ cur_ctx \in 0 .. MaxPid
  /\ mt_enabled \in {1, 2}
  /\ cpu \in Frame /\ cpu.at # "sys"
  /\ esp0 \in 0 .. MaxBorn
  /\ pagedir \in [PDI -> 0 .. MaxBorn]
  /\ born \in Incarnation

Alive == cur_ctx # 0 /\ ptab[cur_ctx] # Null

(* A process that waits, or that has exited, keeps the CPU only when there *)
(* is nobody else to give it to: the return of switch_ctx that changes     *)
(* nothing never hides a runnable process.                                 *)
WorkConserving ==
  mt_enabled = 2 /\ Runnable(ptab) # {} => cur_ctx \in Runnable(ptab)

(* Registers never migrate.  The frame saved in a slot belongs to the      *)
(* process of that slot, and what runs on the CPU is the program of        *)
(* cur_ctx, trapping onto its own detach stack, also after exits, reuse of *)
(* slots and preemption inside the kernel.                                 *)
OwnContext ==
  /\ \A p \in Pid : ptab[p] # Null => ptab[p].r.own = ptab[p].inc
  /\ Alive => cpu.own = ptab[cur_ctx].inc /\ esp0 = ptab[cur_ctx].inc

(* The running process sees its own memory: the directory entry of every   *)
(* table it has names that table.  switch_ctx skips the reload when it     *)
(* picks the process it came from, and fork leaves the child's tables      *)
(* behind, so this rests on fork always being followed by a real switch.   *)
OwnAddressSpace ==
  Alive => \A d \in ptab[cur_ctx].pt : pagedir[d] = ptab[cur_ctx].inc

(* A process marked as waiting that is off the CPU stopped in a system     *)
(* call: clear_wait, which writes ECX into the saved frame of whoever is   *)
(* marked, never damages the registers of a preempted program.             *)
WaiterStoppedInCall ==
  \A p \in Pid : ptab[p] # Null /\ ptab[p].wait /\ p # cur_ctx => ptab[p].r.at = "sys"

(* The first switch loads a process and none ever goes back to slot 0; a   *)
(* program inside the kernel's read or execve still has its slot.          *)
Bootstrapped ==
  /\ mt_enabled = 2 <=> cur_ctx # 0
  /\ cpu.at \in {"read", "exec"} => Alive

(* The inductive invariant behind the four properties above. *)
IInv ==
  /\ TypeOK
  /\ Bootstrapped
  /\ WorkConserving
  /\ OwnContext
  /\ OwnAddressSpace
  /\ WaiterStoppedInCall

(* While a runnable process is off the CPU nobody touches its registers:   *)
(* what it was preempted with, or what a first exited child reported, is   *)
(* what it resumes with, whatever exits, forks or ticks come before.       *)
SavedFramesKept ==
  \A p \in Runnable(ptab) :
     p # cur_ctx => ptab'[p] # Null /\ ptab'[p].r = ptab[p].r

SavedFrameStable == [][SavedFramesKept]_vars

(* Round robin starves nobody: a runnable process gets the CPU, however    *)
(* the others fork, wait, exit or sit in a system call.                    *)
RunnableRuns == \A p \in Pid : p \in Runnable(ptab) ~> cur_ctx = p

(* What the scheduler promises, with the table, the registers and the      *)
(* round-robin order left out: see ProcSched.                              *)
Waiting(tab) == {p \in Pid : tab[p] # Null /\ tab[p].wait}

Running == IF Alive THEN cur_ctx ELSE 0

Sched == INSTANCE ProcSched WITH
  ready <- Runnable(ptab), blocked <- Waiting(ptab), running <- Running

ImplementsSched == Sched!Spec

=============================================================================
