--------------------------- MODULE UserlandProofs ---------------------------
(***************************************************************************)
(* Proofs about Userland, for every number of slots and of processes:      *)
(* init, the shells and their commands on the kernel of Mt.                *)
(***************************************************************************)
EXTENDS Userland, MtProofs

InitProgram == {"spawn", "await_shell", "report"}
ShellProgram == {"load", "prompt", "choose", "await_command", "end"}
CommandProgram == {"command", "end"}

UTypes ==
  /\ pc \in [Incarnation -> InitProgram \cup ShellProgram \cup CommandProgram]
  /\ born_by \in [Incarnation -> 0 .. MaxBorn] /\ born_by[1] = 0

(***************************************************************************)
(* Who is who in a table tab, with the programs at label and the ancestry  *)
(* in parent.  A shell is a child of init.                                 *)
(***************************************************************************)
IsShell(tab, label, parent, p) ==
  /\ tab[p].ppid = 1
  /\ parent[tab[p].inc] = 1
  /\ label[tab[p].inc] \in ShellProgram

(* A shell that has started a command comes to its next prompt only when   *)
(* it is woken.                                                            *)
Awaits(tab, label, q) ==
  \/ label[tab[q].inc] = "await_command"
  \/ label[tab[q].inc] = "prompt" /\ tab[q].wait

(* A command can run, and the shell that started it is there and awaits it. *)
IsCommand(tab, label, parent, p) ==
  LET q == tab[p].ppid IN
  /\ label[tab[p].inc] \in CommandProgram
  /\ ~tab[p].wait
  /\ q \in Pid \ {1} /\ tab[q] # Null
  /\ IsShell(tab, label, parent, q)
  /\ parent[tab[p].inc] = tab[q].inc
  /\ Awaits(tab, label, q)

(* Init is in slot 1 for ever; incarnations are unique; all others are     *)
(* shells or commands, and a shell has one command at a time.              *)
Families(tab, label, parent, n) ==
  /\ tab[1] # Null /\ tab[1].inc = 1 /\ tab[1].ppid = 0 /\ label[1] \in InitProgram
  /\ \A p \in Pid : tab[p] # Null => tab[p].inc <= n
  /\ \A p, q \in Pid : tab[p] # Null /\ tab[q] # Null /\ tab[p].inc = tab[q].inc => p = q
  /\ \A p \in Pid \ {1} : tab[p] # Null =>
        IsShell(tab, label, parent, p) \/ IsCommand(tab, label, parent, p)
  /\ \A p, q \in Pid \ {1} :
        tab[p] # Null /\ tab[q] # Null /\ tab[p].ppid # 1 /\ tab[q].ppid = tab[p].ppid => p = q

(* The shell of a command is at its next prompt only off the CPU. *)
ShellOff ==
  \A p \in Pid \ {1} :
    ptab[p] # Null /\ ptab[p].ppid # 1 /\ pc[ptab[ptab[p].ppid].inc] = "prompt" =>
      ptab[p].ppid # cur_ctx

(* The inductive invariant. *)
UInv ==
  /\ IInv
  /\ UTypes
  /\ Families(ptab, pc, born_by, born)
  /\ ShellOff
  /\ ExitNeverReturns

-----------------------------------------------------------------------------
(* What a table means to families: who holds a slot, and who waits. *)
SameFamily(tab, tab2) ==
  \A p \in Pid : /\ tab2[p] = Null <=> tab[p] = Null
                 /\ tab[p] # Null => /\ tab2[p].inc = tab[p].inc
                                     /\ tab2[p].wait = tab[p].wait
                                     /\ tab2[p].ppid = tab[p].ppid

LEMMA OneIsPid == 1 \in Pid /\ 0 \notin Pid
BY MaxPidAssumption DEF Pid

(* Frames and page tables are no part of a family. *)
LEMMA FamiliesCarryOver ==
  ASSUME NEW tab, NEW tab2, NEW label, NEW parent, NEW n,
         SameFamily(tab, tab2), Families(tab, label, parent, n)
  PROVE  Families(tab2, label, parent, n)
<1>1. tab2[1] # Null /\ tab2[1].inc = 1 /\ tab2[1].ppid = 0 /\ label[1] \in InitProgram
  BY OneIsPid DEF SameFamily, Families
<1>2. \A p \in Pid : tab2[p] # Null => tab2[p].inc <= n
  BY DEF SameFamily, Families
<1>3. \A p, q \in Pid : tab2[p] # Null /\ tab2[q] # Null /\ tab2[p].inc = tab2[q].inc => p = q
  BY DEF SameFamily, Families
<1>4. ASSUME NEW p \in Pid \ {1}, tab2[p] # Null
      PROVE  IsShell(tab2, label, parent, p) \/ IsCommand(tab2, label, parent, p)
  <2>1. CASE IsShell(tab, label, parent, p)
    BY <1>4, <2>1 DEF SameFamily, IsShell
  <2>2. CASE IsCommand(tab, label, parent, p)
    BY <1>4, <2>2 DEF SameFamily, IsShell, IsCommand, Awaits
  <2> QED
    BY <1>4, <2>1, <2>2 DEF SameFamily, Families
<1>5. \A p, q \in Pid \ {1} :
        tab2[p] # Null /\ tab2[q] # Null /\ tab2[p].ppid # 1 /\ tab2[q].ppid = tab2[p].ppid => p = q
  BY DEF SameFamily, Families
<1> QED
  BY <1>1, <1>2, <1>3, <1>4, <1>5 DEF Families

(* switch_ctx, as families see it: nobody comes or goes, and the CPU goes  *)
(* to somebody who can run, or stays where it is when there is nobody.     *)
LEMMA SwitchShape ==
  ASSUME TypeOK, Bootstrapped,
         NEW tab \in [Pid -> Process \cup {Null}], NEW r \in Frame, NEW dir,
         SwitchCtx(tab, r, dir)
  PROVE  /\ SameFamily(tab, ptab')
         /\ cur_ctx' \in Runnable(tab) \/ (Runnable(tab) = {} /\ cur_ctx' = cur_ctx)
<1>1. ptab' = Save(tab, r)
  BY DEF SwitchCtx
<1>2. Runnable(Save(tab, r)) = Runnable(tab) /\ SameFamily(tab, Save(tab, r))
  BY SaveFacts DEF SameFamily
<1>3. cur_ctx' \in Runnable(Save(tab, r)) \/ (Runnable(Save(tab, r)) = {} /\ cur_ctx' = cur_ctx)
  BY DEF SwitchCtx, IsNext
<1> QED
  BY <1>1, <1>2, <1>3

(* A command is there only with a shell that awaits it. *)
LEMMA CommandFacts ==
  ASSUME NEW tab, NEW label, NEW parent, NEW n, Families(tab, label, parent, n),
         NEW p \in Pid \ {1}, tab[p] # Null, tab[p].ppid # 1
  PROVE  IsCommand(tab, label, parent, p) /\ p \in Runnable(tab)
BY DEF Families, IsShell, IsCommand, Runnable

(* A handler that leaves whole families to switch_ctx, and somebody to run *)
(* unless the caller keeps its slot, preserves all about the programs.     *)
LEMMA SwitchKeepsFamilies ==
  ASSUME TypeOK, Bootstrapped,
         NEW tab \in [Pid -> Process \cup {Null}], NEW r \in Frame, NEW dir,
         SwitchCtx(tab, r, dir),
         Families(tab, pc', born_by', born'),
         Runnable(tab) # {} \/ (cur_ctx # 0 => tab[cur_ctx] # Null)
  PROVE  Families(ptab', pc', born_by', born') /\ ShellOff' /\ ExitNeverReturns'
<1>1. /\ SameFamily(tab, ptab')
      /\ cur_ctx' \in Runnable(tab) \/ (Runnable(tab) = {} /\ cur_ctx' = cur_ctx)
  BY SwitchShape
<1>2. Families(ptab', pc', born_by', born')
  BY <1>1, FamiliesCarryOver
<1>3. ExitNeverReturns'
  <2>1. cur_ctx' # 0 => cur_ctx' \in Pid
    BY <1>1, MaxPidAssumption DEF Runnable, TypeOK, Pid
  <2> QED
    BY <1>1, <2>1 DEF ExitNeverReturns, SameFamily, Runnable
<1>4. ShellOff'
  <2> SUFFICES ASSUME NEW p \in Pid \ {1}, tab[p] # Null, tab[p].ppid # 1,
                      pc'[tab[tab[p].ppid].inc] = "prompt"
               PROVE  tab[p].ppid # cur_ctx'
    <3>1. ASSUME NEW p \in Pid \ {1}, ptab'[p] # Null, ptab'[p].ppid # 1
          PROVE  /\ tab[p] # Null /\ tab[p].ppid = ptab'[p].ppid
                 /\ ptab'[ptab'[p].ppid].inc = tab[tab[p].ppid].inc
      <4>1. tab[p] # Null /\ tab[p].ppid = ptab'[p].ppid
        BY <1>1, <3>1 DEF SameFamily
      <4>2. tab[p].ppid \in Pid /\ tab[tab[p].ppid] # Null
        BY <3>1, <4>1, CommandFacts DEF IsCommand
      <4> QED
        BY <1>1, <4>1, <4>2 DEF SameFamily
    <3> QED
      BY <3>1 DEF ShellOff
  <2>1. IsCommand(tab, pc', born_by', p) /\ p \in Runnable(tab)
    BY CommandFacts
  <2>2. tab[tab[p].ppid].wait
    BY <2>1 DEF IsCommand, Awaits
  <2> QED
    BY <1>1, <2>1, <2>2 DEF Runnable
<1> QED
  BY <1>2, <1>3, <1>4

-----------------------------------------------------------------------------
(* Every step of the programs is a step of the kernel, or none. *)
LEMMA ProgramsStep == [UNext]_uvars => [Next]_vars
BY DEF UNext, uvars, InitSpawns, InitWaits, InitReports, Execs, ShellReads, ShellExits,
       ShellSpawns, ShellWaits, Ends, UTick, ForkTo, Next

(* The program on the CPU, and where it is says what it is. *)
LEMMA SelfFacts ==
  ASSUME UInv, Alive
  PROVE  /\ cur_ctx \in Pid /\ ptab[cur_ctx] # Null /\ ptab[cur_ctx] \in Process
         /\ Self \in Incarnation /\ Self <= born /\ Self # born + 1
         /\ \A p \in Pid : ptab[p] # Null /\ ptab[p].inc = Self => p = cur_ctx
         /\ cur_ctx = 1 => Self = 1 /\ pc[Self] \in InitProgram
         /\ cur_ctx # 1 => \/ IsShell(ptab, pc, born_by, cur_ctx) /\ pc[Self] \in ShellProgram
                           \/ IsCommand(ptab, pc, born_by, cur_ctx) /\ pc[Self] \in CommandProgram
<1>1. cur_ctx \in Pid
  BY MaxPidAssumption DEF Alive, UInv, IInv, TypeOK, Pid
<1>2. ptab[cur_ctx] \in Process /\ ptab[cur_ctx] # Null
  BY <1>1 DEF Alive, UInv, IInv, TypeOK
<1>3. Self \in Incarnation /\ Self <= born
  BY <1>1, <1>2 DEF Self, Process, UInv, Families
<1>4. Self # born + 1
  BY <1>3 DEF UInv, IInv, TypeOK, Incarnation
<1>5. \A p \in Pid : ptab[p] # Null /\ ptab[p].inc = Self => p = cur_ctx
  BY <1>1, <1>2 DEF Self, UInv, Families
<1>6. cur_ctx = 1 => Self = 1 /\ pc[Self] \in InitProgram
  BY DEF Self, UInv, Families
<1>7. cur_ctx # 1 => \/ IsShell(ptab, pc, born_by, cur_ctx) /\ pc[Self] \in ShellProgram
                     \/ IsCommand(ptab, pc, born_by, cur_ctx) /\ pc[Self] \in CommandProgram
  BY <1>1, <1>2 DEF Self, UInv, Families, IsShell, IsCommand
<1> QED
  BY <1>1, <1>2, <1>3, <1>4, <1>5, <1>6, <1>7

(* Nobody has been started by the program on the CPU, or it is init. *)
Childless ==
  \A p \in Pid \ {1} : ptab[p] # Null /\ ptab[p].ppid # 1 => ptab[p].ppid # cur_ctx

(* A program that is not waiting for a command has none. *)
LEMMA NoCommandYet ==
  ASSUME UInv, Alive, pc[Self] # "await_command"
  PROVE  Childless
<1> SUFFICES ASSUME NEW p \in Pid \ {1}, ptab[p] # Null, ptab[p].ppid # 1, ptab[p].ppid = cur_ctx
             PROVE  FALSE
  BY DEF Childless
<1>1. IsCommand(ptab, pc, born_by, p)
  BY CommandFacts DEF UInv
<1>2. pc[Self] = "await_command" \/ pc[Self] = "prompt"
  BY <1>1 DEF IsCommand, Awaits, Self
<1> QED
  BY <1>1, <1>2 DEF UInv, ShellOff, Self

(* A program that moves from one label to another without a switch. *)
LEMMA MoveKeepsFamilies ==
  ASSUME UInv, Alive, Childless,
         SameFamily(ptab, ptab'), UNCHANGED <<cur_ctx, born, born_by>>,
         NEW l, pc' = [pc EXCEPT ![Self] = l],
         pc[Self] \in InitProgram => l \in InitProgram,
         pc[Self] \in ShellProgram => l \in ShellProgram,
         pc[Self] \in CommandProgram => l \in CommandProgram
  PROVE  UTypes' /\ Families(ptab', pc', born_by', born') /\ ShellOff' /\ ExitNeverReturns'
<1>1. UTypes'
  <2>1. l \in InitProgram \cup ShellProgram \cup CommandProgram
    BY SelfFacts
  <2> QED
    BY <2>1 DEF UTypes, UInv
<1>2. /\ pc'[Self] = l
      /\ \A p \in Pid : ptab[p] # Null /\ p # cur_ctx =>
            ptab[p].inc \in Incarnation /\ pc'[ptab[p].inc] = pc[ptab[p].inc]
  <2>1. pc \in [Incarnation -> InitProgram \cup ShellProgram \cup CommandProgram]
    BY DEF UInv, UTypes
  <2>2. \A p \in Pid : ptab[p] # Null => ptab[p].inc \in Incarnation
    BY DEF UInv, IInv, TypeOK, Process
  <2> QED
    BY <2>1, <2>2, SelfFacts
<1>3. ASSUME NEW p \in Pid \ {1}, ptab[p] # Null
      PROVE  IsShell(ptab, pc', born_by, p) \/ IsCommand(ptab, pc', born_by, p)
  <2>1. CASE p = cur_ctx
    <3>1. CASE IsShell(ptab, pc, born_by, cur_ctx) /\ pc[Self] \in ShellProgram
      BY <1>2, <2>1, <3>1 DEF IsShell, Self
    <3>2. CASE IsCommand(ptab, pc, born_by, cur_ctx) /\ pc[Self] \in CommandProgram
      <4>1. ptab[p].ppid # cur_ctx
        BY <1>3, <2>1, <3>2 DEF Childless, IsCommand
      <4> QED
        BY <1>2, <2>1, <3>2, <4>1 DEF IsCommand, IsShell, Awaits, Self
    <3> QED
      BY <2>1, <3>1, <3>2, SelfFacts
  <2>2. CASE p # cur_ctx /\ IsShell(ptab, pc, born_by, p)
    BY <1>2, <1>3, <2>2 DEF IsShell
  <2>3. CASE p # cur_ctx /\ IsCommand(ptab, pc, born_by, p)
    <3>1. ptab[p].ppid # cur_ctx
      BY <1>3, <2>3 DEF Childless, IsCommand
    <3> QED
      BY <1>2, <1>3, <2>3, <3>1 DEF IsCommand, IsShell, Awaits
  <2> QED
    BY <1>3, <2>1, <2>2, <2>3 DEF UInv, Families
<1>4. pc'[1] \in InitProgram
  <2>1. ptab[1] # Null /\ ptab[1].inc = 1 /\ pc[1] \in InitProgram
    BY DEF UInv, Families
  <2>2. CASE cur_ctx = 1
    BY <1>2, <2>1, <2>2, SelfFacts
  <2>3. CASE cur_ctx # 1
    BY <1>2, <2>1, <2>3, OneIsPid
  <2> QED
    BY <2>2, <2>3
<1>5. Families(ptab, pc', born_by, born)
  BY <1>3, <1>4 DEF UInv, Families
<1>6. Families(ptab', pc', born_by', born')
  BY <1>5, FamiliesCarryOver
<1>7. ShellOff'
  <2> SUFFICES ASSUME NEW p \in Pid \ {1}, ptab'[p] # Null, ptab'[p].ppid # 1
               PROVE  ptab'[p].ppid # cur_ctx'
    BY DEF ShellOff
  <2> QED
    BY DEF SameFamily, Childless
<1>8. ExitNeverReturns'
  BY SelfFacts DEF ExitNeverReturns, SameFamily
<1> QED
  BY <1>1, <1>6, <1>7, <1>8

-----------------------------------------------------------------------------
(* What a fork by the program on the CPU leaves to switch_ctx: everybody   *)
(* as before, and a child in a new slot.                                   *)
LEMMA ForkFacts ==
  ASSUME UInv, NEW child, NEW parent, ForkTo(child, parent), NEW pid \in Pid, FirstFree(pid)
  PROVE  /\ InUserMode /\ Alive /\ Trap \in Frame
         /\ [ptab EXCEPT ![pid] = Child(cur_ctx)] \in [Pid -> Process \cup {Null}]
         /\ [ptab EXCEPT ![pid] = Child(cur_ctx)][pid] = Child(cur_ctx)
         /\ \A p \in Pid : p # pid => [ptab EXCEPT ![pid] = Child(cur_ctx)][p] = ptab[p]
         /\ pid # 1 /\ pid # cur_ctx /\ ptab[pid] = Null
         /\ Child(cur_ctx) # Null /\ Child(cur_ctx).inc = born + 1
         /\ ~Child(cur_ctx).wait /\ Child(cur_ctx).ppid = cur_ctx
         /\ born' = born + 1 /\ born \in Nat /\ Self # born + 1
         /\ pc'[born + 1] = child /\ pc'[Self] = parent
         /\ born_by'[born + 1] = Self
         /\ \A p \in Pid : ptab[p] # Null =>
               /\ ptab[p].inc <= born
               /\ born_by'[ptab[p].inc] = born_by[ptab[p].inc]
               /\ p # cur_ctx => pc'[ptab[p].inc] = pc[ptab[p].inc]
<1>1. InUserMode /\ born < MaxBorn /\ born' = born + 1
  BY DEF ForkTo, SysFork
<1>2. Alive /\ Trap \in Frame
  BY <1>1, UserModeFacts DEF UInv
<1>3. /\ Child(cur_ctx) \in Process /\ Child(cur_ctx) # Null
      /\ Child(cur_ctx).inc = born + 1 /\ born + 1 \in Incarnation
      /\ ~Child(cur_ctx).wait /\ Child(cur_ctx).ppid = cur_ctx
  BY <1>1, ChildFacts DEF UInv
<1>4. /\ [ptab EXCEPT ![pid] = Child(cur_ctx)] \in [Pid -> Process \cup {Null}]
      /\ [ptab EXCEPT ![pid] = Child(cur_ctx)][pid] = Child(cur_ctx)
      /\ \A p \in Pid : p # pid => [ptab EXCEPT ![pid] = Child(cur_ctx)][p] = ptab[p]
  BY <1>3 DEF UInv, IInv, TypeOK
<1>5. pid # 1 /\ pid # cur_ctx /\ ptab[pid] = Null
  BY <1>2 DEF FirstFree, UInv, Families, Alive
<1>6. born \in Nat /\ Self # born + 1 /\ Self \in Incarnation
  BY <1>2, SelfFacts DEF UInv, IInv, TypeOK, Incarnation
<1>7. /\ pc' = [pc EXCEPT ![Self] = parent, ![born + 1] = child]
      /\ born_by' = [born_by EXCEPT ![born + 1] = Self]
      /\ pc \in [Incarnation -> InitProgram \cup ShellProgram \cup CommandProgram]
      /\ born_by \in [Incarnation -> 0 .. MaxBorn]
  BY DEF ForkTo, UInv, UTypes
<1>8. \A p \in Pid : ptab[p] # Null =>
        /\ ptab[p].inc \in Incarnation /\ ptab[p].inc <= born /\ ptab[p].inc # born + 1
        /\ p # cur_ctx => ptab[p].inc # Self
  <2> SUFFICES ASSUME NEW p \in Pid, ptab[p] # Null
               PROVE  /\ ptab[p].inc \in Incarnation /\ ptab[p].inc <= born
                      /\ ptab[p].inc # born + 1
                      /\ p # cur_ctx => ptab[p].inc # Self
    OBVIOUS
  <2>1. ptab[p].inc \in Incarnation /\ ptab[p].inc <= born
    BY DEF UInv, Families, IInv, TypeOK, Process
  <2>2. ptab[p].inc # born + 1
    BY <1>6, <2>1 DEF Incarnation
  <2> QED
    BY <1>2, <2>1, <2>2, SelfFacts
<1>9. /\ pc'[born + 1] = child /\ pc'[Self] = parent
      /\ born_by'[born + 1] = Self
  BY <1>3, <1>6, <1>7
<1>10. \A p \in Pid : ptab[p] # Null =>
         /\ ptab[p].inc <= born
         /\ born_by'[ptab[p].inc] = born_by[ptab[p].inc]
         /\ p # cur_ctx => pc'[ptab[p].inc] = pc[ptab[p].inc]
  BY <1>7, <1>8
<1> QED
  BY <1>1, <1>2, <1>3, <1>4, <1>5, <1>6, <1>9, <1>10

(* A fork keeps the types. *)
LEMMA ForkTypes ==
  ASSUME UInv, NEW child, NEW parent, ForkTo(child, parent),
         child \in ShellProgram \cup CommandProgram, parent \in InitProgram \cup ShellProgram
  PROVE  UTypes'
<1>1. InUserMode
  BY DEF ForkTo, SysFork
<1>2. Self \in Incarnation
  BY <1>1, UserModeFacts, SelfFacts DEF UInv
<1>3. Self \in 0 .. MaxBorn
  BY <1>2, MaxBornAssumption DEF Incarnation
<1>4. /\ pc' = [pc EXCEPT ![Self] = parent, ![born + 1] = child]
      /\ born_by' = [born_by EXCEPT ![born + 1] = Self]
  BY DEF ForkTo
<1>5. pc' \in [Incarnation -> InitProgram \cup ShellProgram \cup CommandProgram]
  BY <1>4 DEF UInv, UTypes
<1>6. born_by' \in [Incarnation -> 0 .. MaxBorn]
  BY <1>3, <1>4 DEF UInv, UTypes
<1>7. born_by'[1] = 0
  <2>1. 1 \in Incarnation /\ born + 1 # 1
    BY MaxBornAssumption DEF UInv, IInv, TypeOK, Incarnation
  <2> QED
    BY <1>4, <2>1 DEF UInv, UTypes
<1> QED
  BY <1>5, <1>6, <1>7 DEF UTypes

(* The parts of a family that a fork keeps, whoever forks. *)
LEMMA ForkKeepsOrder ==
  ASSUME UInv, NEW child, NEW parent, ForkTo(child, parent), NEW pid \in Pid, FirstFree(pid),
         NEW tab, tab = [ptab EXCEPT ![pid] = Child(cur_ctx)]
  PROVE  /\ tab[1] # Null /\ tab[1].inc = 1 /\ tab[1].ppid = 0
         /\ \A p \in Pid : tab[p] # Null => tab[p].inc <= born'
         /\ \A p, q \in Pid : tab[p] # Null /\ tab[q] # Null /\ tab[p].inc = tab[q].inc => p = q
         /\ pid \in Runnable(tab)
<1>1. /\ tab[pid] = Child(cur_ctx) /\ Child(cur_ctx) # Null
      /\ Child(cur_ctx).inc = born + 1 /\ ~Child(cur_ctx).wait
      /\ \A p \in Pid : p # pid => tab[p] = ptab[p]
      /\ \A p \in Pid : ptab[p] # Null => ptab[p].inc <= born
      /\ pid # 1 /\ born' = born + 1 /\ born \in Nat
  BY ForkFacts
<1>2. \A p \in Pid : ptab[p] # Null => ptab[p].inc \in Nat
  BY MaxBornAssumption DEF UInv, IInv, TypeOK, Process, Incarnation
<1>3. tab[1] # Null /\ tab[1].inc = 1 /\ tab[1].ppid = 0
  BY <1>1, OneIsPid DEF UInv, Families
<1>4. \A p \in Pid : tab[p] # Null => tab[p].inc <= born'
  <2> SUFFICES ASSUME NEW p \in Pid, tab[p] # Null PROVE tab[p].inc <= born + 1
    BY <1>1
  <2> QED
    BY <1>1, <1>2
<1>5. \A p, q \in Pid : tab[p] # Null /\ tab[q] # Null /\ tab[p].inc = tab[q].inc => p = q
  <2> SUFFICES ASSUME NEW p \in Pid, NEW q \in Pid, tab[p] # Null, tab[q] # Null,
                      tab[p].inc = tab[q].inc
               PROVE  p = q
    OBVIOUS
  <2>1. CASE p # pid /\ q # pid
    BY <1>1, <2>1 DEF UInv, Families
  <2>2. CASE p = pid \/ q = pid
    BY <1>1, <1>2, <2>2
  <2> QED
    BY <2>1, <2>2
<1>6. pid \in Runnable(tab)
  BY <1>1 DEF Runnable
<1> QED
  BY <1>3, <1>4, <1>5, <1>6

(* Init starts a shell. *)
LEMMA InitSpawnsKeeps == ASSUME UInv, InitSpawns
                         PROVE  UTypes' /\ Families(ptab', pc', born_by', born') /\ ShellOff' /\ ExitNeverReturns'
<1>1. ForkTo("load", "await_shell") /\ SysFork /\ Alive /\ pc[Self] = "spawn"
  BY DEF InitSpawns, ForkTo, AtLabel
<1>2. PICK pid \in Pid : /\ FirstFree(pid)
                         /\ SwitchCtx([ptab EXCEPT ![pid] = Child(cur_ctx)], Trap,
                                      Install(pagedir, Child(cur_ctx)))
  BY <1>1 DEF SysFork
<1> DEFINE tab == [ptab EXCEPT ![pid] = Child(cur_ctx)]
<1>3. cur_ctx = 1 /\ Self = 1
  BY <1>1, SelfFacts DEF ShellProgram, CommandProgram
<1>4. /\ tab \in [Pid -> Process \cup {Null}] /\ Trap \in Frame
      /\ tab[pid] = Child(1) /\ Child(1) # Null
      /\ Child(1).inc = born + 1 /\ Child(1).ppid = 1
      /\ \A p \in Pid : p # pid => tab[p] = ptab[p]
      /\ pid # 1 /\ ptab[pid] = Null
      /\ pc'[born + 1] = "load" /\ pc'[1] = "await_shell" /\ born_by'[born + 1] = 1
      /\ \A p \in Pid : ptab[p] # Null =>
            /\ born_by'[ptab[p].inc] = born_by[ptab[p].inc]
            /\ p # 1 => pc'[ptab[p].inc] = pc[ptab[p].inc]
  BY <1>1, <1>2, <1>3, ForkFacts
<1>5. /\ tab[1] # Null /\ tab[1].inc = 1 /\ tab[1].ppid = 0
      /\ \A p \in Pid : tab[p] # Null => tab[p].inc <= born'
      /\ \A p, q \in Pid : tab[p] # Null /\ tab[q] # Null /\ tab[p].inc = tab[q].inc => p = q
      /\ pid \in Runnable(tab)
  BY <1>1, <1>2, ForkKeepsOrder
<1> HIDE DEF tab
<1>6. ASSUME NEW p \in Pid \ {1}, tab[p] # Null
      PROVE  IsShell(tab, pc', born_by', p) \/ IsCommand(tab, pc', born_by', p)
  <2>1. CASE p = pid
    BY <1>4, <2>1 DEF IsShell, ShellProgram
  <2>2. CASE p # pid
    <3>1. tab[p] = ptab[p] /\ (IsShell(ptab, pc, born_by, p) \/ IsCommand(ptab, pc, born_by, p))
      BY <1>4, <1>6, <2>2 DEF UInv, Families
    <3>2. CASE IsShell(ptab, pc, born_by, p)
      BY <1>4, <1>6, <3>1, <3>2 DEF IsShell
    <3>3. CASE IsCommand(ptab, pc, born_by, p)
      <4>1. tab[ptab[p].ppid] = ptab[ptab[p].ppid] /\ ptab[ptab[p].ppid] # Null
        BY <1>4, <3>3 DEF IsCommand
      <4> QED
        BY <1>4, <1>6, <3>1, <3>3, <4>1 DEF IsCommand, IsShell, Awaits
    <3> QED
      BY <3>1, <3>2, <3>3
  <2> QED
    BY <2>1, <2>2
<1>7. \A p, q \in Pid \ {1} :
        tab[p] # Null /\ tab[q] # Null /\ tab[p].ppid # 1 /\ tab[q].ppid = tab[p].ppid => p = q
  BY <1>4 DEF UInv, Families
<1>8. Families(tab, pc', born_by', born')
  BY <1>4, <1>5, <1>6, <1>7 DEF Families, InitProgram
<1>9. UTypes'
  BY <1>1, ForkTypes DEF InitProgram, ShellProgram
<1> QED
  BY <1>2, <1>4, <1>5, <1>8, <1>9, SwitchKeepsFamilies DEF UInv, IInv, tab

(* A shell that has no command starts one. *)
LEMMA ShellSpawnsKeeps == ASSUME UInv, ShellSpawns
                          PROVE  UTypes' /\ Families(ptab', pc', born_by', born') /\ ShellOff' /\ ExitNeverReturns'
<1>1. ForkTo("command", "await_command") /\ SysFork /\ Alive /\ pc[Self] = "choose"
  BY DEF ShellSpawns, ForkTo, AtLabel
<1>2. PICK pid \in Pid : /\ FirstFree(pid)
                         /\ SwitchCtx([ptab EXCEPT ![pid] = Child(cur_ctx)], Trap,
                                      Install(pagedir, Child(cur_ctx)))
  BY <1>1 DEF SysFork
<1> DEFINE tab == [ptab EXCEPT ![pid] = Child(cur_ctx)]
<1>3. /\ cur_ctx # 1 /\ cur_ctx \in Pid /\ ptab[cur_ctx] # Null /\ ptab[cur_ctx].inc = Self
      /\ IsShell(ptab, pc, born_by, cur_ctx)
      /\ Childless
  BY <1>1, SelfFacts, NoCommandYet DEF InitProgram, CommandProgram, Self
<1>4. /\ tab \in [Pid -> Process \cup {Null}] /\ Trap \in Frame
      /\ tab[pid] = Child(cur_ctx) /\ Child(cur_ctx) # Null
      /\ Child(cur_ctx).inc = born + 1 /\ Child(cur_ctx).ppid = cur_ctx /\ ~Child(cur_ctx).wait
      /\ \A p \in Pid : p # pid => tab[p] = ptab[p]
      /\ pid # 1 /\ pid # cur_ctx /\ ptab[pid] = Null
      /\ pc'[born + 1] = "command" /\ pc'[Self] = "await_command" /\ born_by'[born + 1] = Self
      /\ \A p \in Pid : ptab[p] # Null =>
            /\ born_by'[ptab[p].inc] = born_by[ptab[p].inc]
            /\ p # cur_ctx => pc'[ptab[p].inc] = pc[ptab[p].inc]
  BY <1>1, <1>2, ForkFacts
<1>5. /\ tab[1] # Null /\ tab[1].inc = 1 /\ tab[1].ppid = 0
      /\ \A p \in Pid : tab[p] # Null => tab[p].inc <= born'
      /\ \A p, q \in Pid : tab[p] # Null /\ tab[q] # Null /\ tab[p].inc = tab[q].inc => p = q
      /\ pid \in Runnable(tab)
  BY <1>1, <1>2, ForkKeepsOrder
<1> HIDE DEF tab
<1>6. IsShell(tab, pc', born_by', cur_ctx)
  BY <1>3, <1>4 DEF IsShell, ShellProgram
<1>7. ASSUME NEW p \in Pid \ {1}, tab[p] # Null
      PROVE  IsShell(tab, pc', born_by', p) \/ IsCommand(tab, pc', born_by', p)
  <2>1. CASE p = pid
    BY <1>3, <1>4, <1>6, <2>1 DEF IsCommand, Awaits, CommandProgram
  <2>2. CASE p = cur_ctx
    BY <1>6, <2>2
  <2>3. CASE p # pid /\ p # cur_ctx
    <3>1. tab[p] = ptab[p] /\ (IsShell(ptab, pc, born_by, p) \/ IsCommand(ptab, pc, born_by, p))
      BY <1>4, <1>7, <2>3 DEF UInv, Families
    <3>2. CASE IsShell(ptab, pc, born_by, p)
      BY <1>4, <1>7, <2>3, <3>1, <3>2 DEF IsShell
    <3>3. CASE IsCommand(ptab, pc, born_by, p)
      <4>1. /\ tab[ptab[p].ppid] = ptab[ptab[p].ppid] /\ ptab[ptab[p].ppid] # Null
            /\ ptab[p].ppid # cur_ctx /\ ptab[p].ppid \in Pid
        BY <1>3, <1>4, <1>7, <3>1, <3>3 DEF IsCommand, Childless
      <4> QED
        BY <1>4, <1>7, <2>3, <3>1, <3>3, <4>1 DEF IsCommand, IsShell, Awaits
    <3> QED
      BY <3>1, <3>2, <3>3
  <2> QED
    BY <2>1, <2>2, <2>3
<1>8. ASSUME NEW p \in Pid \ {1}, NEW q \in Pid \ {1},
             tab[p] # Null, tab[q] # Null, tab[p].ppid # 1, tab[q].ppid = tab[p].ppid
      PROVE  p = q
  <2>1. CASE p # pid /\ q # pid
    BY <1>4, <1>8, <2>1 DEF UInv, Families
  <2>2. CASE p = pid \/ q = pid
    BY <1>4, <1>3, <1>8, <2>2 DEF Childless
  <2> QED
    BY <2>1, <2>2
<1>9. pc'[1] \in InitProgram
  <2>1. ptab[1] # Null /\ ptab[1].inc = 1 /\ pc[1] \in InitProgram
    BY DEF UInv, Families
  <2> QED
    BY <1>3, <1>4, <2>1, OneIsPid
<1>10. Families(tab, pc', born_by', born')
  BY <1>5, <1>7, <1>8, <1>9 DEF Families
<1>11. UTypes'
  BY <1>1, ForkTypes DEF CommandProgram, ShellProgram
<1> QED
  BY <1>2, <1>4, <1>5, <1>10, <1>11, SwitchKeepsFamilies DEF UInv, IInv, tab

-----------------------------------------------------------------------------
(* The program on the CPU asks to wait: its flag is set, and nothing else. *)
LEMMA WaitFacts ==
  ASSUME UInv, InUserMode
  PROVE  LET tab == [ptab EXCEPT ![cur_ctx].wait = TRUE] IN
         /\ tab \in [Pid -> Process \cup {Null}]
         /\ tab[cur_ctx] # Null /\ tab[cur_ctx].wait
         /\ tab[cur_ctx].inc = ptab[cur_ctx].inc /\ tab[cur_ctx].ppid = ptab[cur_ctx].ppid
         /\ \A p \in Pid : p # cur_ctx => tab[p] = ptab[p]
<1> DEFINE proc == ptab[cur_ctx]
           tab == [ptab EXCEPT ![cur_ctx].wait = TRUE]
<1>1. proc \in Process /\ cur_ctx \in Pid
  BY UserModeFacts DEF UInv
<1>2. /\ [proc EXCEPT !.wait = TRUE] \in Process
      /\ [proc EXCEPT !.wait = TRUE].wait
      /\ [proc EXCEPT !.wait = TRUE].inc = proc.inc
      /\ [proc EXCEPT !.wait = TRUE].ppid = proc.ppid
  BY <1>1 DEF Process
<1>3. /\ tab[cur_ctx] = [proc EXCEPT !.wait = TRUE]
      /\ \A p \in Pid : p # cur_ctx => tab[p] = ptab[p]
      /\ tab \in [Pid -> Process \cup {Null}]
  BY <1>1, <1>2 DEF UInv, IInv, TypeOK
<1> QED
  BY <1>2, <1>3, NullAssumption

(* What moving the program on the CPU to label l leaves of the others. *)
LEMMA MoveFacts ==
  ASSUME UInv, Alive, NEW l, pc' = [pc EXCEPT ![Self] = l],
         l \in InitProgram \cup ShellProgram \cup CommandProgram
  PROVE  /\ pc' \in [Incarnation -> InitProgram \cup ShellProgram \cup CommandProgram]
         /\ pc'[Self] = l
         /\ \A p \in Pid : ptab[p] # Null /\ p # cur_ctx => pc'[ptab[p].inc] = pc[ptab[p].inc]
<1>1. pc \in [Incarnation -> InitProgram \cup ShellProgram \cup CommandProgram]
  BY DEF UInv, UTypes
<1>2. \A p \in Pid : ptab[p] # Null => ptab[p].inc \in Incarnation
  BY DEF UInv, IInv, TypeOK, Process
<1> QED
  BY <1>1, <1>2, SelfFacts

(* Init waits for a shell. *)
LEMMA InitWaitsKeeps == ASSUME UInv, InitWaits
                        PROVE  UTypes' /\ Families(ptab', pc', born_by', born') /\ ShellOff' /\ ExitNeverReturns'
<1> DEFINE tab == [ptab EXCEPT ![cur_ctx].wait = TRUE]
<1>1. /\ InUserMode /\ Alive /\ pc[Self] = "await_shell" /\ Trap \in Frame
      /\ SwitchCtx(tab, Trap, pagedir)
      /\ pc' = [pc EXCEPT ![Self] = "report"] /\ UNCHANGED <<born, born_by>>
  BY UserModeFacts DEF InitWaits, SysWaitpid, AtLabel, Goto, UInv
<1>2. cur_ctx = 1 /\ Self = 1
  BY <1>1, SelfFacts DEF ShellProgram, CommandProgram
<1>3. /\ pc' \in [Incarnation -> InitProgram \cup ShellProgram \cup CommandProgram]
      /\ pc'[1] = "report"
      /\ \A p \in Pid : ptab[p] # Null /\ p # 1 => pc'[ptab[p].inc] = pc[ptab[p].inc]
  BY <1>1, <1>2, MoveFacts DEF InitProgram
<1>4. /\ tab \in [Pid -> Process \cup {Null}] /\ tab[1] # Null
      /\ tab[1].inc = ptab[1].inc /\ tab[1].ppid = ptab[1].ppid
      /\ \A p \in Pid : p # 1 => tab[p] = ptab[p]
  BY <1>1, <1>2, WaitFacts
<1> HIDE DEF tab
<1>5. ASSUME NEW p \in Pid \ {1}, tab[p] # Null
      PROVE  IsShell(tab, pc', born_by, p) \/ IsCommand(tab, pc', born_by, p)
  <2>1. tab[p] = ptab[p] /\ (IsShell(ptab, pc, born_by, p) \/ IsCommand(ptab, pc, born_by, p))
    BY <1>4, <1>5 DEF UInv, Families
  <2>2. CASE IsShell(ptab, pc, born_by, p)
    BY <1>3, <1>5, <2>1, <2>2 DEF IsShell
  <2>3. CASE IsCommand(ptab, pc, born_by, p)
    <3>1. tab[ptab[p].ppid] = ptab[ptab[p].ppid]
      BY <1>4, <2>3 DEF IsCommand
    <3> QED
      BY <1>3, <1>5, <2>1, <2>3, <3>1 DEF IsCommand, IsShell, Awaits
  <2> QED
    BY <2>1, <2>2, <2>3
<1>6. /\ tab[1].inc = 1 /\ tab[1].ppid = 0
      /\ \A p \in Pid : tab[p] # Null => tab[p].inc <= born
      /\ \A p, q \in Pid : tab[p] # Null /\ tab[q] # Null /\ tab[p].inc = tab[q].inc => p = q
      /\ \A p, q \in Pid \ {1} :
           tab[p] # Null /\ tab[q] # Null /\ tab[p].ppid # 1 /\ tab[q].ppid = tab[p].ppid => p = q
  <2>1. /\ ptab[1] # Null /\ ptab[1].inc = 1 /\ ptab[1].ppid = 0
        /\ \A p \in Pid : ptab[p] # Null => ptab[p].inc <= born
        /\ \A p, q \in Pid : ptab[p] # Null /\ ptab[q] # Null /\ ptab[p].inc = ptab[q].inc => p = q
        /\ \A p, q \in Pid \ {1} :
             ptab[p] # Null /\ ptab[q] # Null /\ ptab[p].ppid # 1 /\ ptab[q].ppid = ptab[p].ppid => p = q
    BY DEF UInv, Families
  <2>2. \A p \in Pid : tab[p] # Null => ptab[p] # Null /\ tab[p].inc = ptab[p].inc
    BY <1>4, <2>1
  <2> QED
    BY <1>4, <2>1, <2>2
<1>7. Families(tab, pc', born_by', born')
  BY <1>1, <1>3, <1>4, <1>5, <1>6 DEF Families, InitProgram
<1>8. UTypes'
  BY <1>1, <1>3 DEF UTypes, UInv
<1> QED
  BY <1>1, <1>2, <1>4, <1>7, <1>8, SwitchKeepsFamilies DEF UInv, IInv

(* A shell waits for its command: it is at its next prompt, and suspended. *)
LEMMA ShellWaitsKeeps == ASSUME UInv, ShellWaits
                         PROVE  UTypes' /\ Families(ptab', pc', born_by', born') /\ ShellOff' /\ ExitNeverReturns'
<1> DEFINE tab == [ptab EXCEPT ![cur_ctx].wait = TRUE]
<1>1. /\ InUserMode /\ Alive /\ pc[Self] = "await_command" /\ Trap \in Frame
      /\ SwitchCtx(tab, Trap, pagedir)
      /\ pc' = [pc EXCEPT ![Self] = "prompt"] /\ UNCHANGED <<born, born_by>>
  BY UserModeFacts DEF ShellWaits, SysWaitpid, AtLabel, Goto, UInv
<1>2. /\ cur_ctx # 1 /\ cur_ctx \in Pid /\ ptab[cur_ctx] # Null /\ ptab[cur_ctx].inc = Self
      /\ IsShell(ptab, pc, born_by, cur_ctx)
  BY <1>1, SelfFacts DEF InitProgram, CommandProgram, Self
<1>3. /\ pc' \in [Incarnation -> InitProgram \cup ShellProgram \cup CommandProgram]
      /\ pc'[Self] = "prompt"
      /\ \A p \in Pid : ptab[p] # Null /\ p # cur_ctx => pc'[ptab[p].inc] = pc[ptab[p].inc]
  BY <1>1, MoveFacts DEF ShellProgram
<1>4. /\ tab \in [Pid -> Process \cup {Null}] /\ tab[cur_ctx] # Null /\ tab[cur_ctx].wait
      /\ tab[cur_ctx].inc = Self /\ tab[cur_ctx].ppid = ptab[cur_ctx].ppid
      /\ \A p \in Pid : p # cur_ctx => tab[p] = ptab[p]
  BY <1>1, <1>2, WaitFacts
<1> HIDE DEF tab
<1>5. IsShell(tab, pc', born_by, cur_ctx)
  BY <1>2, <1>3, <1>4 DEF IsShell, ShellProgram
<1>6. ASSUME NEW p \in Pid \ {1}, tab[p] # Null
      PROVE  IsShell(tab, pc', born_by, p) \/ IsCommand(tab, pc', born_by, p)
  <2>1. CASE p = cur_ctx
    BY <1>5, <2>1
  <2>2. CASE p # cur_ctx
    <3>1. tab[p] = ptab[p] /\ (IsShell(ptab, pc, born_by, p) \/ IsCommand(ptab, pc, born_by, p))
      BY <1>4, <1>6, <2>2 DEF UInv, Families
    <3>2. CASE IsShell(ptab, pc, born_by, p)
      BY <1>3, <1>6, <2>2, <3>1, <3>2 DEF IsShell
    <3>3. CASE IsCommand(ptab, pc, born_by, p) /\ ptab[p].ppid = cur_ctx
      BY <1>2, <1>3, <1>4, <1>5, <1>6, <2>2, <3>1, <3>3 DEF IsCommand, Awaits
    <3>4. CASE IsCommand(ptab, pc, born_by, p) /\ ptab[p].ppid # cur_ctx
      <4>1. tab[ptab[p].ppid] = ptab[ptab[p].ppid]
        BY <1>4, <3>4 DEF IsCommand
      <4> QED
        BY <1>3, <1>6, <2>2, <3>1, <3>4, <4>1 DEF IsCommand, IsShell, Awaits
    <3> QED
      BY <3>1, <3>2, <3>3, <3>4
  <2> QED
    BY <2>1, <2>2
<1>7. \A p \in Pid : tab[p] # Null => ptab[p] # Null /\ tab[p].inc = ptab[p].inc
                                     /\ tab[p].ppid = ptab[p].ppid
  BY <1>2, <1>4
<1>8. tab[1] = ptab[1] /\ pc'[1] \in InitProgram
  <2>1. ptab[1] # Null /\ ptab[1].inc = 1 /\ pc[1] \in InitProgram
    BY DEF UInv, Families
  <2> QED
    BY <1>2, <1>3, <1>4, <2>1, OneIsPid
<1>9. Families(tab, pc', born_by', born')
  <2>1. /\ ptab[1] # Null /\ ptab[1].inc = 1 /\ ptab[1].ppid = 0
        /\ \A p \in Pid : ptab[p] # Null => ptab[p].inc <= born
        /\ \A p, q \in Pid : ptab[p] # Null /\ ptab[q] # Null /\ ptab[p].inc = ptab[q].inc => p = q
        /\ \A p, q \in Pid \ {1} :
             ptab[p] # Null /\ ptab[q] # Null /\ ptab[p].ppid # 1 /\ ptab[q].ppid = ptab[p].ppid => p = q
    BY DEF UInv, Families
  <2>2. tab[1] # Null /\ tab[1].inc = 1 /\ tab[1].ppid = 0 /\ pc'[1] \in InitProgram
    BY <1>8, <2>1
  <2>3. \A p \in Pid : tab[p] # Null => tab[p].inc <= born
    BY <1>7, <2>1
  <2>4. \A p, q \in Pid : tab[p] # Null /\ tab[q] # Null /\ tab[p].inc = tab[q].inc => p = q
    BY <1>7, <2>1
  <2>5. \A p, q \in Pid \ {1} :
          tab[p] # Null /\ tab[q] # Null /\ tab[p].ppid # 1 /\ tab[q].ppid = tab[p].ppid => p = q
    BY <1>7, <2>1
  <2> QED
    BY <1>1, <1>6, <2>2, <2>3, <2>4, <2>5 DEF Families
<1>10. UTypes'
  BY <1>1, <1>3 DEF UTypes, UInv
<1> QED
  BY <1>1, <1>2, <1>4, <1>9, <1>10, SwitchKeepsFamilies DEF UInv, IInv

-----------------------------------------------------------------------------
(* A program that ends is taken out, and whoever holds its parent's slot   *)
(* is woken.                                                               *)
LEMMA ExitFacts ==
  ASSUME UInv, InUserMode
  PROVE  LET tab == [ClearWait(ptab, cur_ctx) EXCEPT ![cur_ctx] = Null] IN
         /\ tab \in [Pid -> Process \cup {Null}]
         /\ \A p \in Pid : tab[p] # Null <=> (ptab[p] # Null /\ p # cur_ctx)
         /\ \A p \in Pid : tab[p] # Null =>
              /\ tab[p].inc = ptab[p].inc /\ tab[p].ppid = ptab[p].ppid
              /\ p # ptab[cur_ctx].ppid => tab[p] = ptab[p]
              /\ p = ptab[cur_ctx].ppid => ~tab[p].wait
              /\ ~ptab[p].wait => ~tab[p].wait
<1> DEFINE tab == [ClearWait(ptab, cur_ctx) EXCEPT ![cur_ctx] = Null]
<1>1. cur_ctx \in Pid /\ ptab[cur_ctx] # Null /\ TypeOK
  BY UserModeFacts DEF UInv, IInv
<1>2. /\ ClearWait(ptab, cur_ctx) \in [Pid -> Process \cup {Null}]
      /\ \A p \in Pid :
           /\ ClearWait(ptab, cur_ctx)[p] = Null <=> ptab[p] = Null
           /\ ptab[p] # Null =>
                /\ ClearWait(ptab, cur_ctx)[p].inc = ptab[p].inc
                /\ ClearWait(ptab, cur_ctx)[p].ppid = ptab[p].ppid
                /\ p = ptab[cur_ctx].ppid => ~ClearWait(ptab, cur_ctx)[p].wait
                /\ ClearWait(ptab, cur_ctx)[p].wait => ptab[p].wait
           /\ p # ptab[cur_ctx].ppid => ClearWait(ptab, cur_ctx)[p] = ptab[p]
  <2>1. ptab[cur_ctx].wait \in BOOLEAN
    BY <1>1 DEF TypeOK, Process
  <2> QED
    BY <1>1, ClearWaitFacts, ClearWaitOnlyParent
<1>3. /\ tab \in [Pid -> Process \cup {Null}]
      /\ tab[cur_ctx] = Null
      /\ \A p \in Pid : p # cur_ctx => tab[p] = ClearWait(ptab, cur_ctx)[p]
  BY <1>1, <1>2
<1> QED
  BY <1>1, <1>2, <1>3

(* A program that has started nobody, or awaits nobody, leaves the others  *)
(* as they are, and leaves somebody who can run.                           *)
LEMMA ExitKeepsFamilies ==
  ASSUME UInv, InUserMode, cur_ctx # 1, Childless,
         SysExit, UNCHANGED <<pc, born_by>>
  PROVE  UTypes' /\ Families(ptab', pc', born_by', born') /\ ShellOff' /\ ExitNeverReturns'
<1> DEFINE tab == [ClearWait(ptab, cur_ctx) EXCEPT ![cur_ctx] = Null]
<1>1. /\ Alive /\ Trap \in Frame /\ SwitchCtx(tab, Trap, pagedir) /\ born' = born
      /\ cur_ctx \in Pid /\ ptab[cur_ctx] # Null
  BY UserModeFacts DEF SysExit, UInv
<1>2. /\ tab \in [Pid -> Process \cup {Null}]
      /\ \A p \in Pid : tab[p] # Null <=> (ptab[p] # Null /\ p # cur_ctx)
      /\ \A p \in Pid : tab[p] # Null =>
           /\ tab[p].inc = ptab[p].inc /\ tab[p].ppid = ptab[p].ppid
           /\ p # ptab[cur_ctx].ppid => tab[p] = ptab[p]
           /\ p = ptab[cur_ctx].ppid => ~tab[p].wait
           /\ ~ptab[p].wait => ~tab[p].wait
  BY ExitFacts
<1> HIDE DEF tab
<1>3. /\ ptab[1] # Null /\ ptab[1].inc = 1 /\ ptab[1].ppid = 0 /\ pc[1] \in InitProgram
      /\ \A p \in Pid : ptab[p] # Null => ptab[p].inc <= born
      /\ \A p, q \in Pid : ptab[p] # Null /\ ptab[q] # Null /\ ptab[p].inc = ptab[q].inc => p = q
      /\ \A p \in Pid \ {1} : ptab[p] # Null =>
            IsShell(ptab, pc, born_by, p) \/ IsCommand(ptab, pc, born_by, p)
      /\ \A p, q \in Pid \ {1} :
           ptab[p] # Null /\ ptab[q] # Null /\ ptab[p].ppid # 1 /\ ptab[q].ppid = ptab[p].ppid => p = q
  BY DEF UInv, Families
<1>4. ASSUME NEW p \in Pid \ {1}, tab[p] # Null
      PROVE  IsShell(tab, pc, born_by, p) \/ IsCommand(tab, pc, born_by, p)
  <2>1. /\ ptab[p] # Null /\ p # cur_ctx
        /\ tab[p].inc = ptab[p].inc /\ tab[p].ppid = ptab[p].ppid
    BY <1>2, <1>4
  <2>2. CASE IsShell(ptab, pc, born_by, p)
    BY <2>1, <2>2 DEF IsShell
  <2>3. CASE IsCommand(ptab, pc, born_by, p)
    <3> DEFINE q == ptab[p].ppid
    <3>1. q \in Pid \ {1} /\ ptab[q] # Null /\ q # 1
      BY <2>3 DEF IsCommand
    <3>2. q # cur_ctx
      BY <2>1, <3>1 DEF Childless
    <3>3. q # ptab[cur_ctx].ppid
      BY <1>1, <1>3, <2>1, <3>1
    <3>4. tab[q] # Null /\ tab[q] = ptab[q]
      BY <1>2, <3>1, <3>2, <3>3
    <3>5. ~tab[p].wait
      BY <1>2, <1>4, <2>3 DEF IsCommand
    <3> QED
      BY <2>1, <2>3, <3>4, <3>5 DEF IsCommand, IsShell, Awaits
  <2> QED
    BY <1>3, <2>1, <2>2, <2>3
<1>5. Families(tab, pc', born_by', born')
  <2>1. tab[1] # Null /\ tab[1].inc = 1 /\ tab[1].ppid = 0
    BY <1>2, <1>3, OneIsPid
  <2>2. \A p \in Pid : tab[p] # Null => tab[p].inc <= born
    BY <1>2, <1>3
  <2>3. \A p, q \in Pid : tab[p] # Null /\ tab[q] # Null /\ tab[p].inc = tab[q].inc => p = q
    BY <1>2, <1>3
  <2>4. \A p, q \in Pid \ {1} :
          tab[p] # Null /\ tab[q] # Null /\ tab[p].ppid # 1 /\ tab[q].ppid = tab[p].ppid => p = q
    BY <1>2, <1>3
  <2> QED
    BY <1>1, <1>3, <1>4, <2>1, <2>2, <2>3, <2>4 DEF Families
<1>6. Runnable(tab) # {}
  <2> DEFINE q == ptab[cur_ctx].ppid
  <2>1. q \in Pid /\ ptab[q] # Null /\ q # cur_ctx
    <3>1. CASE IsShell(ptab, pc, born_by, cur_ctx)
      BY <1>3, <3>1, OneIsPid DEF IsShell
    <3>2. CASE IsCommand(ptab, pc, born_by, cur_ctx)
      BY <1>1, <3>2 DEF IsCommand, Childless
    <3> QED
      BY <1>1, <1>3, <3>1, <3>2
  <2> QED
    BY <1>2, <2>1 DEF Runnable
<1>7. UTypes'
  BY DEF UTypes, UInv
<1> QED
  BY <1>1, <1>2, <1>5, <1>6, <1>7, SwitchKeepsFamilies DEF UInv, IInv

(* The shell exits, or a program ends. *)
LEMMA EndsKeeps == ASSUME UInv, ShellExits \/ Ends
                   PROVE  UTypes' /\ Families(ptab', pc', born_by', born') /\ ShellOff' /\ ExitNeverReturns'
<1>1. /\ SysExit /\ InUserMode /\ Alive /\ pc[Self] \in {"choose", "end"}
      /\ UNCHANGED <<pc, born_by>>
  BY DEF ShellExits, Ends, SysExit, AtLabel
<1>2. cur_ctx # 1
  BY <1>1, SelfFacts DEF InitProgram
<1>3. Childless
  BY <1>1, NoCommandYet
<1> QED
  BY <1>1, <1>2, <1>3, ExitKeepsFamilies

-----------------------------------------------------------------------------
(* A step that leaves the programs where they are, and their families. *)
LEMMA StayKeepsFamilies ==
  ASSUME UInv, SameFamily(ptab, ptab'), UNCHANGED <<cur_ctx, born, pc, born_by>>
  PROVE  UTypes' /\ Families(ptab', pc', born_by', born') /\ ShellOff' /\ ExitNeverReturns'
<1>1. Families(ptab', pc', born_by', born') /\ UTypes'
  BY FamiliesCarryOver DEF UInv, UTypes
<1>2. ExitNeverReturns'
  <2>1. cur_ctx # 0 => cur_ctx \in Pid
    BY MaxPidAssumption DEF UInv, IInv, TypeOK, Pid
  <2> QED
    BY <2>1 DEF UInv, ExitNeverReturns, SameFamily
<1>3. ShellOff'
  <2> SUFFICES ASSUME NEW p \in Pid \ {1}, ptab'[p] # Null, ptab'[p].ppid # 1,
                      pc[ptab'[ptab'[p].ppid].inc] = "prompt"
               PROVE  ptab'[p].ppid # cur_ctx
    BY DEF ShellOff
  <2>1. ptab[p] # Null /\ ptab[p].ppid = ptab'[p].ppid
    BY DEF SameFamily
  <2>2. ptab[p].ppid \in Pid /\ ptab[ptab[p].ppid] # Null
    BY <2>1, CommandFacts DEF UInv, IsCommand
  <2>3. ptab'[ptab[p].ppid].inc = ptab[ptab[p].ppid].inc
    BY <2>2 DEF SameFamily
  <2> QED
    BY <2>1, <2>3 DEF UInv, ShellOff
<1> QED
  BY <1>1, <1>2, <1>3

LEMMA SameTable == ptab' = ptab => SameFamily(ptab, ptab')
BY DEF SameFamily

(* Loading a program gives the process a code table, and no other parent. *)
LEMMA LoadFacts == ASSUME UInv, SysExecLoad PROVE SameFamily(ptab, ptab')
<1>1. Alive
  BY DEF SysExecLoad, UInv, IInv, Bootstrapped
<1>2. cur_ctx \in Pid /\ ptab[cur_ctx] \in Process
  BY <1>1, SelfFacts
<1>3. ptab' = [ptab EXCEPT ![cur_ctx] = [ptab[cur_ctx] EXCEPT !.pt = @ \cup {"code"}]]
  BY DEF SysExecLoad
<1>4. /\ ptab'[cur_ctx] \in Process /\ ptab'[cur_ctx] # Null
      /\ ptab'[cur_ctx].inc = ptab[cur_ctx].inc
      /\ ptab'[cur_ctx].wait = ptab[cur_ctx].wait
      /\ ptab'[cur_ctx].ppid = ptab[cur_ctx].ppid
  BY <1>2, <1>3, NullAssumption DEF Process, PDI, UInv, IInv, TypeOK
<1>5. \A p \in Pid : p # cur_ctx => ptab'[p] = ptab[p]
  BY <1>2, <1>3 DEF UInv, IInv, TypeOK
<1> QED
  BY <1>1, <1>4, <1>5 DEF SameFamily, Alive

(* A program is loaded by execve, or ends because it cannot be. *)
LEMMA ExecsKeeps == ASSUME UInv, Execs("load", "prompt") \/ Execs("command", "end")
                    PROVE  UTypes' /\ Families(ptab', pc', born_by', born') /\ ShellOff' /\ ExitNeverReturns'
<1>1. PICK from \in {"load", "command"} : 
        /\ Alive /\ pc[Self] = from
        /\ \/ SysEnter("exec") /\ UNCHANGED pc
           \/ /\ SysExecLoad \/ SysReturn
              /\ pc' = [pc EXCEPT ![Self] = "end"] \/ (from = "load" /\ pc' = [pc EXCEPT ![Self] = "prompt"])
        /\ UNCHANGED born_by
  BY DEF Execs, AtLabel, Goto
<1>2. SameFamily(ptab, ptab') /\ UNCHANGED <<cur_ctx, born>>
  BY <1>1, LoadFacts, SameTable DEF SysEnter, SysReturn, SysExecLoad
<1>3. CASE UNCHANGED pc
  BY <1>1, <1>2, <1>3, StayKeepsFamilies
<1>4. CASE pc' = [pc EXCEPT ![Self] = "end"] \/ (from = "load" /\ pc' = [pc EXCEPT ![Self] = "prompt"])
  <2>1. Childless
    BY <1>1, NoCommandYet
  <2> QED
    BY <1>1, <1>2, <1>4, <2>1, MoveKeepsFamilies DEF InitProgram, ShellProgram, CommandProgram
<1> QED
  BY <1>1, <1>3, <1>4

(* Init reports, and the shell reads a line. *)
LEMMA ReportsReadsKeep == ASSUME UInv, InitReports \/ ShellReads
                          PROVE  UTypes' /\ Families(ptab', pc', born_by', born') /\ ShellOff' /\ ExitNeverReturns'
<1>1. Alive /\ pc[Self] \in {"report", "prompt"} /\ UNCHANGED <<ptab, cur_ctx, born, born_by>>
  BY DEF InitReports, ShellReads, AtLabel, SysEnter, SysReturn, vars
<1>2. SameFamily(ptab, ptab') /\ Childless
  BY <1>1, SameTable, NoCommandYet
<1>3. \/ UNCHANGED pc
      \/ pc[Self] = "report" /\ pc' = [pc EXCEPT ![Self] = "spawn"]
      \/ pc[Self] = "prompt" /\ pc' = [pc EXCEPT ![Self] = "choose"]
  BY DEF InitReports, ShellReads, AtLabel, Goto
<1>4. CASE UNCHANGED pc
  BY <1>1, <1>2, <1>4, StayKeepsFamilies
<1>5. CASE pc[Self] = "report" /\ pc' = [pc EXCEPT ![Self] = "spawn"]
  BY <1>1, <1>2, <1>5, MoveKeepsFamilies DEF InitProgram, ShellProgram, CommandProgram
<1>6. CASE pc[Self] = "prompt" /\ pc' = [pc EXCEPT ![Self] = "choose"]
  BY <1>1, <1>2, <1>6, MoveKeepsFamilies DEF InitProgram, ShellProgram, CommandProgram
<1> QED
  BY <1>3, <1>4, <1>5, <1>6

(* The timer moves the CPU from one program to another. *)
LEMMA UTickKeeps == ASSUME UInv, UTick
                    PROVE  UTypes' /\ Families(ptab', pc', born_by', born') /\ ShellOff' /\ ExitNeverReturns'
<1>1. /\ SwitchCtx(ptab, cpu, pagedir) /\ UNCHANGED <<born, pc, born_by>>
      /\ ptab \in [Pid -> Process \cup {Null}] /\ cpu \in Frame
  BY DEF UTick, Tick, UInv, IInv, TypeOK
<1>2. Families(ptab, pc', born_by', born') /\ UTypes'
  BY <1>1 DEF UInv, UTypes
<1>3. cur_ctx # 0 => ptab[cur_ctx] # Null
  BY DEF UInv, ExitNeverReturns
<1> QED
  BY <1>1, <1>2, <1>3, SwitchKeepsFamilies DEF UInv, IInv

(* Init alone, at its start, is a family. *)
LEMMA UInitEstablishes == UInit => UInv
<1> SUFFICES ASSUME UInit PROVE UInv
  OBVIOUS
<1>1. IInv
  BY InitEstablishes DEF UInit
<1>2. /\ \A p \in Pid : ptab[p] = IF p = 1 THEN InitProcess ELSE Null
      /\ InitProcess.inc = 1 /\ InitProcess.ppid = 0 /\ born = 1 /\ cur_ctx = 0
  BY DEF UInit, Init, InitProcess
<1>3. ptab[1] = InitProcess /\ ptab[1] # Null /\ \A p \in Pid : ptab[p] # Null => p = 1
  <2>1. InitProcess \in Process
    BY MaxPidAssumption, MaxBornAssumption DEF InitProcess, Process, Frame, Incarnation, PDI
  <2> QED
    BY <1>2, <2>1, OneIsPid, NullAssumption
<1>4. pc[1] = "spawn" /\ UTypes
  BY MaxBornAssumption DEF UInit, UTypes, Incarnation, InitProgram
<1>5. Families(ptab, pc, born_by, born)
  BY <1>2, <1>3, <1>4 DEF Families, InitProgram
<1>6. ShellOff /\ ExitNeverReturns
  BY <1>2, <1>3 DEF ShellOff, ExitNeverReturns
<1> QED
  BY <1>1, <1>4, <1>5, <1>6 DEF UInv

(* Every step of the programs preserves all of it. *)
LEMMA UNextPreserves == UInv /\ [UNext]_uvars => UInv'
<1> SUFFICES ASSUME UInv, [UNext]_uvars PROVE UInv'
  OBVIOUS
<1>1. IInv'
  BY ProgramsStep, NextPreserves DEF UInv
<1>2. UTypes' /\ Families(ptab', pc', born_by', born') /\ ShellOff' /\ ExitNeverReturns'
  <2>1. CASE UNext
    BY <2>1, InitSpawnsKeeps, InitWaitsKeeps, ReportsReadsKeep, ExecsKeeps, EndsKeeps,
       ShellSpawnsKeeps, ShellWaitsKeeps, UTickKeeps DEF UNext
  <2>2. CASE UNCHANGED uvars
    BY <2>2, SameTable, StayKeepsFamilies DEF uvars, vars
  <2> QED
    BY <2>1, <2>2
<1> QED
  BY <1>1, <1>2 DEF UInv

(* The invariant of the programs and the kernel under them. *)
THEOREM UserlandInvariance == USpec => []UInv
BY UInitEstablishes, UNextPreserves, PTL DEF USpec

(* init, the shell and its commands never ask the kernel for a step Mt     *)
(* does not have: all that is proved of the kernel holds while they run.   *)
THEOREM ProgramsRunOnKernel == USpec => Spec
<1>1. UInit => Init
  BY DEF UInit
<1> QED
  BY <1>1, ProgramsStep, PTL DEF USpec, Spec

(* When a shell or a command exits its parent is there and is woken, so    *)
(* that proc_exit never comes back to the program that called it.          *)
THEOREM ExitsNeverReturn == USpec => []ExitNeverReturns
<1>1. UInv => ExitNeverReturns
  BY DEF UInv
<1> QED
  BY <1>1, UserlandInvariance, PTL

(* The pid a process carries as its parent's is that of the very process   *)
(* that forked it, however often slots were given up and taken again:      *)
(* clear_wait never wakes a stranger.                                      *)
THEOREM ParentsAreParents == USpec => []NoStrangersExit
<1>1. UInv => NoStrangersExit
  <2> SUFFICES ASSUME UInv, NEW p \in Pid, ptab[p] # Null, ptab[p].ppid # 0
               PROVE  born_by[ptab[p].inc] = ptab[ptab[p].ppid].inc
    BY DEF NoStrangersExit
  <2>1. p # 1 /\ ptab[1].inc = 1
    BY DEF UInv, Families
  <2>2. IsShell(ptab, pc, born_by, p) \/ IsCommand(ptab, pc, born_by, p)
    BY <2>1 DEF UInv, Families
  <2> QED
    BY <2>1, <2>2 DEF IsShell, IsCommand
<1> QED
  BY <1>1, UserlandInvariance, PTL

(* A shell that asks for its next line has no command left running: the    *)
(* waitpid(-1) it called returned for that command and nobody else.        *)
THEOREM CommandsDoneAtPrompt == USpec => []CommandDoneAtPrompt
<1>1. UInv => CommandDoneAtPrompt
  <2> SUFFICES ASSUME UInv, AtLabel("prompt"),
                      NEW p \in Pid, ptab[p] # Null, born_by[ptab[p].inc] = Self
               PROVE  FALSE
    BY DEF CommandDoneAtPrompt
  <2>1. Alive /\ pc[Self] = "prompt" /\ Childless
    BY NoCommandYet DEF AtLabel
  <2>2. cur_ctx # 1 /\ cur_ctx \in Pid /\ ptab[cur_ctx] # Null
    BY <2>1, SelfFacts DEF InitProgram
  <2>3. Self # 1
    BY <2>2, OneIsPid DEF Self, UInv, Families
  <2>4. p # 1 => ~IsShell(ptab, pc, born_by, p)
    BY <2>3 DEF IsShell
  <2>5. p # 1 => ~IsCommand(ptab, pc, born_by, p)
    <3> SUFFICES ASSUME p # 1, IsCommand(ptab, pc, born_by, p) PROVE FALSE
      OBVIOUS
    <3>1. /\ ptab[p].ppid \in Pid \ {1} /\ ptab[ptab[p].ppid] # Null
          /\ ptab[ptab[p].ppid].inc = Self
      BY DEF IsCommand
    <3>2. ptab[p].ppid = cur_ctx
      BY <2>1, <3>1, SelfFacts
    <3> QED
      BY <2>1, <3>1, <3>2 DEF Childless
  <2>6. p = 1
    BY <2>4, <2>5 DEF UInv, Families
  <2>7. Self # 0
    BY <2>1, SelfFacts DEF Incarnation
  <2>8. born_by[ptab[p].inc] = 0
    BY <2>6 DEF UInv, UTypes, Families
  <2> QED
    BY <2>7, <2>8
<1> QED
  BY <1>1, UserlandInvariance, PTL
=============================================================================
