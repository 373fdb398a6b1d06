------------------------------ MODULE MtProofs ------------------------------
(***************************************************************************)
(* Proofs about Mt, for every number of slots and of processes.            *)
(***************************************************************************)
EXTENDS Mt, TLAPS

(* What a handler leaves for switch_ctx: a well-formed table, in which     *)
(* every frame but the running one is in place, with the trap frame r of   *)
(* the running process, and a directory that is that process's own unless  *)
(* somebody else can run.                                                  *)
SwitchReady(tab, r, dir) ==
  /\ tab \in [Pid -> Process \cup {Null}]
  /\ r \in Frame
  /\ dir \in [PDI -> 0 .. MaxBorn]
  /\ \A p \in Pid : tab[p] # Null => tab[p].r.own = tab[p].inc
  /\ \A p \in Pid : tab[p] # Null /\ tab[p].wait /\ p # cur_ctx => tab[p].r.at = "sys"
  /\ cur_ctx # 0 /\ tab[cur_ctx] # Null =>
       /\ r.own = tab[cur_ctx].inc
       /\ esp0 = tab[cur_ctx].inc
       /\ tab[cur_ctx].wait => r.at = "sys" \/ Runnable(tab) = {}
       /\ \/ \A d \in tab[cur_ctx].pt : dir[d] = tab[cur_ctx].inc
          \/ \E q \in Runnable(tab) : q # cur_ctx
  /\ r.at \in {"read", "exec"} => cur_ctx # 0 /\ tab[cur_ctx] # Null

(* Saving the frame of the running process changes that frame and nothing  *)
(* else.                                                                   *)
LEMMA SaveFacts ==
  ASSUME TypeOK, Bootstrapped,
         NEW tab \in [Pid -> Process \cup {Null}], NEW r \in Frame
  PROVE  /\ Save(tab, r) \in [Pid -> Process \cup {Null}]
         /\ \A p \in Pid : /\ Save(tab, r)[p] = Null <=> tab[p] = Null
                           /\ tab[p] # Null => /\ Save(tab, r)[p].inc = tab[p].inc
                                               /\ Save(tab, r)[p].wait = tab[p].wait
                                               /\ Save(tab, r)[p].ppid = tab[p].ppid
                                               /\ Save(tab, r)[p].pt = tab[p].pt
                           /\ p # cur_ctx => Save(tab, r)[p] = tab[p]
         /\ cur_ctx # 0 /\ tab[cur_ctx] # Null => Save(tab, r)[cur_ctx].r = r
         /\ Runnable(Save(tab, r)) = Runnable(tab)
<1>1. CASE mt_enabled > 1 /\ tab[cur_ctx] # Null
  <2>1. cur_ctx \in Pid
    BY <1>1, MaxPidAssumption DEF TypeOK, Bootstrapped, Pid
  <2>2. tab[cur_ctx] \in Process
    BY <1>1, <2>1
  <2>3. Save(tab, r) = [tab EXCEPT ![cur_ctx] = [tab[cur_ctx] EXCEPT !.r = r]]
    BY <1>1 DEF Save
  <2>4. [tab[cur_ctx] EXCEPT !.r = r] \in Process
    BY <2>2 DEF Process
  <2>5. [tab[cur_ctx] EXCEPT !.r = r] # Null
    BY <2>4, NullAssumption
  <2>6. /\ [tab[cur_ctx] EXCEPT !.r = r].inc = tab[cur_ctx].inc
        /\ [tab[cur_ctx] EXCEPT !.r = r].wait = tab[cur_ctx].wait
        /\ [tab[cur_ctx] EXCEPT !.r = r].ppid = tab[cur_ctx].ppid
        /\ [tab[cur_ctx] EXCEPT !.r = r].pt = tab[cur_ctx].pt
        /\ [tab[cur_ctx] EXCEPT !.r = r].r = r
    BY <2>2 DEF Process
  <2> QED
    BY <1>1, <2>1, <2>2, <2>3, <2>4, <2>5, <2>6 DEF Runnable
<1>2. CASE ~(mt_enabled > 1 /\ tab[cur_ctx] # Null)
  <2>1. Save(tab, r) = tab
    BY <1>2 DEF Save
  <2>2. ~(cur_ctx # 0 /\ tab[cur_ctx] # Null)
    BY <1>2 DEF Bootstrapped, TypeOK
  <2> QED
    BY <2>1, <2>2
<1> QED
  BY <1>1, <1>2

(* switch_ctx establishes every part of the invariant. *)
LEMMA SwitchEstablishes ==
  ASSUME TypeOK, Bootstrapped, born' \in Incarnation,
         NEW tab, NEW r, NEW dir,
         SwitchReady(tab, r, dir), SwitchCtx(tab, r, dir)
  PROVE  IInv'
<1> DEFINE saved == Save(tab, r)
<1>0. /\ tab \in [Pid -> Process \cup {Null}]
      /\ r \in Frame
      /\ dir \in [PDI -> 0 .. MaxBorn]
  BY DEF SwitchReady
<1>1. /\ saved \in [Pid -> Process \cup {Null}]
      /\ \A p \in Pid : /\ saved[p] = Null <=> tab[p] = Null
                        /\ tab[p] # Null => /\ saved[p].inc = tab[p].inc
                                            /\ saved[p].wait = tab[p].wait
                                            /\ saved[p].pt = tab[p].pt
                        /\ p # cur_ctx => saved[p] = tab[p]
      /\ cur_ctx # 0 /\ tab[cur_ctx] # Null => saved[cur_ctx].r = r
      /\ Runnable(saved) = Runnable(tab)
  BY <1>0, SaveFacts
<1>2. ptab' = saved
  BY DEF SwitchCtx
<1>3. \A fr \in Frame : /\ Resume(fr) \in Frame
                        /\ Resume(fr).at # "sys"
                        /\ Resume(fr).own = fr.own
                        /\ Resume(fr).at \in {"read", "exec"} => fr.at \in {"read", "exec"}
  BY DEF Resume, Frame
<1>4. \A p \in Pid : saved[p] # Null => saved[p].r.own = saved[p].inc
  <2> SUFFICES ASSUME NEW p \in Pid, saved[p] # Null PROVE saved[p].r.own = saved[p].inc
    OBVIOUS
  <2>1. CASE p = cur_ctx
    BY <1>1, <2>1 DEF SwitchReady, Pid
  <2>2. CASE p # cur_ctx
    BY <1>1, <2>2 DEF SwitchReady
  <2> QED
    BY <2>1, <2>2
<1>5. CASE /\ Runnable(saved) = {}
           /\ cpu' = Resume(r)
           /\ pagedir' = dir
           /\ UNCHANGED <<cur_ctx, esp0, mt_enabled>>
  <2>1. TypeOK'
    BY <1>0, <1>1, <1>2, <1>3, <1>5 DEF TypeOK
  <2>2. Alive' => cur_ctx \in Pid /\ cur_ctx # 0 /\ tab[cur_ctx] # Null
    BY <1>1, <1>2, <1>5, MaxPidAssumption DEF Alive, TypeOK, Pid
  <2>3. Bootstrapped'
    <3>1. (mt_enabled = 2 <=> cur_ctx # 0)'
      BY <1>5 DEF Bootstrapped
    <3>2. cpu'.at \in {"read", "exec"} => cur_ctx # 0 /\ tab[cur_ctx] # Null
      BY <1>0, <1>3, <1>5 DEF SwitchReady
    <3>3. cur_ctx # 0 /\ tab[cur_ctx] # Null => Alive'
      BY <1>1, <1>2, <1>5, MaxPidAssumption DEF Alive, TypeOK, Pid
    <3> QED
      BY <3>1, <3>2, <3>3 DEF Bootstrapped
  <2>4. WorkConserving'
    BY <1>2, <1>5 DEF WorkConserving, Runnable
  <2>5. OwnContext'
    BY <1>0, <1>1, <1>2, <1>3, <1>4, <1>5, <2>2 DEF OwnContext, SwitchReady, Alive
  <2>6. OwnAddressSpace'
    BY <1>1, <1>2, <1>5, <2>2 DEF OwnAddressSpace, SwitchReady, Alive
  <2>7. WaiterStoppedInCall'
    BY <1>1, <1>2, <1>5 DEF WaiterStoppedInCall, SwitchReady
  <2> QED
    BY <2>1, <2>3, <2>4, <2>5, <2>6, <2>7 DEF IInv
<1>6. ASSUME NEW i \in Pid,
             IsNext(saved, i),
             pagedir' = IF i # cur_ctx THEN Install(dir, saved[i]) ELSE dir,
             cpu' = Resume(saved[i].r),
             esp0' = saved[i].inc,
             cur_ctx' = i,
             mt_enabled' = 2
      PROVE  IInv'
  <2>1. /\ i \in Runnable(saved)
        /\ saved[i] \in Process
        /\ saved[i].r \in Frame
        /\ saved[i].inc \in 1 .. MaxBorn
        /\ saved[i].pt \subseteq PDI
    BY <1>1, <1>6 DEF IsNext, Runnable, Process, Incarnation
  <2>2. i # 0 /\ i \in 0 .. MaxPid
    BY MaxPidAssumption DEF Pid
  <2>3. Alive'
    BY <1>2, <1>6, <2>1, <2>2 DEF Alive, Runnable
  <2>4. TypeOK'
    <3>1. pagedir' \in [PDI -> 0 .. MaxBorn]
      BY <1>0, <1>6, <2>1, MaxBornAssumption DEF Install
    <3>2. cpu' \in Frame /\ cpu'.at # "sys"
      BY <1>3, <1>6, <2>1
    <3>3. esp0' \in 0 .. MaxBorn
      BY <1>6, <2>1, MaxBornAssumption
    <3> QED
      BY <1>1, <1>2, <1>6, <2>2, <3>1, <3>2, <3>3 DEF TypeOK
  <2>5. Bootstrapped'
    BY <1>6, <2>2, <2>3 DEF Bootstrapped
  <2>6. WorkConserving'
    BY <1>2, <1>6, <2>1 DEF WorkConserving, Runnable
  <2>7. OwnContext'
    BY <1>2, <1>3, <1>4, <1>6, <2>1 DEF OwnContext, Alive, Runnable
  <2>8. OwnAddressSpace'
    <3>1. CASE i # cur_ctx
      BY <1>2, <1>6, <2>1, <3>1 DEF OwnAddressSpace, Install
    <3>2. CASE i = cur_ctx
      <4>1. \A q \in Runnable(tab) : q = cur_ctx
        BY <1>1, <1>6, <3>2 DEF IsNext, Runnable, Pid
      <4>2. cur_ctx # 0 /\ tab[cur_ctx] # Null
        BY <1>1, <2>1, <2>2, <3>2 DEF Runnable
      <4>3. \A d \in tab[i].pt : dir[d] = tab[i].inc
        BY <3>2, <4>1, <4>2 DEF SwitchReady
      <4>4. saved[i].pt = tab[i].pt /\ saved[i].inc = tab[i].inc /\ pagedir' = dir
        BY <1>1, <1>6, <3>2, <4>2
      <4> QED
        BY <1>2, <1>6, <4>3, <4>4 DEF OwnAddressSpace
    <3> QED
      BY <3>1, <3>2
  <2>9. WaiterStoppedInCall'
    <3> SUFFICES ASSUME NEW p \in Pid, saved[p] # Null, saved[p].wait, p # i
                 PROVE  saved[p].r.at = "sys"
      BY <1>2, <1>6 DEF WaiterStoppedInCall
    <3>1. CASE p = cur_ctx
      <4>1. cur_ctx # 0 /\ tab[cur_ctx] # Null /\ tab[cur_ctx].wait
        BY <1>1, <3>1 DEF Pid
      <4>2. Runnable(tab) # {}
        BY <1>1, <2>1
      <4> QED
        BY <1>1, <3>1, <4>1, <4>2 DEF SwitchReady
    <3>2. CASE p # cur_ctx
      BY <1>1, <3>2 DEF SwitchReady
    <3> QED
      BY <3>1, <3>2
  <2> QED
    BY <2>4, <2>5, <2>6, <2>7, <2>8, <2>9 DEF IInv
<1> QED
  BY <1>2, <1>5, <1>6 DEF SwitchCtx

-----------------------------------------------------------------------------
(* The state before the first switch satisfies the invariant. *)
LEMMA InitEstablishes == Init => IInv
<1> SUFFICES ASSUME Init PROVE IInv
  OBVIOUS
<1>1. InitProcess \in Process
  BY MaxPidAssumption, MaxBornAssumption DEF InitProcess, Process, Frame, Incarnation, PDI
<1>2. \A p \in Pid : ptab[p] = Null \/ ptab[p] = InitProcess
  BY DEF Init
<1>3. TypeOK
  BY <1>1, MaxPidAssumption, MaxBornAssumption DEF Init, TypeOK, Frame, Incarnation, PDI
<1>4. cur_ctx = 0 /\ mt_enabled = 1 /\ cpu.at = "user"
  BY DEF Init
<1>5. \A p \in Pid : ptab[p] # Null =>
        /\ ptab[p].r.own = ptab[p].inc
        /\ ~ptab[p].wait
  BY <1>2 DEF InitProcess
<1> QED
  BY <1>3, <1>4, <1>5
  DEF IInv, Bootstrapped, WorkConserving, OwnContext, OwnAddressSpace,
      WaiterStoppedInCall, Alive

(* The process whose system call it is. *)
LEMMA UserModeFacts ==
  ASSUME IInv, InUserMode
  PROVE  /\ cur_ctx \in Pid /\ cur_ctx # 0
         /\ ptab[cur_ctx] # Null /\ ptab[cur_ctx] \in Process
         /\ Alive
         /\ Trap \in Frame /\ Trap.at = "sys" /\ Trap.own = ptab[cur_ctx].inc
         /\ esp0 = ptab[cur_ctx].inc
         /\ \A d \in ptab[cur_ctx].pt : pagedir[d] = ptab[cur_ctx].inc
<1>1. cur_ctx \in Pid
  BY MaxPidAssumption DEF IInv, TypeOK, InUserMode, Pid
<1>2. ptab[cur_ctx] \in Process
  BY <1>1 DEF IInv, TypeOK, InUserMode
<1>3. Trap \in Frame /\ Trap.at = "sys" /\ Trap.own = cpu.own
  BY MaxPidAssumption DEF IInv, TypeOK, Trap, Frame
<1> QED
  BY <1>1, <1>2, <1>3 DEF IInv, OwnContext, OwnAddressSpace, InUserMode, Alive

(* The timer interrupt: the table is not edited before the switch.         *)
LEMMA TickPreserves == ASSUME IInv, Tick PROVE IInv'
<1>1. SwitchReady(ptab, cpu, pagedir)
  BY DEF IInv, SwitchReady, TypeOK, OwnContext, OwnAddressSpace, WaiterStoppedInCall,
         WorkConserving, Bootstrapped, Alive, Runnable
<1>2. born' \in Incarnation
  BY DEF Tick, IInv, TypeOK
<1> QED
  BY <1>1, <1>2, SwitchEstablishes DEF Tick, IInv

(* The child of a fork. *)
LEMMA ChildFacts ==
  ASSUME IInv, InUserMode, born < MaxBorn
  PROVE  /\ Child(cur_ctx) \in Process /\ Child(cur_ctx) # Null
         /\ Child(cur_ctx).inc = born + 1 /\ born + 1 \in Incarnation
         /\ Child(cur_ctx).r.own = born + 1 /\ Child(cur_ctx).r.at = "sys"
         /\ ~Child(cur_ctx).wait /\ Child(cur_ctx).ppid = cur_ctx
<1>1. born + 1 \in Incarnation
  BY MaxBornAssumption DEF IInv, TypeOK, Incarnation
<1>2. Child(cur_ctx).r \in Frame /\ Child(cur_ctx).r.own = born + 1 /\ Child(cur_ctx).r.at = "sys"
  BY <1>1, UserModeFacts DEF Child, Frame, Incarnation
<1>3. ptab[cur_ctx].pt \cup {"stack", "temp"} \subseteq PDI
  BY UserModeFacts DEF Process, PDI
<1>4. Child(cur_ctx) \in Process
  BY <1>1, <1>2, <1>3, UserModeFacts, MaxPidAssumption DEF Child, Process, IInv, TypeOK
<1> QED
  BY <1>1, <1>2, <1>4, NullAssumption DEF Child

(* fork: the child it adds is well formed, and some process can run.       *)
LEMMA ForkPreserves == ASSUME IInv, SysFork PROVE IInv'
<1>1. InUserMode
  BY DEF SysFork
<1>2. PICK pid \in Pid : /\ FirstFree(pid)
                         /\ SwitchCtx([ptab EXCEPT ![pid] = Child(cur_ctx)], Trap,
                                      Install(pagedir, Child(cur_ctx)))
  BY DEF SysFork
<1> DEFINE child == Child(cur_ctx)
           tab == [ptab EXCEPT ![pid] = child]
           dir == Install(pagedir, child)
<1>3. born' \in Incarnation /\ born + 1 \in Incarnation
  BY MaxBornAssumption DEF SysFork, IInv, TypeOK, Incarnation
<1>4. /\ child \in Process /\ child # Null
      /\ child.r.own = child.inc /\ child.r.at = "sys" /\ ~child.wait
  BY <1>1, ChildFacts DEF SysFork
<1>5. pid # cur_ctx /\ tab[cur_ctx] = ptab[cur_ctx] /\ tab[pid] = child
  BY <1>1, <1>2, UserModeFacts DEF FirstFree, IInv, TypeOK
<1>6. tab \in [Pid -> Process \cup {Null}]
  BY <1>4 DEF IInv, TypeOK
<1>7. dir \in [PDI -> 0 .. MaxBorn]
  BY <1>3, <1>4, MaxBornAssumption DEF Install, Child, IInv, TypeOK, Incarnation
<1>8. pid \in Runnable(tab)
  BY <1>4, <1>5 DEF Runnable
<1>9. \A p \in Pid : p # pid => tab[p] = ptab[p]
  BY DEF IInv, TypeOK
<1>10. /\ \A p \in Pid : tab[p] # Null => tab[p].r.own = tab[p].inc
       /\ \A p \in Pid : tab[p] # Null /\ tab[p].wait /\ p # cur_ctx => tab[p].r.at = "sys"
  BY <1>4, <1>5, <1>9 DEF IInv, OwnContext, WaiterStoppedInCall
<1>11. SwitchReady(tab, Trap, dir)
  BY <1>1, <1>5, <1>6, <1>7, <1>8, <1>10, UserModeFacts DEF SwitchReady
<1> QED
  BY <1>2, <1>3, <1>11, SwitchEstablishes DEF IInv

(* waitpid marks a process that is stopped in this very call.              *)
LEMMA WaitpidPreserves == ASSUME IInv, SysWaitpid PROVE IInv'
<1> DEFINE tab == [ptab EXCEPT ![cur_ctx].wait = TRUE]
<1>1. InUserMode
  BY DEF SysWaitpid
<1>2. /\ tab[cur_ctx] = [ptab[cur_ctx] EXCEPT !.wait = TRUE]
      /\ \A p \in Pid : p # cur_ctx => tab[p] = ptab[p]
  BY <1>1, UserModeFacts DEF IInv, TypeOK
<1>3. /\ tab[cur_ctx] \in Process
      /\ tab[cur_ctx].inc = ptab[cur_ctx].inc
      /\ tab[cur_ctx].pt = ptab[cur_ctx].pt
      /\ tab[cur_ctx].r = ptab[cur_ctx].r
  <2> DEFINE proc == ptab[cur_ctx]
  <2>1. proc \in Process
    BY <1>1, UserModeFacts
  <2>2. /\ [proc EXCEPT !.wait = TRUE] \in Process
        /\ [proc EXCEPT !.wait = TRUE].inc = proc.inc
        /\ [proc EXCEPT !.wait = TRUE].pt = proc.pt
        /\ [proc EXCEPT !.wait = TRUE].r = proc.r
    BY <2>1 DEF Process
  <2> QED
    BY <1>2, <2>2
<1>4. tab \in [Pid -> Process \cup {Null}]
  BY <1>2, <1>3 DEF IInv, TypeOK
<1>5. /\ \A p \in Pid : tab[p] # Null => tab[p].r.own = tab[p].inc
      /\ \A p \in Pid : tab[p] # Null /\ tab[p].wait /\ p # cur_ctx => tab[p].r.at = "sys"
  BY <1>1, <1>2, <1>3, UserModeFacts DEF IInv, OwnContext, WaiterStoppedInCall
<1>6. SwitchReady(tab, Trap, pagedir)
  BY <1>1, <1>3, <1>4, <1>5, UserModeFacts DEF SwitchReady, IInv, TypeOK
<1>7. born' \in Incarnation
  BY DEF SysWaitpid, IInv, TypeOK
<1> QED
  BY <1>6, <1>7, SwitchEstablishes DEF SysWaitpid, IInv

(* clear_wait touches at most the flag and the ECX of one other slot. *)
LEMMA ClearWaitFacts ==
  ASSUME TypeOK, NEW proc \in Pid, ptab[proc] # Null
  PROVE  /\ ClearWait(ptab, proc) \in [Pid -> Process \cup {Null}]
         /\ \A p \in Pid :
              /\ ClearWait(ptab, proc)[p] = Null <=> ptab[p] = Null
              /\ ptab[p] # Null =>
                   /\ ClearWait(ptab, proc)[p].inc = ptab[p].inc
                   /\ ClearWait(ptab, proc)[p].pt = ptab[p].pt
                   /\ ClearWait(ptab, proc)[p].ppid = ptab[p].ppid
                   /\ p = ptab[proc].ppid => ~ClearWait(ptab, proc)[p].wait
                   /\ ClearWait(ptab, proc)[p].r.own = ptab[p].r.own
                   /\ ClearWait(ptab, proc)[p].r.at = ptab[p].r.at
                   /\ ClearWait(ptab, proc)[p].wait => ptab[p].wait
                   /\ ~ptab[p].wait => ClearWait(ptab, proc)[p].r = ptab[p].r
<1> DEFINE pp == ptab[proc].ppid
           ecx == IF ptab[pp].wait THEN proc ELSE ptab[pp].r.ecx
           woken == [ptab[pp] EXCEPT !.wait = FALSE, !.r = [ptab[pp].r EXCEPT !.ecx = ecx]]
<1>1. CASE pp = 0 \/ ptab[pp] = Null
  <2>1. ClearWait(ptab, proc) = ptab
    BY <1>1 DEF ClearWait
  <2>2. ptab \in [Pid -> Process \cup {Null}]
    BY DEF TypeOK
  <2>3. 0 \notin Pid
    BY DEF Pid
  <2>4. pp = ptab[proc].ppid
    OBVIOUS
  <2> HIDE DEF pp
  <2>5. \A p \in Pid : p = pp => ptab[p] = Null
    BY <1>1, <2>3
  <2> QED
    BY <2>1, <2>2, <2>4, <2>5
<1>2. CASE pp # 0 /\ ptab[pp] # Null
  <2>1. pp \in Pid /\ ptab[pp] \in Process
    <3>1. ptab[proc] \in Process
      BY DEF TypeOK
    <3>2. pp \in Pid
      BY <1>2, <3>1, MaxPidAssumption DEF Process, Pid
    <3> QED
      BY <1>2, <3>2 DEF TypeOK
  <2>2. ptab[pp].r \in Frame
    BY <2>1 DEF Process
  <2>3. ClearWait(ptab, proc) = [ptab EXCEPT ![pp] = woken]
    BY <1>2, <2>1, <2>2 DEF ClearWait, TypeOK, Process, Frame
  <2>4. ecx \in 0 .. MaxPid
    BY <2>2, MaxPidAssumption DEF Frame, Pid
  <2>5. [ptab[pp].r EXCEPT !.ecx = ecx] \in Frame
    BY <2>2, <2>4 DEF Frame
  <2>6. woken \in Process
    BY <2>1, <2>5 DEF Process
  <2>7. /\ woken.inc = ptab[pp].inc /\ woken.pt = ptab[pp].pt /\ ~woken.wait
        /\ woken.ppid = ptab[pp].ppid
        /\ woken.r.own = ptab[pp].r.own /\ woken.r.at = ptab[pp].r.at
        /\ ~ptab[pp].wait => woken.r = ptab[pp].r
    BY <2>1, <2>2 DEF Process, Frame
  <2>8. /\ ClearWait(ptab, proc)[pp] = woken
        /\ \A p \in Pid : p # pp => ClearWait(ptab, proc)[p] = ptab[p]
        /\ ClearWait(ptab, proc) \in [Pid -> Process \cup {Null}]
    BY <2>1, <2>3, <2>6 DEF TypeOK
  <2>9. woken # Null
    BY <2>6, NullAssumption
  <2>10. pp = ptab[proc].ppid
    OBVIOUS
  <2> HIDE DEF woken, pp
  <2> SUFFICES ASSUME NEW p \in Pid
               PROVE  /\ ClearWait(ptab, proc)[p] = Null <=> ptab[p] = Null
                      /\ ptab[p] # Null =>
                           /\ ClearWait(ptab, proc)[p].inc = ptab[p].inc
                           /\ ClearWait(ptab, proc)[p].pt = ptab[p].pt
                           /\ ClearWait(ptab, proc)[p].ppid = ptab[p].ppid
                           /\ p = pp => ~ClearWait(ptab, proc)[p].wait
                           /\ ClearWait(ptab, proc)[p].r.own = ptab[p].r.own
                           /\ ClearWait(ptab, proc)[p].r.at = ptab[p].r.at
                           /\ ClearWait(ptab, proc)[p].wait => ptab[p].wait
                           /\ ~ptab[p].wait => ClearWait(ptab, proc)[p].r = ptab[p].r
    BY <2>8, <2>10
  <2>11. CASE p = pp
    BY <1>2, <2>1, <2>7, <2>8, <2>9, <2>11
  <2>12. CASE p # pp
    BY <2>8, <2>12
  <2> QED
    BY <2>11, <2>12
<1> QED
  BY <1>1, <1>2

(* exit: clear_wait, then the slot is gone before the switch.              *)
LEMMA ExitPreserves == ASSUME IInv, SysExit PROVE IInv'
<1> DEFINE tab == [ClearWait(ptab, cur_ctx) EXCEPT ![cur_ctx] = Null]
<1>1. InUserMode
  BY DEF SysExit
<1>2. /\ tab \in [Pid -> Process \cup {Null}]
      /\ tab[cur_ctx] = Null
      /\ \A p \in Pid : p # cur_ctx => tab[p] = ClearWait(ptab, cur_ctx)[p]
  BY <1>1, UserModeFacts, ClearWaitFacts DEF IInv
<1>3. \A p \in Pid : tab[p] # Null =>
        /\ p # cur_ctx
        /\ ptab[p] # Null
        /\ tab[p].inc = ptab[p].inc
        /\ tab[p].r.own = ptab[p].r.own
        /\ tab[p].r.at = ptab[p].r.at
        /\ tab[p].wait => ptab[p].wait
  BY <1>1, <1>2, UserModeFacts, ClearWaitFacts DEF IInv
<1>4. SwitchReady(tab, Trap, pagedir)
  BY <1>1, <1>2, <1>3, UserModeFacts
  DEF SwitchReady, IInv, TypeOK, OwnContext, WaiterStoppedInCall
<1>5. born' \in Incarnation
  BY DEF SysExit, IInv, TypeOK
<1> QED
  BY <1>4, <1>5, SwitchEstablishes DEF SysExit, IInv

(* Entering and leaving the kernel moves nothing but the program itself. *)
LEMMA EnterReturnPreserve ==
  ASSUME IInv, (\E call \in {"read", "exec"} : SysEnter(call)) \/ SysReturn
  PROVE  IInv'
<1>1. /\ UNCHANGED <<ptab, cur_ctx, mt_enabled, esp0, pagedir, born>>
      /\ cpu' \in Frame /\ cpu'.at \in {"user", "read", "exec"} /\ cpu'.own = cpu.own
  <2>1. CASE \E call \in {"read", "exec"} : SysEnter(call)
    BY <2>1, MaxPidAssumption DEF SysEnter, Trap, IInv, TypeOK, Frame
  <2>2. CASE SysReturn
    BY <2>2 DEF SysReturn, IInv, TypeOK, Frame
  <2> QED
    BY <2>1, <2>2
<1>2. Alive
  BY DEF SysEnter, SysReturn, IInv, Bootstrapped, InUserMode, Alive
<1> QED
  BY <1>1, <1>2
  DEF IInv, TypeOK, Bootstrapped, WorkConserving, OwnContext, OwnAddressSpace,
      WaiterStoppedInCall, Alive, Runnable

(* execve adds a code table to the process and to the directory at once.   *)
LEMMA ExecLoadPreserves == ASSUME IInv, SysExecLoad PROVE IInv'
<1>1. Alive /\ cur_ctx \in Pid /\ ptab[cur_ctx] \in Process
  BY MaxPidAssumption DEF SysExecLoad, IInv, Bootstrapped, Alive, TypeOK, Pid
<1>2. /\ ptab' = [ptab EXCEPT ![cur_ctx] = [ptab[cur_ctx] EXCEPT !.pt = @ \cup {"code"}]]
      /\ pagedir' = [pagedir EXCEPT !["code"] = ptab[cur_ctx].inc]
      /\ cpu' = [cpu EXCEPT !.at = "user"]
      /\ UNCHANGED <<cur_ctx, mt_enabled, esp0, born>>
  BY DEF SysExecLoad
<1>3. /\ ptab'[cur_ctx] \in Process /\ ptab'[cur_ctx] # Null
      /\ ptab'[cur_ctx].inc = ptab[cur_ctx].inc
      /\ ptab'[cur_ctx].r = ptab[cur_ctx].r
      /\ ptab'[cur_ctx].wait = ptab[cur_ctx].wait
      /\ ptab'[cur_ctx].pt = ptab[cur_ctx].pt \cup {"code"}
  BY <1>1, <1>2, NullAssumption DEF Process, PDI, IInv, TypeOK
<1>4. \A p \in Pid : p # cur_ctx => ptab'[p] = ptab[p]
  BY <1>1, <1>2 DEF IInv, TypeOK
<1>5. cpu' \in Frame /\ cpu'.at = "user" /\ cpu'.own = cpu.own
  BY <1>2 DEF IInv, TypeOK, Frame
<1>6. TypeOK'
  <2>1. ptab' \in [Pid -> Process \cup {Null}]
    BY <1>2, <1>3, <1>4 DEF IInv, TypeOK
  <2>2. pagedir' \in [PDI -> 0 .. MaxBorn]
    <3>1. ptab[cur_ctx].inc \in 0 .. MaxBorn
      BY <1>1, MaxBornAssumption DEF Process, Incarnation
    <3>2. pagedir \in [PDI -> 0 .. MaxBorn]
      BY DEF IInv, TypeOK
    <3> QED
      BY <1>2, <3>1, <3>2
  <2> QED
    BY <1>2, <1>5, <2>1, <2>2 DEF IInv, TypeOK
<1>7. Runnable(ptab') = Runnable(ptab)
  BY <1>1, <1>3, <1>4 DEF Runnable, Alive
<1>8. OwnAddressSpace'
  BY <1>1, <1>2, <1>3 DEF OwnAddressSpace, IInv, TypeOK, Process
<1>9. Alive'
  BY <1>1, <1>2, <1>3 DEF Alive
<1>10. OwnContext' /\ WaiterStoppedInCall'
  BY <1>1, <1>2, <1>3, <1>4, <1>5 DEF OwnContext, WaiterStoppedInCall, IInv, Alive
<1>11. WorkConserving' /\ Bootstrapped'
  BY <1>2, <1>5, <1>7, <1>9 DEF WorkConserving, Bootstrapped, IInv
<1> QED
  BY <1>6, <1>8, <1>10, <1>11 DEF IInv

(* Every step preserves the invariant. *)
LEMMA NextPreserves == IInv /\ [Next]_vars => IInv'
<1> SUFFICES ASSUME IInv, [Next]_vars PROVE IInv'
  OBVIOUS
<1>1. CASE Next
  BY <1>1, TickPreserves, ForkPreserves, WaitpidPreserves, ExitPreserves,
     EnterReturnPreserve, ExecLoadPreserves DEF Next
<1>2. CASE UNCHANGED vars
  BY <1>2 DEF vars, IInv, TypeOK, Bootstrapped, WorkConserving, OwnContext,
              OwnAddressSpace, WaiterStoppedInCall, Alive, Runnable
<1> QED
  BY <1>1, <1>2

(* The invariant holds in every state the kernel reaches. *)
THEOREM Invariance == Spec => []IInv
BY InitEstablishes, NextPreserves, PTL DEF Spec

(* Type correctness of the process table and the CPU state. *)
THEOREM TypeCorrect == Spec => []TypeOK
<1>1. IInv => TypeOK
  BY DEF IInv
<1> QED
  BY <1>1, Invariance, PTL

(* switch_ctx never leaves the CPU with a process that waits or is gone    *)
(* while another one can run.                                              *)
THEOREM SchedulerWorkConserving == Spec => []WorkConserving
<1>1. IInv => WorkConserving
  BY DEF IInv
<1> QED
  BY <1>1, Invariance, PTL

(* Registers and kernel stack always are those of the process of cur_ctx,  *)
(* and every saved frame is its slot's own.                                *)
THEOREM ContextsNeverMix == Spec => []OwnContext
<1>1. IInv => OwnContext
  BY DEF IInv
<1> QED
  BY <1>1, Invariance, PTL

(* The running process always sees its own pages, although fork leaves the *)
(* child's tables in the page directory and switch_ctx skips the reload    *)
(* when it comes back to the same process.                                 *)
THEOREM AddressSpacesNeverMix == Spec => []OwnAddressSpace
<1>1. IInv => OwnAddressSpace
  BY DEF IInv
<1> QED
  BY <1>1, Invariance, PTL

(* clear_wait only ever writes into a frame stopped at a system call. *)
THEOREM WaitersAreStoppedInCalls == Spec => []WaiterStoppedInCall
<1>1. IInv => WaiterStoppedInCall
  BY DEF IInv
<1> QED
  BY <1>1, Invariance, PTL

-----------------------------------------------------------------------------
(* No handler edits the slot of a runnable process that is off the CPU, so *)
(* that switch_ctx, which saves into slot cur_ctx alone, leaves its frame. *)
LEMMA SwitchKeepsFrames ==
  ASSUME TypeOK, Bootstrapped,
         NEW tab \in [Pid -> Process \cup {Null}], NEW r \in Frame, NEW dir,
         \A p \in Runnable(ptab) : p # cur_ctx => tab[p] # Null /\ tab[p].r = ptab[p].r,
         SwitchCtx(tab, r, dir)
  PROVE  SavedFramesKept
<1>1. ptab' = Save(tab, r)
  BY DEF SwitchCtx
<1> QED
  BY <1>1, SaveFacts DEF SavedFramesKept, Runnable

(* No handler writes a runnable process's frame behind its back.           *)
LEMMA NextKeepsFrames == IInv /\ Next => SavedFramesKept
<1> SUFFICES ASSUME IInv, Next PROVE SavedFramesKept
  OBVIOUS
<1> USE DEF IInv
<1>1. CASE Tick
  <2>1. ptab \in [Pid -> Process \cup {Null}] /\ cpu \in Frame
    BY DEF TypeOK
  <2> QED
    BY <1>1, <2>1, SwitchKeepsFrames DEF Tick, Runnable
<1>2. CASE SysFork
  <2>1. PICK pid \in Pid : /\ FirstFree(pid)
                           /\ SwitchCtx([ptab EXCEPT ![pid] = Child(cur_ctx)], Trap,
                                        Install(pagedir, Child(cur_ctx)))
    BY <1>2 DEF SysFork
  <2>2. InUserMode
    BY <1>2 DEF SysFork
  <2>3. Child(cur_ctx) \in Process
    <3>1. born + 1 \in Incarnation
      BY <1>2, MaxBornAssumption DEF SysFork, TypeOK, Incarnation
    <3>2. [Trap EXCEPT !.own = born + 1] \in Frame
      BY <2>2, <3>1, UserModeFacts, MaxBornAssumption DEF Frame, Incarnation
    <3>3. ptab[cur_ctx].pt \cup {"stack", "temp"} \subseteq PDI
      BY <2>2, UserModeFacts DEF Process, PDI
    <3> QED
      BY <3>1, <3>2, <3>3 DEF Child, Process, TypeOK
  <2>4. [ptab EXCEPT ![pid] = Child(cur_ctx)] \in [Pid -> Process \cup {Null}]
    BY <2>3 DEF TypeOK
  <2>5. \A p \in Runnable(ptab) : [ptab EXCEPT ![pid] = Child(cur_ctx)][p] = ptab[p]
    BY <2>1 DEF FirstFree, Runnable, TypeOK
  <2> QED
    BY <2>1, <2>2, <2>4, <2>5, UserModeFacts, SwitchKeepsFrames DEF Runnable
<1>3. CASE SysWaitpid
  <2>1. InUserMode
    BY <1>3 DEF SysWaitpid
  <2>2. [ptab[cur_ctx] EXCEPT !.wait = TRUE] \in Process
    BY <2>1, UserModeFacts DEF Process
  <2>3. [ptab EXCEPT ![cur_ctx].wait = TRUE] \in [Pid -> Process \cup {Null}]
    BY <2>1, <2>2, UserModeFacts DEF TypeOK
  <2>4. \A p \in Runnable(ptab) : p # cur_ctx => [ptab EXCEPT ![cur_ctx].wait = TRUE][p] = ptab[p]
    BY DEF Runnable, TypeOK
  <2> QED
    BY <1>3, <2>1, <2>3, <2>4, UserModeFacts, SwitchKeepsFrames DEF SysWaitpid, Runnable
<1>4. CASE SysExit
  <2> DEFINE tab == [ClearWait(ptab, cur_ctx) EXCEPT ![cur_ctx] = Null]
  <2>1. InUserMode
    BY <1>4 DEF SysExit
  <2>2. tab \in [Pid -> Process \cup {Null}]
    BY <2>1, UserModeFacts, ClearWaitFacts
  <2>3. \A p \in Runnable(ptab) : p # cur_ctx => tab[p] # Null /\ tab[p].r = ptab[p].r
    BY <2>1, UserModeFacts, ClearWaitFacts DEF Runnable
  <2> QED
    BY <1>4, <2>1, <2>2, <2>3, UserModeFacts, SwitchKeepsFrames DEF SysExit
<1>5. CASE (\E call \in {"read", "exec"} : SysEnter(call)) \/ SysReturn
  BY <1>5 DEF SysEnter, SysReturn, SavedFramesKept, Runnable
<1>6. CASE SysExecLoad
  <2>1. cur_ctx \in Pid
    BY <1>6, MaxPidAssumption DEF SysExecLoad, Bootstrapped, Alive, TypeOK, Pid
  <2>2. \A p \in Pid : p # cur_ctx => ptab'[p] = ptab[p]
    BY <1>6, <2>1 DEF SysExecLoad, TypeOK
  <2> QED
    BY <2>2 DEF SavedFramesKept, Runnable
<1> QED
  BY <1>1, <1>2, <1>3, <1>4, <1>5, <1>6 DEF Next

(* What a process is preempted with is what it resumes with. *)
THEOREM SavedFramesStable == Spec => SavedFrameStable
<1>1. IInv /\ [Next]_vars => [SavedFramesKept]_vars
  BY NextKeepsFrames
<1> QED
  BY <1>1, Invariance, PTL DEF Spec, SavedFrameStable

-----------------------------------------------------------------------------
(* One switch is one dispatch of the abstract scheduler. *)
LEMMA SwitchDispatches ==
  ASSUME TypeOK, Bootstrapped,
         NEW tab \in [Pid -> Process \cup {Null}], NEW r \in Frame, NEW dir,
         ~Alive => cur_ctx = 0 \/ tab[cur_ctx] = Null,
         SwitchCtx(tab, r, dir)
  PROVE  /\ Sched!Dispatch(Runnable(tab), Waiting(tab), Pid)
         /\ Alive /\ (\E q \in Runnable(tab) : q # cur_ctx)
              => Sched!Dispatch(Runnable(tab), Waiting(tab), Pid \ {Running})
<1> DEFINE saved == Save(tab, r)
<1>1. ptab' = saved
  BY DEF SwitchCtx
<1>2. /\ Runnable(saved) = Runnable(tab)
      /\ \A p \in Pid : /\ saved[p] = Null <=> tab[p] = Null
                        /\ tab[p] # Null => saved[p].wait = tab[p].wait
  BY SaveFacts
<1>3. Waiting(saved) = Waiting(tab)
  BY <1>2 DEF Waiting
<1>4. CASE /\ Runnable(saved) = {}
           /\ UNCHANGED <<cur_ctx, esp0, mt_enabled>>
  <2>1. CASE Alive /\ tab[cur_ctx] # Null
    <3>1. cur_ctx \in Pid
      BY <2>1, MaxPidAssumption DEF Alive, TypeOK, Pid
    <3>2. Running = cur_ctx /\ Running' = cur_ctx
      BY <1>1, <1>2, <1>4, <2>1, <3>1 DEF Running, Alive
    <3>3. cur_ctx \in Waiting(tab)
      BY <1>2, <1>4, <2>1, <3>1 DEF Runnable, Waiting
    <3> QED
      BY <1>1, <1>2, <1>3, <1>4, <3>2, <3>3 DEF Sched!Dispatch
  <2>2. CASE ~(Alive /\ tab[cur_ctx] # Null)
    <3>1. cur_ctx = 0 \/ (cur_ctx \in Pid /\ tab[cur_ctx] = Null)
      BY <2>2, MaxPidAssumption DEF Alive, TypeOK, Pid
    <3>2. Running' = 0
      BY <1>1, <1>2, <1>4, <3>1 DEF Running, Alive
    <3>3. Running \notin Waiting(tab)
      BY <3>1 DEF Running, Alive, Waiting, Pid
    <3> QED
      BY <1>1, <1>2, <1>3, <1>4, <3>2, <3>3 DEF Sched!Dispatch
  <2> QED
    BY <2>1, <2>2
<1>5. ASSUME NEW i \in Pid, IsNext(saved, i), cur_ctx' = i
      PROVE  /\ Sched!Dispatch(Runnable(tab), Waiting(tab), Pid)
             /\ Alive /\ (\E q \in Runnable(tab) : q # cur_ctx)
                  => Sched!Dispatch(Runnable(tab), Waiting(tab), Pid \ {Running})
  <2>1. i \in Runnable(tab)
    BY <1>2, <1>5 DEF IsNext
  <2>2. Running' = i
    BY <1>1, <1>2, <1>5, <2>1 DEF Running, Alive, Runnable, Pid
  <2>3. Alive /\ (\E q \in Runnable(tab) : q # cur_ctx) => i \in Pid \ {Running}
    BY <1>2, <1>5 DEF IsNext, Runnable, Pid, Running
  <2> QED
    BY <1>1, <1>2, <1>3, <2>1, <2>2, <2>3 DEF Sched!Dispatch
<1> QED
  BY <1>4, <1>5 DEF SwitchCtx

(* clear_wait wakes one process at most. *)
LEMMA ClearWaitOnlyParent ==
  ASSUME TypeOK, NEW proc \in Pid
  PROVE  \A p \in Pid : p # ptab[proc].ppid => ClearWait(ptab, proc)[p] = ptab[p]
BY DEF ClearWait, TypeOK

(* At boot one process is ready, none is blocked and none is running.      *)
LEMMA InitSimulates == Init => Sched!Init
<1> SUFFICES ASSUME Init PROVE Sched!Init
  OBVIOUS
<1>1. 1 \in Pid
  BY MaxPidAssumption DEF Pid
<1>2. ptab[1] = InitProcess /\ \A p \in Pid : p # 1 => ptab[p] = Null
  BY <1>1 DEF Init
<1>3. InitProcess # Null
  <2>1. InitProcess \in Process
    BY MaxPidAssumption, MaxBornAssumption DEF InitProcess, Process, Frame, Incarnation, PDI
  <2> QED
    BY <2>1, NullAssumption
<1>4. ~InitProcess.wait
  BY DEF InitProcess
<1>5. Runnable(ptab) = {1} /\ Waiting(ptab) = {}
  BY <1>1, <1>2, <1>3, <1>4 DEF Runnable, Waiting
<1>6. Running = 0
  BY DEF Init, Running, Alive
<1> QED
  BY <1>1, <1>5, <1>6 DEF Sched!Init

(* Every step of the kernel is a step of the abstract scheduler or none. *)
LEMMA StepSimulates == IInv /\ [Next]_vars => [Sched!Next]_(Sched!sched)
<1> SUFFICES ASSUME IInv, [Next]_vars PROVE [Sched!Next]_(Sched!sched)
  OBVIOUS
<1> USE DEF IInv
<1>1. CASE Tick
  <2>1. ptab \in [Pid -> Process \cup {Null}] /\ cpu \in Frame
    BY DEF TypeOK
  <2>2. Sched!Dispatch(Runnable(ptab), Waiting(ptab), Pid)
    BY <1>1, <2>1, SwitchDispatches DEF Tick, Alive
  <2> QED
    BY <2>2 DEF Sched!Next, Sched!Preempt
<1>2. CASE SysFork
  <2>1. InUserMode
    BY <1>2 DEF SysFork
  <2>2. PICK pid \in Pid : /\ FirstFree(pid)
                           /\ SwitchCtx([ptab EXCEPT ![pid] = Child(cur_ctx)], Trap,
                                        Install(pagedir, Child(cur_ctx)))
    BY <1>2 DEF SysFork
  <2> DEFINE tab == [ptab EXCEPT ![pid] = Child(cur_ctx)]
  <2>3. Child(cur_ctx) \in Process /\ ~Child(cur_ctx).wait
    BY <1>2, <2>1, ChildFacts DEF SysFork
  <2>4. /\ tab \in [Pid -> Process \cup {Null}]
        /\ tab[pid] = Child(cur_ctx)
        /\ \A p \in Pid : p # pid => tab[p] = ptab[p]
    BY <2>3 DEF TypeOK
  <2>5. pid \notin Runnable(ptab) \cup Waiting(ptab) /\ pid # cur_ctx
    BY <2>1, <2>2, UserModeFacts DEF FirstFree, Runnable, Waiting
  <2>6. Runnable(tab) = Runnable(ptab) \cup {pid} /\ Waiting(tab) = Waiting(ptab)
    BY <2>3, <2>4, <2>5, NullAssumption DEF Runnable, Waiting
  <2>7. Running = cur_ctx /\ Running # 0 /\ Alive
    BY <2>1, UserModeFacts DEF Running
  <2>8. pid \in Runnable(tab)
    BY <2>6
  <2>9. Sched!Dispatch(Runnable(tab), Waiting(tab), Pid \ {Running})
    BY <2>1, <2>2, <2>4, <2>5, <2>7, <2>8, UserModeFacts, SwitchDispatches
  <2> QED
    BY <2>5, <2>6, <2>7, <2>9 DEF Sched!Next, Sched!Spawn
<1>3. CASE SysWaitpid
  <2> DEFINE tab == [ptab EXCEPT ![cur_ctx].wait = TRUE]
             marked == [ptab[cur_ctx] EXCEPT !.wait = TRUE]
  <2>1. InUserMode
    BY <1>3 DEF SysWaitpid
  <2>2. marked \in Process /\ marked.wait
    BY <2>1, UserModeFacts DEF Process
  <2>3. /\ tab \in [Pid -> Process \cup {Null}]
        /\ tab[cur_ctx] = marked
        /\ \A p \in Pid : p # cur_ctx => tab[p] = ptab[p]
    BY <2>1, <2>2, UserModeFacts DEF TypeOK
  <2>4. Running = cur_ctx /\ Running # 0 /\ Alive /\ cur_ctx \in Pid
    BY <2>1, UserModeFacts DEF Running
  <2>5. /\ Runnable(tab) = Runnable(ptab) \ {Running}
        /\ Waiting(tab) = Waiting(ptab) \cup {Running}
    BY <2>2, <2>3, <2>4, NullAssumption DEF Runnable, Waiting
  <2>6. Sched!Dispatch(Runnable(tab), Waiting(tab), Pid)
    BY <1>3, <2>1, <2>3, <2>4, UserModeFacts, SwitchDispatches DEF SysWaitpid
  <2> QED
    BY <2>4, <2>5, <2>6 DEF Sched!Next, Sched!Block
<1>4. CASE SysExit
  <2> DEFINE cleared == ClearWait(ptab, cur_ctx)
             tab == [cleared EXCEPT ![cur_ctx] = Null]
             woken == {p \in Waiting(ptab) \ {Running} : ~cleared[p].wait}
  <2>1. InUserMode
    BY <1>4 DEF SysExit
  <2>2. Running = cur_ctx /\ Running # 0 /\ Alive /\ cur_ctx \in Pid
    BY <2>1, UserModeFacts DEF Running
  <2>3. /\ tab \in [Pid -> Process \cup {Null}]
        /\ tab[cur_ctx] = Null
        /\ \A p \in Pid : p # cur_ctx => tab[p] = cleared[p]
    BY <2>1, UserModeFacts, ClearWaitFacts
  <2>4. \A p \in Pid : /\ cleared[p] = Null <=> ptab[p] = Null
                       /\ ptab[p] # Null /\ cleared[p].wait => ptab[p].wait
    BY <2>1, UserModeFacts, ClearWaitFacts
  <2>5. \A p, q \in woken : p = q
    BY <2>1, UserModeFacts, ClearWaitOnlyParent DEF Waiting
  <2>6. /\ Runnable(tab) = (Runnable(ptab) \ {Running}) \cup woken
        /\ Waiting(tab) = Waiting(ptab) \ ({Running} \cup woken)
    BY <2>2, <2>3, <2>4 DEF Runnable, Waiting
  <2>7. Sched!Dispatch(Runnable(tab), Waiting(tab), Pid)
    BY <1>4, <2>1, <2>2, <2>3, UserModeFacts, SwitchDispatches DEF SysExit
  <2>8. woken \in SUBSET (Waiting(ptab) \ {Running})
    OBVIOUS
  <2> HIDE DEF woken, tab
  <2> QED
    BY <2>2, <2>5, <2>6, <2>7, <2>8 DEF Sched!Next, Sched!End
<1>5. CASE (\E call \in {"read", "exec"} : SysEnter(call)) \/ SysReturn \/ UNCHANGED vars
  <2>1. UNCHANGED <<ptab, cur_ctx>>
    BY <1>5 DEF SysEnter, SysReturn, vars
  <2> QED
    BY <2>1 DEF Sched!sched, Runnable, Waiting, Running, Alive
<1>6. CASE SysExecLoad
  <2>1. Alive /\ cur_ctx \in Pid /\ ptab[cur_ctx] \in Process
    BY <1>6, MaxPidAssumption DEF SysExecLoad, Bootstrapped, Alive, TypeOK, Pid
  <2> DEFINE loaded == [ptab[cur_ctx] EXCEPT !.pt = @ \cup {"code"}]
  <2>2. loaded \in Process /\ loaded.wait = ptab[cur_ctx].wait
    BY <2>1 DEF Process, PDI
  <2>3. /\ ptab'[cur_ctx] = loaded
        /\ \A p \in Pid : p # cur_ctx => ptab'[p] = ptab[p]
        /\ cur_ctx' = cur_ctx
    BY <1>6, <2>1 DEF SysExecLoad, TypeOK
  <2>4. \A p \in Pid : /\ ptab'[p] = Null <=> ptab[p] = Null
                       /\ ptab[p] # Null => ptab'[p].wait = ptab[p].wait
    BY <2>1, <2>2, <2>3, NullAssumption DEF Alive
  <2>5. /\ Runnable(ptab') = Runnable(ptab)
        /\ Waiting(ptab') = Waiting(ptab)
        /\ Alive'
    BY <2>1, <2>3, <2>4 DEF Runnable, Waiting, Alive
  <2> QED
    BY <2>1, <2>3, <2>5 DEF Sched!sched, Running
<1> QED
  BY <1>1, <1>2, <1>3, <1>4, <1>5, <1>6 DEF Next

(* The kernel's process management implements the abstract scheduler. *)
THEOREM KernelImplementsSched == Spec => ImplementsSched
BY InitSimulates, StepSimulates, Invariance, PTL DEF Spec, ImplementsSched, Sched!Spec
=============================================================================
