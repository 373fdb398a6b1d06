------------------------------- MODULE Frames -------------------------------
(***************************************************************************)
(* The memory of processes: the page tables and the frame bitmap of        *)
(* src/paging.c, and what fork, exit (src/mt.c), execve and brk            *)
(* (src/syscall.c) do with them.  A program reaches memory through the     *)
(* page directory, and so does the kernel when it copies pages for fork.   *)
(*                                                                         *)
(* fork runs to its end with interrupts off; its steps are actions here    *)
(* because the copy is taken page by page through tables that change under *)
(* it.  Everything else is one action.                                     *)
(*                                                                         *)
(* Frame 0 stands for every frame the kernel maps for itself.  An entry    *)
(* that says frame 0 counts as unmapped (get_mapping), also where the      *)
(* bitmap, which a brk can make say that frame 0 is free, has granted it.  *)
(***************************************************************************)
EXTENDS Integers, FiniteSets

CONSTANTS
  MaxPid,      \* slots of ptab in use
  NFrames,     \* frames between the kernel's and its heap: 8192 in the code
  MaxSlot,     \* last slot of a page table: 1023 in the code
  PAGE,        \* addresses in a page: 4096
  StackPages,  \* pages of the stack: 16
  HeapPages,   \* pages of the heap of a new process: 16
  CodePages,   \* bound on the pages of a program
  Value,       \* what a page can hold
  Null

ASSUME SizesAssumption ==
  /\ MaxPid \in Nat \ {0} /\ NFrames \in Nat /\ MaxSlot \in Nat /\ PAGE \in Nat \ {0, 1}
  /\ StackPages \in Nat \ {0} /\ HeapPages \in Nat /\ CodePages \in Nat \ {0}
  /\ StackPages + HeapPages <= MaxSlot /\ CodePages <= MaxSlot + 1
  /\ StackPages + HeapPages + 1 <= NFrames

Pid == 1 .. MaxPid
Slot == 0 .. MaxSlot
Frame == 0 .. NFrames

(* The page tables of a process, named by what their part of the address   *)
(* space is for, in the order of its list: directory entries 48, 12, 32.   *)
Stack == 1
Temp  == 2
Code  == 3
Table == {Stack, Temp, Code}

Page == Table \X Slot

(* Page 0x3000, where fork sees the frame it copies into. *)
Window == <<Temp, 0>>

(* The entries of the tables a process holds; what it does not hold is 0. *)
Entries == [held : SUBSET Table, map : [Page -> Frame]]

Break == 0 .. (MaxSlot + 1) * PAGE - 1

(* fork in progress: the child, the table of the parent being copied (0    *)
(* before the first), and its slots still to copy.                         *)
Copying == [child : Pid, table : Table \cup {0}, left : SUBSET Slot]

ASSUME NullAssumption ==
  /\ Null \notin Entries \cup Copying
  /\ \A pages \in SUBSET Page : Null \notin [pages -> Value]

VARIABLES
  pt,       \* the page tables of each process; Null for a free slot
  brk,      \* the break of each process
  cur_ctx,  \* the process on the CPU
  pagedir,  \* whose table each directory entry points at; 0 for none
  marked,   \* the frames the bitmap says are taken
  mem,      \* what each frame holds
  copying,  \* fork in progress, or Null
  strays    \* history: how many brks so far were not Tame

vars == <<pt, brk, cur_ctx, pagedir, marked, mem, copying, strays>>

Alive == {p \in Pid : pt[p] # Null}

Mapped(p) == {x \in Page : pt[p].map[x] # 0}

StackSlots == 0 .. StackPages + HeapPages - 1

(* PROCESS_BRK_INITIAL and the break of a new process lie inside a page,   *)
(* the latter in one that new_process has not mapped.                      *)
HeapStart == StackPages * PAGE + 1
FirstBreak == (StackPages + HeapPages) * PAGE + 1

(* get_page_block, once for each slot in ascending order: the lowest       *)
(* frames that are not marked.                                             *)
IsGrant(fresh, slots) ==
  /\ \A s \in slots : fresh[s] \notin marked
  /\ \A r, s \in slots : r < s => fresh[r] < fresh[s]
  /\ \A s \in slots, f \in Frame \ marked :
       f < fresh[s] => \E r \in slots : r < s /\ fresh[r] = f

Granted(fresh, slots) == {fresh[s] : s \in slots}

(* nonid_page, for the slots of one table: new entries, whatever there was. *)
MapFresh(entries, t, fresh, slots) ==
  [held |-> entries.held \cup {t},
   map |-> [x \in Page |-> IF x[1] = t /\ x[2] \in slots THEN fresh[x[2]] ELSE entries.map[x]]]

NoEntries == [held |-> {}, map |-> [x \in Page |-> 0]]

(* update_page_table: every table that is held is registered. *)
Register(dir, p, held) == [t \in Table |-> IF t \in held THEN p ELSE dir[t]]

(* What an access finds: through the directory, as the processor does it. *)
Translate(tab, dir, x) == tab[dir[x[1]]].map[x]

(***************************************************************************)
(* init is process 1 and has been switched to.                             *)
(***************************************************************************)
Init ==
  /\ \E v \in Value : mem = [f \in Frame |-> v]
  /\ cur_ctx = 1
  /\ pagedir = [t \in Table |-> IF t = Temp THEN 0 ELSE 1]
  /\ brk = [p \in Pid |-> FirstBreak]
  /\ marked = 0 .. StackPages + HeapPages + 1
  /\ pt = [p \in Pid |-> IF p # 1 THEN Null ELSE
             [held |-> {Stack, Code},
              map |-> [x \in Page |->
                        IF x[1] = Stack /\ x[2] \in StackSlots THEN x[2] + 1
                        ELSE IF x = <<Code, 0>> THEN StackPages + HeapPages + 1
                        ELSE 0]]]
  /\ copying = Null
  /\ strays = 0

Running == copying = Null

(* The program stores into a page it has. *)
Store ==
  /\ Running
  /\ \E x \in Mapped(cur_ctx), v \in Value :
       mem' = [mem EXCEPT ![Translate(pt, pagedir, x)] = v]
  /\ UNCHANGED <<pt, brk, cur_ctx, pagedir, marked, copying, strays>>

(* The scheduler gives the CPU to another process: swap_page_table. *)
Switch ==
  /\ Running
  /\ \E i \in Alive \ {cur_ctx} :
       /\ cur_ctx' = i
       /\ pagedir' = Register(pagedir, i, pt[i].held)
  /\ UNCHANGED <<pt, brk, marked, mem, copying, strays>>

(* Slots the two loops of usys_brk visit. *)
Ceil(n) == (n + PAGE - 1) \div PAGE

(* The call of nonid_page behind the loop is forgotten. *)
BadSlotsToGrow(from, to) ==
  {(from + PAGE * i) \div PAGE : i \in {j \in 0 .. Ceil(to - from) : j * PAGE < to - from}}

SlotsToGrow(from, to) == {(from + PAGE * i) \div PAGE : i \in 0 .. Ceil(to - from)}

SlotsToShrink(from, to) == {(from - PAGE * i) \div PAGE : i \in 0 .. Ceil(from - to) - 1}

(* brk upwards: the pages on the way, and one more, unless they are mapped. *)
SysBrkGrow ==
  /\ Running
  /\ \E to \in Break :
       /\ to >= brk[cur_ctx]
       /\ SlotsToGrow(brk[cur_ctx], to) \subseteq Slot
       /\ LET slots == {s \in SlotsToGrow(brk[cur_ctx], to) : pt[cur_ctx].map[<<Stack, s>>] = 0}
          IN  \E fresh \in [slots -> Frame] :
                /\ IsGrant(fresh, slots)
                /\ pt' = [pt EXCEPT ![cur_ctx] = MapFresh(@, Stack, fresh, slots)]
                /\ marked' = marked \cup Granted(fresh, slots)
                /\ pagedir' = IF slots = {} THEN pagedir ELSE [pagedir EXCEPT ![Stack] = cur_ctx]
       /\ brk' = [brk EXCEPT ![cur_ctx] = to]
  /\ UNCHANGED <<cur_ctx, mem, copying, strays>>

(* The bitmap is cleared and the entry is not. *)
BadUnmap(entries, slots) == entries

(* unmap_page.  The stack's table is never the last of the list, where     *)
(* unmap_page would do nothing.                                            *)
Unmap(entries, slots) ==
  [entries EXCEPT !.map = [x \in Page |-> IF x[1] = Stack /\ x[2] \in slots THEN 0 ELSE @[x]]]

(* Programs are meant to give back pages they have, and that lie above the *)
(* new break.  Nothing in usys_brk tests for it.                           *)
Tame(to, slots) == \A s \in slots : <<Stack, s>> \in Mapped(cur_ctx) /\ to <= s * PAGE

(* brk downwards, from the page of the old break: every page on the way    *)
(* goes whole, the part of it below the new break too, and of a page that  *)
(* is not mapped unmap_page clears the mark of frame 0.                    *)
SysBrkShrink ==
  /\ Running
  /\ \E to \in Break :
       /\ HeapStart <= to /\ to < brk[cur_ctx]
       /\ LET slots == SlotsToShrink(brk[cur_ctx], to)
          IN  /\ pt' = [pt EXCEPT ![cur_ctx] = Unmap(@, slots)]
              /\ marked' = marked \ {pt[cur_ctx].map[<<Stack, s>>] : s \in slots}
              /\ strays' = IF Tame(to, slots) THEN strays ELSE strays + 1
       /\ brk' = [brk EXCEPT ![cur_ctx] = to]
  /\ UNCHANGED <<cur_ctx, pagedir, mem, copying>>

(* execve of a program with n pages, of which the first k come from the    *)
(* file: fresh frames take the place of what was mapped there, and the     *)
(* pages behind the file's keep what the frames held.                      *)
SysExecve ==
  /\ Running
  /\ \E n \in 1 .. CodePages, k \in 0 .. CodePages, v \in Value :
       /\ k <= n
       /\ \E fresh \in [0 .. n - 1 -> Frame] :
            /\ IsGrant(fresh, 0 .. n - 1)
            /\ pt' = [pt EXCEPT ![cur_ctx] = MapFresh(@, Code, fresh, 0 .. n - 1)]
            /\ marked' = marked \cup Granted(fresh, 0 .. n - 1)
            /\ mem' = [f \in Frame |-> IF f \in Granted(fresh, 0 .. k - 1) THEN v ELSE mem[f]]
  /\ pagedir' = [pagedir EXCEPT ![Code] = cur_ctx]
  /\ UNCHANGED <<brk, cur_ctx, copying, strays>>

(* proc_exit: the tables are freed, and no frame is.  The break is gone    *)
(* with the process: a slot in no use counts as having the first.  Whoever *)
(* is switched to has its own tables registered.                           *)
SysExit ==
  /\ Running
  /\ pt' = [pt EXCEPT ![cur_ctx] = Null]
  /\ brk' = [brk EXCEPT ![cur_ctx] = FirstBreak]
  /\ \E i \in Alive \ {cur_ctx} :
       /\ cur_ctx' = i
       /\ pagedir' = Register(pagedir, i, pt[i].held)
  /\ UNCHANGED <<marked, mem, copying, strays>>

(* There is a frame for every page fork maps: the code has no answer when  *)
(* there is none.                                                          *)
EnoughFrames ==
  Cardinality(Frame \ marked) >= StackPages + HeapPages + Cardinality(Mapped(cur_ctx))

(* fork calls new_process: a free slot, a first table, a stack and a heap. *)
ForkBegin ==
  /\ Running
  /\ EnoughFrames
  /\ \E pid \in Pid \ Alive :
       /\ \A q \in Pid \ Alive : pid <= q
       /\ copying' = [child |-> pid, table |-> 0, left |-> {}]
       /\ brk' = [brk EXCEPT ![pid] = FirstBreak]
       /\ \E fresh \in [StackSlots -> Frame] :
            /\ IsGrant(fresh, StackSlots)
            /\ pt' = [pt EXCEPT ![pid] = MapFresh(NoEntries, Stack, fresh, StackSlots)]
            /\ marked' = marked \cup Granted(fresh, StackSlots)
  /\ UNCHANGED <<cur_ctx, pagedir, mem, strays>>

(* The tables of the parent that fork has not come to yet. *)
TablesAhead == {t \in pt[cur_ctx].held : t > copying.table}

(* The child's table gets no header in its list. *)
BadShareTable(entries, t) ==
  [entries EXCEPT !.map = [x \in Page |-> IF x[1] = t THEN pt[cur_ctx].map[x] ELSE @[x]]]

(* mapped_page for every slot: the child's entries name the parent's frames. *)
ShareTable(entries, t) ==
  [held |-> entries.held \cup {t},
   map |-> [x \in Page |-> IF x[1] = t THEN pt[cur_ctx].map[x] ELSE entries.map[x]]]

(* The next table of the parent; the child's is registered over it.        *)
ForkTable ==
  /\ copying # Null
  /\ copying.left = {}
  /\ \E t \in TablesAhead :
       /\ \A u \in TablesAhead : t <= u
       /\ pt' = [pt EXCEPT ![copying.child] = ShareTable(@, t)]
       /\ pagedir' = [pagedir EXCEPT ![t] = copying.child]
       /\ marked' = marked \cup {pt[cur_ctx].map[<<t, s>>] : s \in Slot}
       /\ copying' = [copying EXCEPT !.table = t,
                        !.left = {s \in Slot : <<t, s>> \in Mapped(cur_ctx)}]
  /\ UNCHANGED <<brk, cur_ctx, mem, strays>>

(* memcpy with its arguments swapped. *)
BadCopyBack(tab, dir, x) ==
  [mem EXCEPT ![Translate(tab, dir, x)] = mem[Translate(tab, dir, Window)]]

(* The window is opened behind memcpy, which finds the kernel's frame there. *)
BadCopyClosed(tab, dir, x) == [mem EXCEPT ![0] = mem[Translate(tab, dir, x)]]

(* memcpy from the page at its own address to the window. *)
Copy(tab, dir, x) ==
  [mem EXCEPT ![Translate(tab, dir, Window)] = mem[Translate(tab, dir, x)]]

(* mapped_page *)
MapPage(entries, x, f) ==
  [held |-> entries.held \cup {x[1]}, map |-> [entries.map EXCEPT ![x] = f]]

(* The copy is never put in its place. *)
BadRemap(tab, c, x, f) == [tab EXCEPT ![c] = MapPage(@, Window, 0)]

(* The copy takes its place in the child's table, and leaves the window. *)
Remap(tab, c, x, f) == [tab EXCEPT ![c] = MapPage(MapPage(@, x, f), Window, 0)]

(* The next page of the table: a fresh frame, the lowest that is free, is  *)
(* mapped at the window and copied into.                                   *)
ForkPage ==
  /\ copying # Null
  /\ \E s \in copying.left, f \in Frame \ marked :
       /\ \A r \in copying.left : s <= r
       /\ \A g \in Frame \ marked : f <= g
       /\ LET c == copying.child
              x == <<copying.table, s>>
              opened == [pt EXCEPT ![c] = MapPage(@, Window, f)]
              dir == [pagedir EXCEPT ![Temp] = c]
          IN  /\ mem' = Copy(opened, dir, x)
              /\ pt' = Remap(opened, c, x, f)
              /\ pagedir' = Register(dir, c, opened[c].held)
       /\ marked' = marked \cup {f}
       /\ copying' = [copying EXCEPT !.left = @ \ {s}]
  /\ UNCHANGED <<brk, cur_ctx, strays>>

(* The child is ready, and the CPU goes to it or to another process.       *)
ForkEnd ==
  /\ copying # Null
  /\ copying.left = {}
  /\ TablesAhead = {}
  /\ \E i \in Alive \ {cur_ctx} :
       /\ cur_ctx' = i
       /\ pagedir' = Register(Register(pagedir, copying.child, pt[copying.child].held),
                              i, pt[i].held)
  /\ copying' = Null
  /\ UNCHANGED <<pt, brk, marked, mem, strays>>

Next ==
  \/ Store \/ Switch
  \/ SysBrkGrow \/ SysBrkShrink \/ SysExecve \/ SysExit
  \/ ForkBegin \/ ForkTable \/ ForkPage \/ ForkEnd

Spec == Init /\ [][Next]_vars

-----------------------------------------------------------------------------
FTypeOK ==
  /\ pt \in [Pid -> Entries \cup {Null}]
  /\ \A p \in Alive : \A x \in Mapped(p) : x[1] \in pt[p].held
  /\ brk \in [Pid -> Break]
  /\ cur_ctx \in Alive
  /\ pagedir \in [Table -> Pid \cup {0}]
  /\ marked \subseteq Frame
  /\ mem \in [Frame -> Value]
  /\ copying \in Copying \cup {Null}
  /\ strays \in Nat

(* A page of the child under construction that fork has not copied yet. *)
Shared(p, x) ==
  /\ copying # Null
  /\ p = copying.child
  /\ x[1] = copying.table /\ x[2] \in copying.left

(* Every frame has one owner: no two pages, of one process or of two, are  *)
(* in the same frame, except that a child's page is in its parent's frame  *)
(* until fork has copied it.                                               *)
OneOwner ==
  \A p, q \in Alive : \A x \in Mapped(p), y \in Mapped(q) :
    pt[p].map[x] = pt[q].map[y] /\ ~Shared(p, x) /\ ~Shared(q, y) => p = q /\ x = y

(* The bitmap never offers a frame that somebody's page is in, whatever    *)
(* was given back, copied, replaced or left behind by an exit.             *)
MappedMarked == \A p \in Alive : \A x \in Mapped(p) : pt[p].map[x] \in marked

(* As long as every brk has been tame, every address of the heap between   *)
(* the break a process is born with and its break is in a page of its own. *)
(* No more is true.  A brk that goes down inside a page takes the page     *)
(* away below the new break, and one that meets a page the process does    *)
(* not have frees frame 0, which the next grow, of any process, is given.  *)
(* And fork copies the pages of the heap and not the break, so the child   *)
(* of a parent that has given back some of its first pages counts them as  *)
(* its own, and its brk never asks for them.                               *)
HeapMapped ==
  strays = 0 =>
    \A p \in Alive : \A a \in FirstBreak .. brk[p] - 1 : <<Stack, a \div PAGE>> \in Mapped(p)

(* fork leaves its caller's memory alone, though it copies through tables  *)
(* that hide the caller's own.                                             *)
ParentKept ==
  copying # Null =>
    \A x \in Mapped(cur_ctx) :
       mem'[pt[cur_ctx].map[x]] = mem[pt[cur_ctx].map[x]] /\ pt'[cur_ctx] = pt[cur_ctx]

ForkLeavesParent == [][ParentKept]_vars

(* What a program sees of its memory.  A child has none until fork is done *)
(* with it.                                                                *)
Visible(p) == p \in Alive /\ ~(copying # Null /\ p = copying.child)

Space ==
  [p \in Pid |-> IF Visible(p) THEN [x \in Mapped(p) |-> mem[pt[p].map[x]]] ELSE Null]

Seen == INSTANCE AddressSpaces WITH
  CodePage <- {Code} \X Slot,
  space <- Space,
  running <- cur_ctx

ImplementsAddressSpaces == Seen!Spec

(* The window is closed between two pages, every process has a stack, and  *)
(* the running one has its tables registered.                              *)
TablesInPlace ==
  /\ \A p \in Alive : Stack \in pt[p].held /\ \A s \in Slot : pt[p].map[<<Temp, s>>] = 0
  /\ Running => \A t \in pt[cur_ctx].held : pagedir[t] = cur_ctx

(* How far fork has come: up to copying.table the child's pages hold what  *)
(* the parent's do, beyond it only the stack new_process gave it is mapped. *)
Copied(x) ==
  /\ pt[copying.child].map[x] = 0 <=> pt[cur_ctx].map[x] = 0
  /\ mem[pt[copying.child].map[x]] = mem[pt[cur_ctx].map[x]]

CopyProgress ==
  copying # Null =>
    /\ copying.child \in Alive /\ copying.child # cur_ctx
    /\ \A s \in copying.left : copying.table # 0 /\ <<copying.table, s>> \in Mapped(cur_ctx)
    /\ \A x \in Page : Shared(copying.child, x) =>
         pt[copying.child].map[x] = pt[cur_ctx].map[x]
    /\ \A x \in Page : x[1] <= copying.table => Copied(x)
    /\ \A x \in Page : x[1] > copying.table /\ x[1] # Stack => pt[copying.child].map[x] = 0
    /\ copying.table # 0 => pagedir[copying.table] = copying.child

(* The bitmap keeps frame 0 until a brk frees it, and by the time fork     *)
(* grants the frames it copies into, new_process has taken it again.       *)
KernelMarked == strays = 0 \/ copying # Null => 0 \in marked

(* The inductive invariant behind the ownership of frames and the          *)
(* refinement of AddressSpaces.                                            *)
FInv == FTypeOK /\ MappedMarked /\ OneOwner /\ TablesInPlace /\ CopyProgress /\ KernelMarked

=============================================================================
