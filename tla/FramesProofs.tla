---------------------------- MODULE FramesProofs ----------------------------
(***************************************************************************)
(* Proofs about Frames, for any number of processes, frames and pages.     *)
(***************************************************************************)
EXTENDS Frames, TLAPS

(* A page is a table and a slot of it. *)
LEMMA PageFacts ==
  /\ \A x \in Page : x[1] \in Table /\ x[2] \in Slot /\ x = <<x[1], x[2]>>
  /\ \A t \in Table, s \in Slot : <<t, s>> \in Page /\ <<t, s>>[1] = t /\ <<t, s>>[2] = s
  /\ Window \in Page
  /\ 0 \in Slot
BY SizesAssumption DEF Page, Window, Table, Temp, Slot

(* The sizes leave room for the break of a new process. *)
LEMMA FirstBreakFits == FirstBreak \in Break
<1> DEFINE pages == StackPages + HeapPages
<1>1. /\ pages \in Nat /\ MaxSlot \in Nat /\ pages <= MaxSlot /\ PAGE \in Nat /\ PAGE > 1
  BY SizesAssumption
<1>2. pages * PAGE \in Nat /\ (MaxSlot + 1) * PAGE \in Nat
  BY <1>1
<1>3. \E d \in Nat : MaxSlot = pages + d
  <2>1. MaxSlot - pages \in Nat /\ MaxSlot = pages + (MaxSlot - pages)
    BY <1>1
  <2> QED
    BY <2>1
<1>4. pages * PAGE + 1 <= (MaxSlot + 1) * PAGE - 1
  <2>1. PICK d \in Nat : MaxSlot = pages + d
    BY <1>3
  <2>2. d * PAGE \in Nat
    BY <1>1, <2>1
  <2>3. (pages + d + 1) * PAGE = pages * PAGE + d * PAGE + PAGE
    BY <1>1, <2>1
  <2> QED
    BY <1>1, <1>2, <2>1, <2>2, <2>3
<1> QED
  BY <1>1, <1>2, <1>4 DEF FirstBreak, Break

(* The arithmetic of brk. *)
LEMMA PageOf ==
  ASSUME NEW a \in Nat
  PROVE  a \div PAGE \in Int /\ PAGE * (a \div PAGE) <= a /\ a < PAGE * (a \div PAGE) + PAGE
BY SizesAssumption

LEMMA TimesPage == ASSUME NEW m \in Int, NEW n \in Int, m <= n PROVE PAGE * m <= PAGE * n
<1>1. PAGE * (n - m) \in Nat
  BY SizesAssumption
<1> QED
  BY <1>1, SizesAssumption

(* Numbers are in the order of their pages, and one page on is one more. *)
LEMMA PageOrder == ASSUME NEW a \in Nat, NEW b \in Nat, a <= b PROVE a \div PAGE <= b \div PAGE
<1>1. /\ a \div PAGE \in Int /\ b \div PAGE \in Int
      /\ PAGE * (a \div PAGE) <= a /\ b < PAGE * (b \div PAGE) + PAGE
  BY PageOf
<1>2. b \div PAGE + 1 <= a \div PAGE => PAGE * (b \div PAGE + 1) <= PAGE * (a \div PAGE)
  BY <1>1, TimesPage
<1> QED
  BY <1>1, <1>2, SizesAssumption

LEMMA PagesOn ==
  ASSUME NEW a \in Nat, NEW i \in Nat PROVE (a + PAGE * i) \div PAGE = a \div PAGE + i
<1> DEFINE b == a + PAGE * i
<1>1. b \in Nat
  BY SizesAssumption
<1>2. /\ a \div PAGE \in Int /\ PAGE * (a \div PAGE) <= a /\ a < PAGE * (a \div PAGE) + PAGE
      /\ b \div PAGE \in Int /\ PAGE * (b \div PAGE) <= b /\ b < PAGE * (b \div PAGE) + PAGE
  BY <1>1, PageOf
<1>3. PAGE * (a \div PAGE + i) <= b /\ b < PAGE * (a \div PAGE + i) + PAGE
  BY <1>2, SizesAssumption
<1> HIDE DEF b
<1>4. b \div PAGE + 1 <= a \div PAGE + i => PAGE * (b \div PAGE + 1) <= PAGE * (a \div PAGE + i)
  BY <1>2, TimesPage
<1>5. a \div PAGE + i + 1 <= b \div PAGE => PAGE * (a \div PAGE + i + 1) <= PAGE * (b \div PAGE)
  BY <1>2, TimesPage
<1>6. b \div PAGE = a \div PAGE + i
  BY <1>1, <1>2, <1>3, <1>4, <1>5, SizesAssumption
<1> QED
  BY <1>6 DEF b

(* The loop that shrinks stays inside the table. *)
LEMMA ShrinkSlots ==
  ASSUME NEW from \in Break, NEW to \in Break, to < from
  PROVE  SlotsToShrink(from, to) \subseteq Slot
<1> SUFFICES ASSUME NEW i \in 0 .. Ceil(from - to) - 1
             PROVE  (from - PAGE * i) \div PAGE \in Slot
  BY DEF SlotsToShrink
<1> DEFINE n == from - to + PAGE - 1
           a == from - PAGE * i
           q == a \div PAGE
<1>0. /\ from \in Nat /\ to \in Nat /\ PAGE \in Nat /\ PAGE > 1 /\ MaxSlot \in Nat
      /\ from <= (MaxSlot + 1) * PAGE - 1
  BY SizesAssumption DEF Break
<1>1. n \in Nat /\ Ceil(from - to) = n \div PAGE
  BY <1>0 DEF Ceil
<1>2. n \div PAGE \in Int /\ PAGE * (n \div PAGE) <= n
  BY <1>1, PageOf
<1>3. i \in Nat /\ i + 1 <= n \div PAGE
  BY <1>1, <1>2
<1>4. PAGE * (i + 1) <= PAGE * (n \div PAGE)
  BY <1>2, <1>3, TimesPage
<1>5. PAGE * (i + 1) = PAGE * i + PAGE /\ PAGE * i \in Nat
  BY <1>0, <1>3
<1>6. a \in Nat /\ a <= from
  BY <1>0, <1>2, <1>4, <1>5
<1> HIDE DEF a
<1>7. q \in Int /\ PAGE * q <= a /\ a < PAGE * q + PAGE
  BY <1>6, PageOf
<1> HIDE DEF q
<1>8. q <= -1 => PAGE * q <= PAGE * (-1)
  BY <1>7, TimesPage
<1>9. MaxSlot + 1 <= q => PAGE * (MaxSlot + 1) <= PAGE * q
  BY <1>0, <1>7, TimesPage
<1>10. PAGE * (MaxSlot + 1) = (MaxSlot + 1) * PAGE /\ PAGE * (-1) = -PAGE
  BY <1>0
<1>11. q \in 0 .. MaxSlot
  BY <1>0, <1>6, <1>7, <1>8, <1>9, <1>10
<1> QED
  BY <1>11 DEF Slot, a, q

-----------------------------------------------------------------------------
(* Frames that are granted were free, and no two of them are the same. *)
LEMMA GrantFacts ==
  ASSUME NEW slots \in SUBSET Slot, NEW fresh \in [slots -> Frame],
         IsGrant(fresh, slots)
  PROVE  /\ \A s \in slots : fresh[s] \in Frame \ marked
         /\ \A r, s \in slots : fresh[r] = fresh[s] => r = s
<1>1. \A s \in slots : fresh[s] \in Frame \ marked
  BY DEF IsGrant
<1>2. ASSUME NEW r \in slots, NEW s \in slots, fresh[r] = fresh[s]
      PROVE  r = s
  <2>1. r \in Int /\ s \in Int /\ fresh[r] \in Int
    BY SizesAssumption DEF Slot, Frame
  <2>2. ~(r < s) /\ ~(s < r)
    BY <1>2, <2>1 DEF IsGrant
  <2> QED
    BY <2>1, <2>2
<1> QED
  BY <1>1, <1>2

(* The lowest free frame goes first. *)
LEMMA GrantTakesZero ==
  ASSUME NEW slots \in SUBSET Slot, NEW fresh \in [slots -> Frame], IsGrant(fresh, slots), slots # {}
  PROVE  0 \in marked \cup Granted(fresh, slots)
<1> SUFFICES ASSUME 0 \notin marked PROVE \E r \in slots : fresh[r] = 0
  BY DEF Granted
<1>1. PICK s \in slots : TRUE
  OBVIOUS
<1>2. 0 \in Frame \ marked /\ fresh[s] \in Frame
  BY <1>1, SizesAssumption DEF Frame
<1>3. CASE fresh[s] = 0
  BY <1>1, <1>3
<1>4. CASE 0 < fresh[s]
  BY <1>1, <1>2, <1>4 DEF IsGrant
<1> QED
  BY <1>2, <1>3, <1>4, SizesAssumption DEF Frame

(* nonid_page changes the entries of the slots it is called for. *)
LEMMA MapFreshFacts ==
  ASSUME NEW entries \in Entries, NEW t \in Table, NEW slots \in SUBSET Slot,
         NEW fresh \in [slots -> Frame]
  PROVE  /\ MapFresh(entries, t, fresh, slots) \in Entries
         /\ MapFresh(entries, t, fresh, slots) # Null
         /\ MapFresh(entries, t, fresh, slots).held = entries.held \cup {t}
         /\ \A x \in Page :
              MapFresh(entries, t, fresh, slots).map[x] =
                IF x[1] = t /\ x[2] \in slots THEN fresh[x[2]] ELSE entries.map[x]
<1> DEFINE new == MapFresh(entries, t, fresh, slots)
           map == [x \in Page |-> IF x[1] = t /\ x[2] \in slots THEN fresh[x[2]]
                                  ELSE entries.map[x]]
<1>1. entries.held \in SUBSET Table /\ entries.map \in [Page -> Frame]
  BY DEF Entries
<1>2. map \in [Page -> Frame]
  BY <1>1
<1>3. new = [held |-> entries.held \cup {t}, map |-> map]
  BY DEF MapFresh
<1>4. new \in Entries
  BY <1>1, <1>2, <1>3 DEF Entries
<1> HIDE DEF map
<1>5. new.held = entries.held \cup {t} /\ new.map = map
  BY <1>3
<1> QED
  BY <1>4, <1>5, NullAssumption DEF map

(* What the entries of a process look like. *)
LEMMA AliveFacts ==
  ASSUME FTypeOK, NEW p \in Alive
  PROVE  /\ p \in Pid /\ pt[p] \in Entries /\ pt[p] # Null
         /\ pt[p].held \in SUBSET Table
         /\ \A x \in Page : pt[p].map[x] \in Frame
         /\ \A x \in Page : x \in Mapped(p) <=> pt[p].map[x] # 0
         /\ Mapped(p) \subseteq Page
<1>1. p \in Pid /\ pt[p] # Null /\ pt[p] \in Entries
  BY DEF Alive, FTypeOK
<1>2. pt[p].held \in SUBSET Table /\ pt[p].map \in [Page -> Frame]
  BY <1>1 DEF Entries
<1> QED
  BY <1>1, <1>2 DEF Mapped

(* The initial state. *)
LEMMA InitFInv == Init => FInv
<1> SUFFICES ASSUME Init PROVE FInv
  OBVIOUS
<1>0. /\ StackPages \in Nat /\ HeapPages \in Nat /\ NFrames \in Nat /\ MaxSlot \in Nat
      /\ StackPages + HeapPages <= MaxSlot /\ StackPages + HeapPages + 1 <= NFrames
      /\ 1 \in Pid
  BY SizesAssumption DEF Pid
<1> DEFINE map == [x \in Page |->
                     IF x[1] = Stack /\ x[2] \in StackSlots THEN x[2] + 1
                     ELSE IF x = <<Code, 0>> THEN StackPages + HeapPages + 1
                     ELSE 0]
<1>1. map \in [Page -> Frame]
  <2> SUFFICES ASSUME NEW x \in Page PROVE map[x] \in Frame
    OBVIOUS
  <2>1. x[2] \in StackSlots => x[2] + 1 \in Frame
    BY <1>0 DEF StackSlots, Frame
  <2>2. StackPages + HeapPages + 1 \in Frame /\ 0 \in Frame
    BY <1>0 DEF Frame
  <2> QED
    BY <2>1, <2>2
<1>2. /\ pt[1] = [held |-> {Stack, Code}, map |-> map]
      /\ \A p \in Pid : p # 1 => pt[p] = Null
      /\ pt \in [Pid -> {[held |-> {Stack, Code}, map |-> map], Null}]
  BY <1>0 DEF Init
<1>3. [held |-> {Stack, Code}, map |-> map] \in Entries
  BY <1>1 DEF Entries, Table
<1> HIDE DEF map
<1>4. /\ Alive = {1} /\ pt[1] \in Entries
      /\ pt[1].held = {Stack, Code} /\ pt[1].map = map
  <2>1. pt[1] \in Entries /\ pt[1].held = {Stack, Code} /\ pt[1].map = map
    BY <1>2, <1>3
  <2>2. Null \notin Entries
    BY NullAssumption
  <2>3. pt[1] # Null
    BY <2>1, <2>2
  <2>4. Alive = {1}
    BY <1>0, <1>2, <2>3 DEF Alive
  <2> QED
    BY <2>1, <2>4
<1>5. /\ \A x \in Page : map[x] # 0 => x[1] \in {Stack, Code} /\ map[x] \in marked
      /\ \A s \in Slot : map[<<Temp, s>>] = 0
  <2>1. ASSUME NEW x \in Page, map[x] # 0
        PROVE  x[1] \in {Stack, Code} /\ map[x] \in marked
    <3>1. marked = 0 .. StackPages + HeapPages + 1
      BY DEF Init
    <3>2. CASE x[1] = Stack /\ x[2] \in StackSlots
      BY <3>1, <3>2, <1>0 DEF map, StackSlots
    <3>3. CASE x = <<Code, 0>> /\ ~(x[1] = Stack /\ x[2] \in StackSlots)
      BY <3>1, <3>3, <1>0 DEF map
    <3> QED
      BY <2>1, <3>2, <3>3 DEF map
  <2>2. ASSUME NEW s \in Slot PROVE map[<<Temp, s>>] = 0
    <3>1. <<Temp, s>> \in Page
      BY PageFacts DEF Table
    <3>2. <<Temp, s>>[1] # Stack /\ <<Temp, s>> # <<Code, 0>>
      BY DEF Temp, Stack, Code
    <3> QED
      BY <3>1, <3>2 DEF map
  <2> QED
    BY <2>1, <2>2
<1>6. \A x, y \in Page : map[x] # 0 /\ map[x] = map[y] => x = y
  <2> SUFFICES ASSUME NEW x \in Page, NEW y \in Page, map[x] # 0, map[x] = map[y]
               PROVE  x = y
    OBVIOUS
  <2>1. x[2] \in Int /\ y[2] \in Int /\ x = <<x[1], x[2]>> /\ y = <<y[1], y[2]>>
    BY PageFacts, <1>0 DEF Slot
  <2> QED
    BY <2>1, <1>0 DEF map, StackSlots, Stack, Code
<1>7. FTypeOK
  <2>1. pt \in [Pid -> Entries \cup {Null}]
    BY <1>2, <1>3
  <2>2. \A p \in Alive : \A x \in Mapped(p) : x[1] \in pt[p].held
    BY <1>4, <1>5 DEF Mapped
  <2>3. marked \subseteq Frame /\ strays \in Nat
    BY <1>0 DEF Init, Frame
  <2>4. brk \in [Pid -> Break] /\ mem \in [Frame -> Value] /\ copying = Null /\ cur_ctx \in Alive
    BY FirstBreakFits, <1>4 DEF Init
  <2>5. pagedir \in [Table -> Pid \cup {0}]
    BY <1>0 DEF Init
  <2> QED
    BY <2>1, <2>2, <2>3, <2>4, <2>5 DEF FTypeOK
<1>8. MappedMarked /\ OneOwner
  BY <1>4, <1>5, <1>6 DEF MappedMarked, OneOwner, Mapped
<1>9. TablesInPlace
  <2>1. \A t \in {Stack, Code} : pagedir[t] = 1
    BY DEF Init, Stack, Code, Temp, Table
  <2>2. cur_ctx = 1
    BY DEF Init
  <2>3. Stack \in pt[1].held /\ \A s \in Slot : (pt[1].map)[<<Temp, s>>] = 0
    BY <1>4, <1>5
  <2>4. \A t \in pt[cur_ctx].held : pagedir[t] = cur_ctx
    BY <1>4, <2>1, <2>2
  <2> QED
    BY <1>4, <2>3, <2>4 DEF TablesInPlace
<1>10. CopyProgress
  BY DEF CopyProgress, Init
<1>11. KernelMarked
  BY <1>0 DEF KernelMarked, Init
<1> QED
  BY <1>7, <1>8, <1>9, <1>10, <1>11 DEF FInv

(* While no fork is in progress nothing is shared. *)
LEMMA NothingShared ==
  ASSUME FInv, Running
  PROVE  \A p, q \in Alive : \A x \in Mapped(p), y \in Mapped(q) :
            pt[p].map[x] = pt[q].map[y] => p = q /\ x = y
BY DEF FInv, OneOwner, Shared, Running

(* Pages that come to the running process, by brk or execve. *)
LEMMA PagesCome ==
  ASSUME FInv, Running,
         NEW t \in {Stack, Code}, NEW slots \in SUBSET Slot, NEW fresh \in [slots -> Frame],
         IsGrant(fresh, slots),
         pt' = [pt EXCEPT ![cur_ctx] = MapFresh(@, t, fresh, slots)],
         marked' = marked \cup Granted(fresh, slots),
         pagedir' = [pagedir EXCEPT ![t] = cur_ctx] \/ (slots = {} /\ t = Stack /\ pagedir' = pagedir),
         brk' \in [Pid -> Break], mem' \in [Frame -> Value],
         UNCHANGED <<cur_ctx, copying, strays>>
  PROVE  FInv'
<1> DEFINE new == MapFresh(pt[cur_ctx], t, fresh, slots)
<1>0. FTypeOK /\ MappedMarked /\ TablesInPlace /\ KernelMarked /\ cur_ctx \in Alive /\ marked \subseteq Frame
  BY DEF FInv, FTypeOK
<1>1. cur_ctx \in Pid /\ pt[cur_ctx] \in Entries
  BY <1>0, AliveFacts
<1>2. t \in Table
  BY DEF Table
<1>3. /\ new \in Entries /\ new # Null /\ new.held = pt[cur_ctx].held \cup {t}
      /\ \A x \in Page : new.map[x] = IF x[1] = t /\ x[2] \in slots THEN fresh[x[2]]
                                      ELSE pt[cur_ctx].map[x]
  <2> DEFINE entries == pt[cur_ctx]
  <2> HIDE DEF entries
  <2>0. entries \in Entries
    BY <1>1 DEF entries
  <2>1. MapFresh(entries, t, fresh, slots) \in Entries /\ MapFresh(entries, t, fresh, slots) # Null
    BY <2>0, <1>2, MapFreshFacts
  <2>2. MapFresh(entries, t, fresh, slots).held = entries.held \cup {t}
    BY DEF MapFresh
  <2>3. \A x \in Page : MapFresh(entries, t, fresh, slots).map[x] =
                          IF x[1] = t /\ x[2] \in slots THEN fresh[x[2]] ELSE entries.map[x]
    BY DEF MapFresh
  <2> QED
    BY <2>1, <2>2, <2>3 DEF entries
<1>4. /\ \A s \in slots : fresh[s] \in Frame \ marked
      /\ \A r, s \in slots : fresh[r] = fresh[s] => r = s
  BY GrantFacts
<1>5. /\ pt' \in [Pid -> Entries \cup {Null}]
      /\ pt'[cur_ctx] = new
      /\ \A p \in Pid : p # cur_ctx => pt'[p] = pt[p]
      /\ Alive' = Alive
  <2>1. pt \in [Pid -> Entries \cup {Null}] /\ pt' = [pt EXCEPT ![cur_ctx] = new]
    BY <1>0 DEF FTypeOK
  <2>2. /\ pt' \in [Pid -> Entries \cup {Null}] /\ pt'[cur_ctx] = new
        /\ \A p \in Pid : p # cur_ctx => pt'[p] = pt[p]
    BY <2>1, <1>1, <1>3
  <2> QED
    BY <2>2, <1>0, <1>1, <1>3 DEF Alive
<1> HIDE DEF new
<1>6. /\ \A p \in Alive : p # cur_ctx => Mapped(p)' = Mapped(p)
      /\ Mapped(cur_ctx)' \subseteq Page
      /\ \A x \in Mapped(cur_ctx)' :
           \/ x[1] = t /\ x[2] \in slots /\ new.map[x] = fresh[x[2]]
           \/ x \in Mapped(cur_ctx) /\ new.map[x] = pt[cur_ctx].map[x]
  BY <1>0, <1>1, <1>3, <1>5 DEF Mapped, Alive
<1>7. FTypeOK'
  <2>1. \A x \in Mapped(cur_ctx)' : x[1] \in pt'[cur_ctx].held
    BY <1>0, <1>3, <1>5, <1>6 DEF FTypeOK
  <2>2. \A p \in Alive' : \A x \in Mapped(p)' : x[1] \in pt'[p].held
    BY <2>1, <1>0, <1>5, <1>6 DEF FTypeOK, Alive
  <2>3. marked' \subseteq Frame /\ strays' \in Nat
    BY <1>0 DEF Granted, FTypeOK
  <2>4. pagedir' \in [Table -> Pid \cup {0}]
    BY <1>0, <1>1 DEF FTypeOK
  <2> QED
    BY <2>2, <2>3, <2>4, <1>0, <1>5 DEF FTypeOK
<1>8. MappedMarked'
  BY <1>0, <1>5, <1>6 DEF MappedMarked, Granted, Alive
<1>9. OneOwner'
  <2>1. SUFFICES ASSUME NEW p \in Alive, NEW q \in Alive, NEW x \in Mapped(p)', NEW y \in Mapped(q)',
                        pt'[p].map[x] = pt'[q].map[y]
                 PROVE  p = q /\ x = y
    BY <1>5 DEF OneOwner
  <2>2. \A z \in Mapped(cur_ctx)' :
          \/ z[1] = t /\ z[2] \in slots /\ pt'[cur_ctx].map[z] = fresh[z[2]] /\ fresh[z[2]] \notin marked
          \/ z \in Mapped(cur_ctx) /\ pt'[cur_ctx].map[z] = pt[cur_ctx].map[z] /\ pt[cur_ctx].map[z] \in marked
    BY <1>0, <1>4, <1>5, <1>6 DEF MappedMarked
  <2>3. \A r \in Alive : r # cur_ctx => \A z \in Mapped(r)' :
          z \in Mapped(r) /\ pt'[r].map[z] = pt[r].map[z] /\ pt[r].map[z] \in marked
    BY <1>0, <1>5, <1>6 DEF MappedMarked, Alive
  <2>4. \A r, s \in Alive : \A v \in Mapped(r), w \in Mapped(s) :
            pt[r].map[v] = pt[s].map[w] => r = s /\ v = w
    BY NothingShared
  <2>5. CASE p # cur_ctx /\ q # cur_ctx
    BY <2>1, <2>3, <2>4, <2>5
  <2>6. CASE p = cur_ctx /\ q # cur_ctx
    BY <2>1, <2>2, <2>3, <2>4, <2>6
  <2>7. CASE p # cur_ctx /\ q = cur_ctx
    BY <2>1, <2>2, <2>3, <2>4, <2>7
  <2>8. CASE p = cur_ctx /\ q = cur_ctx
    <3>1. x \in Page /\ y \in Page /\ x = <<x[1], x[2]>> /\ y = <<y[1], y[2]>>
      BY <1>6, <2>8, PageFacts
    <3> QED
      BY <2>1, <2>2, <2>4, <2>8, <3>1, <1>4
  <2> QED
    BY <2>5, <2>6, <2>7, <2>8
<1>10. TablesInPlace'
  <2>1. \A p \in Alive' : Stack \in pt'[p].held
    BY <1>0, <1>3, <1>5 DEF TablesInPlace, Alive
  <2>2. \A p \in Alive' : \A s \in Slot : pt'[p].map[<<Temp, s>>] = 0
    <3>0. t # Temp /\ Temp \in Table
      BY DEF Temp, Stack, Code, Table
    <3>1. \A s \in Slot : <<Temp, s>> \in Page /\ <<Temp, s>>[1] # t
      BY <3>0, PageFacts
    <3> QED
      BY <3>1, <1>0, <1>3, <1>5 DEF TablesInPlace, Alive
  <2>3. \A d \in pt'[cur_ctx].held : pagedir'[d] = cur_ctx
    <3>1. \A d \in pt[cur_ctx].held : pagedir[d] = cur_ctx
      BY <1>0 DEF TablesInPlace
    <3>2. pagedir \in [Table -> Pid \cup {0}] /\ pt[cur_ctx].held \subseteq Table
      BY <1>0, AliveFacts DEF FTypeOK
    <3>3. Stack \in pt[cur_ctx].held
      BY <1>0 DEF TablesInPlace
    <3> QED
      BY <3>1, <3>2, <3>3, <1>2, <1>3, <1>5
  <2> QED
    BY <2>1, <2>2, <2>3 DEF TablesInPlace
<1>11. CopyProgress'
  BY DEF CopyProgress, Running
<1>12. KernelMarked'
  BY <1>0 DEF KernelMarked
<1> QED
  BY <1>7, <1>8, <1>9, <1>10, <1>11, <1>12 DEF FInv

(* A switch, with or without the end of the process that had the CPU. *)
LEMMA SwitchFacts ==
  ASSUME FInv, NEW i \in Alive,
         cur_ctx' = i, i \in Alive', pt'[i] = pt[i],
         NEW dir \in [Table -> Pid \cup {0}],
         pagedir' = Register(dir, i, pt[i].held)
  PROVE  /\ pagedir' \in [Table -> Pid \cup {0}]
         /\ \A t \in pt'[cur_ctx'].held : pagedir'[t] = cur_ctx'
<1>1. i \in Pid /\ pt[i].held \subseteq Table
  BY AliveFacts DEF FInv
<1> QED
  BY <1>1 DEF Register

LEMMA SwitchInv == FInv /\ Switch => FInv'
<1> SUFFICES ASSUME FInv, Switch PROVE FInv'
  OBVIOUS
<1>1. PICK i \in Alive \ {cur_ctx} :
        cur_ctx' = i /\ pagedir' = Register(pagedir, i, pt[i].held)
  BY DEF Switch
<1>2. UNCHANGED <<pt, brk, marked, mem, copying, strays>> /\ Running /\ Alive' = Alive
  BY DEF Switch, Alive
<1>3. /\ pagedir' \in [Table -> Pid \cup {0}]
      /\ \A t \in pt'[cur_ctx'].held : pagedir'[t] = cur_ctx'
  BY <1>1, <1>2, SwitchFacts DEF FInv, FTypeOK
<1>4. \A p : Mapped(p)' = Mapped(p)
  BY <1>2 DEF Mapped
<1>5. FTypeOK' /\ MappedMarked'
  BY <1>1, <1>2, <1>3, <1>4 DEF FInv, FTypeOK, MappedMarked
<1>6. OneOwner'
  BY <1>2, <1>4, NothingShared DEF OneOwner
<1>7. TablesInPlace'
  BY <1>2, <1>3 DEF FInv, TablesInPlace
<1>8. CopyProgress'
  BY <1>2 DEF CopyProgress, Running
<1>9. KernelMarked'
  BY <1>2 DEF FInv, KernelMarked
<1> QED
  BY <1>5, <1>6, <1>7, <1>8, <1>9 DEF FInv

LEMMA StoreInv == FInv /\ Store => FInv'
<1> SUFFICES ASSUME FInv, Store PROVE FInv'
  OBVIOUS
<1>1. UNCHANGED <<pt, brk, cur_ctx, pagedir, marked, copying, strays>> /\ Running /\ Alive' = Alive
  BY DEF Store, Alive
<1>2. mem' \in [Frame -> Value]
  BY DEF Store, FInv, FTypeOK
<1>3. \A p : Mapped(p)' = Mapped(p)
  BY <1>1 DEF Mapped
<1>4. FTypeOK' /\ MappedMarked' /\ TablesInPlace' /\ KernelMarked'
  BY <1>1, <1>2, <1>3 DEF FInv, FTypeOK, MappedMarked, TablesInPlace, KernelMarked, Running
<1>5. OneOwner'
  BY <1>1, <1>3, NothingShared DEF OneOwner
<1>6. CopyProgress'
  BY <1>1 DEF CopyProgress, Running
<1> QED
  BY <1>4, <1>5, <1>6 DEF FInv

LEMMA ExitInv == FInv /\ SysExit => FInv'
<1> SUFFICES ASSUME FInv, SysExit PROVE FInv'
  OBVIOUS
<1>0. FTypeOK /\ Running /\ cur_ctx \in Alive
  BY DEF FInv, FTypeOK, SysExit
<1>1. PICK i \in Alive \ {cur_ctx} :
        cur_ctx' = i /\ pagedir' = Register(pagedir, i, pt[i].held)
  BY DEF SysExit
<1>2. /\ UNCHANGED <<marked, mem, copying, strays>> /\ pt' = [pt EXCEPT ![cur_ctx] = Null]
      /\ brk' = [brk EXCEPT ![cur_ctx] = FirstBreak]
  BY DEF SysExit
<1>3. /\ Alive' = Alive \ {cur_ctx}
      /\ pt' \in [Pid -> Entries \cup {Null}]
      /\ \A p \in Alive' : pt'[p] = pt[p] /\ Mapped(p)' = Mapped(p)
  BY <1>0, <1>2 DEF Alive, FTypeOK, Mapped
<1>4. /\ pagedir' \in [Table -> Pid \cup {0}]
      /\ \A t \in pt'[cur_ctx'].held : pagedir'[t] = cur_ctx'
  BY <1>0, <1>1, <1>3, SwitchFacts DEF FTypeOK
<1>5. FTypeOK' /\ MappedMarked'
  <2>1. brk' \in [Pid -> Break]
    BY <1>0, <1>2, FirstBreakFits DEF FTypeOK
  <2> QED
    BY <2>1, <1>1, <1>2, <1>3, <1>4 DEF FInv, FTypeOK, MappedMarked
<1>6. OneOwner'
  BY <1>0, <1>3, NothingShared DEF OneOwner
<1>7. TablesInPlace'
  BY <1>3, <1>4 DEF FInv, TablesInPlace
<1>8. CopyProgress'
  BY <1>0, <1>2 DEF CopyProgress, Running
<1>9. KernelMarked'
  BY <1>2 DEF FInv, KernelMarked
<1> QED
  BY <1>5, <1>6, <1>7, <1>8, <1>9 DEF FInv

LEMMA GrowInv == FInv /\ SysBrkGrow => FInv'
<1> SUFFICES ASSUME FInv, SysBrkGrow PROVE FInv'
  OBVIOUS
<1>1. PICK to \in Break :
        /\ SlotsToGrow(brk[cur_ctx], to) \subseteq Slot
        /\ LET slots == {s \in SlotsToGrow(brk[cur_ctx], to) : pt[cur_ctx].map[<<Stack, s>>] = 0}
           IN  \E fresh \in [slots -> Frame] :
                 /\ IsGrant(fresh, slots)
                 /\ pt' = [pt EXCEPT ![cur_ctx] = MapFresh(@, Stack, fresh, slots)]
                 /\ marked' = marked \cup Granted(fresh, slots)
                 /\ pagedir' = IF slots = {} THEN pagedir ELSE [pagedir EXCEPT ![Stack] = cur_ctx]
        /\ brk' = [brk EXCEPT ![cur_ctx] = to]
  BY DEF SysBrkGrow
<1> DEFINE slots == {s \in SlotsToGrow(brk[cur_ctx], to) : pt[cur_ctx].map[<<Stack, s>>] = 0}
<1>2. slots \in SUBSET Slot
  BY <1>1
<1>3. PICK fresh \in [slots -> Frame] :
        /\ IsGrant(fresh, slots)
        /\ pt' = [pt EXCEPT ![cur_ctx] = MapFresh(@, Stack, fresh, slots)]
        /\ marked' = marked \cup Granted(fresh, slots)
        /\ pagedir' = IF slots = {} THEN pagedir ELSE [pagedir EXCEPT ![Stack] = cur_ctx]
  BY <1>1
<1>4. brk' \in [Pid -> Break] /\ mem' \in [Frame -> Value]
  BY <1>1 DEF SysBrkGrow, FInv, FTypeOK
<1>5. Running /\ UNCHANGED <<cur_ctx, copying, strays>>
  BY DEF SysBrkGrow
<1> HIDE DEF slots
<1> QED
  BY <1>2, <1>3, <1>4, <1>5, PagesCome

LEMMA ExecveInv == FInv /\ SysExecve => FInv'
<1> SUFFICES ASSUME FInv, SysExecve PROVE FInv'
  OBVIOUS
<1>0. PICK n \in 1 .. CodePages, k \in 0 .. CodePages, v \in Value :
        \E fresh \in [0 .. n - 1 -> Frame] :
          /\ IsGrant(fresh, 0 .. n - 1)
          /\ pt' = [pt EXCEPT ![cur_ctx] = MapFresh(@, Code, fresh, 0 .. n - 1)]
          /\ marked' = marked \cup Granted(fresh, 0 .. n - 1)
          /\ mem' = [f \in Frame |-> IF f \in Granted(fresh, 0 .. k - 1) THEN v ELSE mem[f]]
  BY DEF SysExecve
<1>1. PICK fresh \in [0 .. n - 1 -> Frame] :
        /\ IsGrant(fresh, 0 .. n - 1)
        /\ pt' = [pt EXCEPT ![cur_ctx] = MapFresh(@, Code, fresh, 0 .. n - 1)]
        /\ marked' = marked \cup Granted(fresh, 0 .. n - 1)
        /\ mem' = [f \in Frame |-> IF f \in Granted(fresh, 0 .. k - 1) THEN v ELSE mem[f]]
  BY <1>0
<1>2. 0 .. n - 1 \in SUBSET Slot
  BY <1>1, SizesAssumption DEF Slot
<1>3. brk' \in [Pid -> Break] /\ mem' \in [Frame -> Value]
  BY <1>1 DEF SysExecve, FInv, FTypeOK
<1>4. Running /\ UNCHANGED <<cur_ctx, copying, strays>> /\ pagedir' = [pagedir EXCEPT ![Code] = cur_ctx]
  BY DEF SysExecve
<1> QED
  BY <1>1, <1>2, <1>3, <1>4, PagesCome

(* unmap_page takes entries away and adds none. *)
LEMMA UnmapFacts ==
  ASSUME NEW entries \in Entries, NEW slots
  PROVE  /\ Unmap(entries, slots) \in Entries
         /\ Unmap(entries, slots) # Null
         /\ Unmap(entries, slots).held = entries.held
         /\ \A x \in Page : Unmap(entries, slots).map[x] =
              IF x[1] = Stack /\ x[2] \in slots THEN 0 ELSE entries.map[x]
<1> DEFINE map == [x \in Page |-> IF x[1] = Stack /\ x[2] \in slots THEN 0 ELSE entries.map[x]]
<1>1. /\ entries = [held |-> entries.held, map |-> entries.map]
      /\ entries.held \in SUBSET Table /\ entries.map \in [Page -> Frame]
  BY DEF Entries
<1>2. 0 \in Frame
  BY SizesAssumption DEF Frame
<1>3. map \in [Page -> Frame]
  BY <1>1, <1>2
<1>4. Unmap(entries, slots) = [held |-> entries.held, map |-> map]
  BY <1>1 DEF Unmap
<1>5. [held |-> entries.held, map |-> map] \in Entries
  BY <1>1, <1>3 DEF Entries
<1> HIDE DEF map
<1>6. Unmap(entries, slots).held = entries.held /\ Unmap(entries, slots).map = map
  BY <1>4
<1> QED
  BY <1>4, <1>5, <1>6, NullAssumption DEF map

LEMMA ShrinkInv == FInv /\ SysBrkShrink => FInv'
<1> SUFFICES ASSUME FInv, SysBrkShrink PROVE FInv'
  OBVIOUS
<1>0. FTypeOK /\ MappedMarked /\ TablesInPlace /\ KernelMarked /\ Running /\ cur_ctx \in Alive
  BY DEF FInv, FTypeOK, SysBrkShrink
<1>1. PICK to \in Break :
        LET slots == SlotsToShrink(brk[cur_ctx], to)
        IN  /\ to < brk[cur_ctx]
            /\ pt' = [pt EXCEPT ![cur_ctx] = Unmap(@, slots)]
            /\ marked' = marked \ {pt[cur_ctx].map[<<Stack, s>>] : s \in slots}
            /\ strays' = IF Tame(to, slots) THEN strays ELSE strays + 1
            /\ brk' = [brk EXCEPT ![cur_ctx] = to]
  BY DEF SysBrkShrink
<1> DEFINE slots == SlotsToShrink(brk[cur_ctx], to)
           new == Unmap(pt[cur_ctx], slots)
<1>2. UNCHANGED <<cur_ctx, pagedir, mem, copying>>
  BY DEF SysBrkShrink
<1>3. cur_ctx \in Pid /\ pt[cur_ctx] \in Entries
  BY <1>0, AliveFacts
<1>4. /\ new \in Entries /\ new # Null /\ new.held = pt[cur_ctx].held
      /\ \A x \in Page : new.map[x] = IF x[1] = Stack /\ x[2] \in slots THEN 0
                                      ELSE pt[cur_ctx].map[x]
  BY <1>3, UnmapFacts
<1>5. /\ pt' = [pt EXCEPT ![cur_ctx] = new]
      /\ marked' = marked \ {pt[cur_ctx].map[<<Stack, s>>] : s \in slots}
      /\ strays' = IF Tame(to, slots) THEN strays ELSE strays + 1
      /\ brk' \in [Pid -> Break]
  BY <1>0, <1>1 DEF FTypeOK
<1>s. \A s \in slots : <<Stack, s>> \in Page /\ <<Stack, s>>[1] = Stack /\ <<Stack, s>>[2] = s
  <2>1. brk[cur_ctx] \in Break
    BY <1>0, <1>3 DEF FTypeOK
  <2>2. slots \subseteq Slot /\ Stack \in Table
    BY <2>1, <1>1, ShrinkSlots DEF Table
  <2> QED
    BY <2>2, PageFacts
<1> HIDE DEF new, slots
<1>6. /\ pt' \in [Pid -> Entries \cup {Null}] /\ pt'[cur_ctx] = new
      /\ \A p \in Pid : p # cur_ctx => pt'[p] = pt[p]
      /\ Alive' = Alive
  <2>1. pt' \in [Pid -> Entries \cup {Null}] /\ pt'[cur_ctx] = new
        /\ \A p \in Pid : p # cur_ctx => pt'[p] = pt[p]
    BY <1>0, <1>3, <1>4, <1>5 DEF FTypeOK
  <2> QED
    BY <2>1, <1>0, <1>4 DEF Alive
<1>7. /\ \A p \in Alive : Mapped(p)' \subseteq Mapped(p)
      /\ \A p \in Alive : \A x \in Mapped(p)' : pt'[p].map[x] = pt[p].map[x]
      /\ \A x \in Mapped(cur_ctx)' : ~(x[1] = Stack /\ x[2] \in slots)
      /\ Mapped(cur_ctx)' \subseteq Page
  <2>1. \A x \in Page : new.map[x] # 0 =>
          ~(x[1] = Stack /\ x[2] \in slots) /\ new.map[x] = pt[cur_ctx].map[x]
    BY <1>4
  <2>2. \A p \in Alive : p # cur_ctx => pt'[p] = pt[p]
    BY <1>6 DEF Alive
  <2> QED
    BY <2>1, <2>2, <1>0, <1>2, <1>6 DEF Mapped
<1>8. FTypeOK'
  <2>1. \A p \in Alive' : \A x \in Mapped(p)' : x[1] \in pt'[p].held
    BY <1>0, <1>4, <1>6, <1>7 DEF FTypeOK, Alive
  <2>2. marked' \subseteq Frame /\ strays' \in Nat
    BY <1>0, <1>5 DEF FTypeOK
  <2> QED
    BY <2>1, <2>2, <1>0, <1>2, <1>5, <1>6 DEF FTypeOK
<1>9. MappedMarked'
  <2> SUFFICES ASSUME NEW p \in Alive, NEW x \in Mapped(p)' PROVE pt'[p].map[x] \in marked'
    BY <1>6 DEF MappedMarked
  <2>1. x \in Mapped(p) /\ pt'[p].map[x] = pt[p].map[x] /\ pt[p].map[x] \in marked
    BY <1>0, <1>7 DEF MappedMarked
  <2>2. ASSUME NEW s \in slots, pt[p].map[x] = pt[cur_ctx].map[<<Stack, s>>]
        PROVE  FALSE
    <3>0. <<Stack, s>> \in Mapped(cur_ctx)
      BY <2>1, <2>2, <1>s DEF Mapped
    <3>1. p = cur_ctx /\ x = <<Stack, s>>
      BY <2>1, <2>2, <3>0, <1>0, NothingShared
    <3>2. x \in Mapped(cur_ctx)'
      BY <3>1, <1>2 DEF Mapped
    <3>3. x[1] = Stack /\ x[2] = s
      BY <3>1
    <3> QED
      BY <3>2, <3>3, <1>7
  <2>3. pt[p].map[x] \notin {pt[cur_ctx].map[<<Stack, s>>] : s \in slots}
    BY <2>2
  <2>4. marked' = marked \ {pt[cur_ctx].map[<<Stack, s>>] : s \in slots}
    BY <1>5
  <2> QED
    BY <2>1, <2>3, <2>4
<1>10. OneOwner'
  BY <1>0, <1>6, <1>7, NothingShared DEF OneOwner
<1>11. TablesInPlace'
  <2>1. \A s \in Slot : <<Temp, s>> \in Page
    BY PageFacts DEF Table
  <2>2. \A p \in Alive' : \A s \in Slot : pt'[p].map[<<Temp, s>>] = 0
    BY <2>1, <1>0, <1>4, <1>6 DEF TablesInPlace, Alive
  <2> QED
    BY <2>2, <1>0, <1>2, <1>4, <1>6 DEF TablesInPlace, Alive
<1>12. CopyProgress'
  BY <1>0, <1>2 DEF CopyProgress, Running
<1>13. KernelMarked'
  <2> SUFFICES ASSUME strays' = 0 PROVE 0 \in marked'
    BY <1>0, <1>2 DEF KernelMarked, Running
  <2>1. strays = 0 /\ Tame(to, slots)
    BY <1>0, <1>5 DEF FTypeOK
  <2>2. \A s \in slots : pt[cur_ctx].map[<<Stack, s>>] # 0
    BY <2>1 DEF Tame, Mapped
  <2>3. 0 \in marked
    BY <2>1, <1>0 DEF KernelMarked
  <2> QED
    BY <2>2, <2>3, <1>5
<1> QED
  BY <1>8, <1>9, <1>10, <1>11, <1>12, <1>13 DEF FInv

LEMMA ForkBeginInv == FInv /\ ForkBegin => FInv'
<1> SUFFICES ASSUME FInv, ForkBegin PROVE FInv'
  OBVIOUS
<1>0. /\ FTypeOK /\ MappedMarked /\ TablesInPlace /\ Running /\ cur_ctx \in Alive
      /\ marked \subseteq Frame
  BY DEF FInv, FTypeOK, ForkBegin
<1>1. PICK pid \in Pid \ Alive :
        /\ copying' = [child |-> pid, table |-> 0, left |-> {}]
        /\ brk' = [brk EXCEPT ![pid] = FirstBreak]
        /\ \E fresh \in [StackSlots -> Frame] :
             /\ IsGrant(fresh, StackSlots)
             /\ pt' = [pt EXCEPT ![pid] = MapFresh(NoEntries, Stack, fresh, StackSlots)]
             /\ marked' = marked \cup Granted(fresh, StackSlots)
  BY DEF ForkBegin
<1>2. PICK fresh \in [StackSlots -> Frame] :
             /\ IsGrant(fresh, StackSlots)
             /\ pt' = [pt EXCEPT ![pid] = MapFresh(NoEntries, Stack, fresh, StackSlots)]
             /\ marked' = marked \cup Granted(fresh, StackSlots)
  BY <1>1
<1>3. UNCHANGED <<cur_ctx, pagedir, mem, strays>>
  BY DEF ForkBegin
<1>4. /\ StackSlots \in SUBSET Slot /\ 0 \in Frame /\ Stack \in Table
      /\ StackSlots # {}
  BY SizesAssumption DEF StackSlots, Slot, Frame, Table
<1>5. NoEntries \in Entries /\ \A x \in Page : NoEntries.map[x] = 0
  BY <1>4 DEF NoEntries, Entries
<1> DEFINE new == MapFresh(NoEntries, Stack, fresh, StackSlots)
<1>6. new \in Entries /\ new # Null
  BY <1>4, <1>5, MapFreshFacts
<1>7. new.held = {Stack}
  BY DEF MapFresh, NoEntries
<1>8. \A x \in Page : new.map[x] = IF x[1] = Stack /\ x[2] \in StackSlots THEN fresh[x[2]] ELSE 0
  BY <1>5 DEF MapFresh
<1> HIDE DEF new
<1>9. /\ \A s \in StackSlots : fresh[s] \in Frame \ marked
      /\ \A r, s \in StackSlots : fresh[r] = fresh[s] => r = s
  BY <1>2, <1>4, GrantFacts
<1>10. /\ pt' \in [Pid -> Entries \cup {Null}] /\ pt'[pid] = new
       /\ \A p \in Pid : p # pid => pt'[p] = pt[p]
       /\ Alive' = Alive \cup {pid} /\ pid \notin Alive
       /\ \A p \in Alive : p # pid /\ pt'[p] = pt[p]
  <2>1. pt' = [pt EXCEPT ![pid] = new]
    BY <1>2 DEF new
  <2>2. /\ pt' \in [Pid -> Entries \cup {Null}] /\ pt'[pid] = new
        /\ \A p \in Pid : p # pid => pt'[p] = pt[p]
    BY <2>1, <1>0, <1>1, <1>6 DEF FTypeOK
  <2> QED
    BY <2>2, <1>1, <1>6 DEF Alive
<1>11. /\ \A p \in Alive : Mapped(p)' = Mapped(p)
       /\ Mapped(pid)' \subseteq Page
       /\ \A x \in Mapped(pid)' : x[1] = Stack /\ x[2] \in StackSlots /\ new.map[x] = fresh[x[2]]
  BY <1>8, <1>10 DEF Mapped
<1>12. copying' \in Copying /\ copying' # Null /\ copying'.left = {} /\ copying'.table = 0
       /\ copying'.child = pid
  <2>1. copying' \in Copying
    BY <1>1 DEF Copying
  <2> QED
    BY <2>1, <1>1, NullAssumption
<1>13. FTypeOK'
  <2>1. \A p \in Alive' : \A x \in Mapped(p)' : x[1] \in pt'[p].held
    BY <1>0, <1>7, <1>10, <1>11 DEF FTypeOK
  <2>2. marked' \subseteq Frame /\ strays' \in Nat
    BY <1>0, <1>2, <1>3, <1>4 DEF Granted, FTypeOK
  <2>3. brk' \in [Pid -> Break]
    BY <1>0, <1>1, FirstBreakFits DEF FTypeOK
  <2> QED
    BY <2>1, <2>2, <2>3, <1>0, <1>3, <1>10, <1>12 DEF FTypeOK
<1>14. MappedMarked'
  BY <1>0, <1>2, <1>10, <1>11 DEF MappedMarked, Granted
<1>15. OneOwner'
  <2>1. SUFFICES ASSUME NEW p \in Alive', NEW q \in Alive', NEW x \in Mapped(p)', NEW y \in Mapped(q)',
                        pt'[p].map[x] = pt'[q].map[y]
                 PROVE  p = q /\ x = y
    BY DEF OneOwner
  <2>2. \A r \in Alive : \A z \in Mapped(r)' :
          z \in Mapped(r) /\ pt'[r].map[z] = pt[r].map[z] /\ pt[r].map[z] \in marked
    BY <1>0, <1>10, <1>11 DEF MappedMarked
  <2>3. \A z \in Mapped(pid)' : pt'[pid].map[z] = fresh[z[2]] /\ fresh[z[2]] \notin marked
    BY <1>9, <1>10, <1>11
  <2>4. CASE p \in Alive /\ q \in Alive
    BY <2>1, <2>2, <2>4, <1>0, NothingShared
  <2>5. CASE p = pid /\ q \in Alive
    BY <2>1, <2>2, <2>3, <2>5
  <2>6. CASE p \in Alive /\ q = pid
    BY <2>1, <2>2, <2>3, <2>6
  <2>7. CASE p = pid /\ q = pid
    <3>1. x \in Mapped(pid)' /\ y \in Mapped(pid)'
      BY <2>7
    <3>2. /\ x = <<x[1], x[2]>> /\ y = <<y[1], y[2]>> /\ x[1] = y[1]
          /\ x[2] \in StackSlots /\ y[2] \in StackSlots
      BY <3>1, <1>11, PageFacts
    <3>3. fresh[x[2]] = fresh[y[2]]
      BY <3>1, <2>1, <2>3, <2>7
    <3> QED
      BY <3>2, <3>3, <2>7, <1>9
  <2> QED
    BY <2>4, <2>5, <2>6, <2>7, <1>10
<1>16. TablesInPlace'
  <2>1. \A s \in Slot : <<Temp, s>> \in Page /\ <<Temp, s>>[1] # Stack
    <3>1. Temp # Stack /\ Temp \in Table
      BY DEF Temp, Stack, Table
    <3> QED
      BY <3>1, PageFacts
  <2>2. \A s \in Slot : new.map[<<Temp, s>>] = 0
    BY <2>1, <1>8
  <2> QED
    BY <2>2, <1>0, <1>7, <1>10, <1>12 DEF TablesInPlace, Running
<1>17. CopyProgress'
  <2>1. \A x \in Page : x[1] > 0
    BY PageFacts DEF Table, Stack, Temp, Code
  <2>2. ~(\E x \in Page : Shared(pid, x)')
    BY <1>12 DEF Shared
  <2>3. \A x \in Page : x[1] # Stack => pt'[pid].map[x] = 0
    BY <1>8, <1>10
  <2>4. \A x \in Page : ~(x[1] <= 0)
    BY PageFacts DEF Table, Stack, Temp, Code
  <2>5. pid \in Alive' /\ pid # cur_ctx'
    BY <1>0, <1>3, <1>10
  <2> QED
    BY <2>2, <2>3, <2>4, <2>5, <1>12 DEF CopyProgress
<1>18. KernelMarked'
  BY <1>2, <1>4, GrantTakesZero DEF KernelMarked
<1> QED
  BY <1>13, <1>14, <1>15, <1>16, <1>17, <1>18 DEF FInv

(* What is known of the child while fork is at work. *)
LEMMA CopyingFacts ==
  ASSUME FInv, copying # Null
  PROVE  /\ copying \in Copying /\ ~Running
         /\ copying.child \in Alive /\ cur_ctx \in Alive /\ copying.child # cur_ctx
         /\ copying.table \in Table \cup {0} /\ copying.left \in SUBSET Slot
         /\ CopyProgress
<1>1. copying \in Copying
  BY DEF FInv, FTypeOK
<1> QED
  BY <1>1 DEF FInv, FTypeOK, CopyProgress, Copying, Running

LEMMA ForkTableInv == FInv /\ ForkTable => FInv'
<1> SUFFICES ASSUME FInv, ForkTable PROVE FInv'
  OBVIOUS
<1>0. /\ FTypeOK /\ MappedMarked /\ OneOwner /\ TablesInPlace
      /\ copying # Null /\ copying.left = {} /\ 0 \in marked /\ marked \subseteq Frame
  BY DEF FInv, FTypeOK, KernelMarked, ForkTable
<1>c. PICK c \in Alive : c = copying.child
  BY <1>0, CopyingFacts
<1>1. PICK t \in TablesAhead :
        /\ \A u \in TablesAhead : t <= u
        /\ pt' = [pt EXCEPT ![c] = ShareTable(@, t)]
        /\ pagedir' = [pagedir EXCEPT ![t] = c]
        /\ marked' = marked \cup {pt[cur_ctx].map[<<t, s>>] : s \in Slot}
        /\ copying' = [copying EXCEPT !.table = t,
                         !.left = {s \in Slot : <<t, s>> \in Mapped(cur_ctx)}]
  BY <1>c DEF ForkTable
<1>2. UNCHANGED <<brk, cur_ctx, mem, strays>>
  BY DEF ForkTable
<1>3. /\ copying \in Copying /\ c \in Alive /\ cur_ctx \in Alive /\ c # cur_ctx
      /\ copying.table \in Table \cup {0} /\ CopyProgress
  BY <1>0, <1>c, CopyingFacts
<1>4. /\ c \in Pid /\ pt[c] \in Entries /\ pt[c].held \in SUBSET Table
      /\ cur_ctx \in Pid /\ pt[cur_ctx].held \in SUBSET Table
      /\ \A x \in Page : pt[c].map[x] \in Frame /\ pt[cur_ctx].map[x] \in Frame
  BY <1>0, <1>3, AliveFacts
<1>5. t \in Table /\ t \in pt[cur_ctx].held /\ t > copying.table
  BY <1>4 DEF TablesAhead
<1> DEFINE map == [x \in Page |-> IF x[1] = t THEN pt[cur_ctx].map[x] ELSE pt[c].map[x]]
           new == [held |-> pt[c].held \cup {t}, map |-> map]
<1>6. /\ map \in [Page -> Frame]
      /\ ShareTable(pt[c], t) = new
  BY <1>4 DEF ShareTable
<1>7. new \in Entries /\ new # Null
  BY <1>4, <1>5, <1>6, NullAssumption DEF Entries
<1>8. new.held = pt[c].held \cup {t} /\ new.map = map
  OBVIOUS
<1>9. \A x \in Page : new.map[x] = IF x[1] = t THEN pt[cur_ctx].map[x] ELSE pt[c].map[x]
  BY <1>8
<1> HIDE DEF new, map
<1>10. /\ pt' \in [Pid -> Entries \cup {Null}] /\ pt'[c] = new
       /\ \A p \in Pid : p # c => pt'[p] = pt[p]
       /\ Alive' = Alive
       /\ pt'[cur_ctx] = pt[cur_ctx]
  <2>1. pt' = [pt EXCEPT ![c] = new]
    BY <1>1, <1>6
  <2>2. /\ pt' \in [Pid -> Entries \cup {Null}] /\ pt'[c] = new
        /\ \A p \in Pid : p # c => pt'[p] = pt[p]
    BY <2>1, <1>0, <1>4, <1>7 DEF FTypeOK
  <2> QED
    BY <2>2, <1>3, <1>4, <1>7 DEF Alive
<1>11. /\ copying' \in Copying /\ copying'.child = c /\ copying'.table = t
       /\ copying'.left = {s \in Slot : <<t, s>> \in Mapped(cur_ctx)}
       /\ copying' # Null
  <2>1. /\ copying' \in Copying /\ copying'.child = c /\ copying'.table = t
        /\ copying'.left = {s \in Slot : <<t, s>> \in Mapped(cur_ctx)}
    BY <1>1, <1>3, <1>5, <1>c DEF Copying
  <2> QED
    BY <2>1, NullAssumption
<1>12. /\ \A p \in Alive : p # c => pt'[p] = pt[p] /\ Mapped(p)' = Mapped(p)
       /\ \A x : x \in Mapped(c)' <=> x \in Page /\ new.map[x] # 0
       /\ \A x : x \in Mapped(cur_ctx) <=> x \in Page /\ pt[cur_ctx].map[x] # 0
       /\ \A x : x \in Mapped(c) <=> x \in Page /\ pt[c].map[x] # 0
  BY <1>10 DEF Mapped, Alive
<1>13. \A x \in Mapped(c)' : x[1] = t =>
         x \in Mapped(cur_ctx) /\ new.map[x] = pt[cur_ctx].map[x] /\ Shared(c, x)'
  <2> SUFFICES ASSUME NEW x \in Mapped(c)', x[1] = t
               PROVE  x \in Mapped(cur_ctx) /\ new.map[x] = pt[cur_ctx].map[x] /\ Shared(c, x)'
    OBVIOUS
  <2>1. x \in Page /\ x = <<t, x[2]>> /\ x[2] \in Slot
    BY <1>12, PageFacts
  <2>2. x \in Mapped(cur_ctx) /\ new.map[x] = pt[cur_ctx].map[x]
    BY <2>1, <1>9, <1>12
  <2> QED
    BY <2>1, <2>2, <1>11 DEF Shared
<1>14. \A x \in Mapped(c)' : x[1] # t => x \in Mapped(c) /\ new.map[x] = pt[c].map[x]
  BY <1>9, <1>12
<1>15. FTypeOK'
  <2>1. \A x \in Mapped(c)' : x[1] \in new.held
    BY <1>0, <1>3, <1>8, <1>14 DEF FTypeOK
  <2>2. \A p \in Alive' : \A x \in Mapped(p)' : x[1] \in pt'[p].held
    BY <2>1, <1>0, <1>10, <1>12 DEF FTypeOK
  <2>3. marked' \subseteq Frame
    <3>1. \A s \in Slot : <<t, s>> \in Page
      BY <1>5, PageFacts
    <3> QED
      BY <3>1, <1>0, <1>1, <1>4
  <2>4. pagedir' \in [Table -> Pid \cup {0}]
    BY <1>0, <1>1, <1>4, <1>c DEF FTypeOK
  <2> QED
    BY <2>2, <2>3, <2>4, <1>0, <1>2, <1>10, <1>11 DEF FTypeOK
<1>16. MappedMarked'
  <2>1. marked \subseteq marked'
    BY <1>1
  <2>2. \A x \in Mapped(c)' : new.map[x] \in marked
    BY <1>0, <1>3, <1>13, <1>14 DEF MappedMarked
  <2> QED
    BY <2>1, <2>2, <1>0, <1>10, <1>12 DEF MappedMarked
<1>17. OneOwner'
  <2>1. SUFFICES ASSUME NEW p \in Alive, NEW q \in Alive, NEW x \in Mapped(p)', NEW y \in Mapped(q)',
                        pt'[p].map[x] = pt'[q].map[y], ~Shared(p, x)', ~Shared(q, y)'
                 PROVE  p = q /\ x = y
    BY <1>10 DEF OneOwner
  <2>2. \A r \in Alive : \A z \in Mapped(r)' : ~Shared(r, z)' =>
          z \in Mapped(r) /\ pt'[r].map[z] = pt[r].map[z] /\ ~Shared(r, z)
    <3> SUFFICES ASSUME NEW r \in Alive, NEW z \in Mapped(r)', ~Shared(r, z)'
                 PROVE  z \in Mapped(r) /\ pt'[r].map[z] = pt[r].map[z]
      BY <1>0 DEF Shared
    <3>1. CASE r # c
      BY <3>1, <1>12
    <3>2. CASE r = c
      <4>1. z \in Mapped(c)' /\ ~Shared(c, z)'
        BY <3>2
      <4> QED
        BY <4>1, <3>2, <1>10, <1>13, <1>14
    <3> QED
      BY <3>1, <3>2
  <2> QED
    BY <2>1, <2>2, <1>0 DEF OneOwner
<1>18. TablesInPlace'
  <2>1. \A s \in Slot : <<Temp, s>> \in Page
    BY PageFacts DEF Table
  <2>2. \A s \in Slot : new.map[<<Temp, s>>] = 0
    BY <2>1, <1>0, <1>3, <1>9 DEF TablesInPlace
  <2>3. Stack \in new.held
    BY <1>0, <1>3, <1>8 DEF TablesInPlace
  <2>4. \A p \in Alive' : Stack \in pt'[p].held /\ \A s \in Slot : pt'[p].map[<<Temp, s>>] = 0
    BY <2>2, <2>3, <1>0, <1>10, <1>12 DEF TablesInPlace
  <2> QED
    BY <2>4, <1>11 DEF TablesInPlace, Running
<1>19. CopyProgress'
  <2>1. c \in Alive' /\ c # cur_ctx'
    BY <1>2, <1>3, <1>10, <1>c
  <2>2. \A s \in copying'.left : copying'.table # 0 /\ <<copying'.table, s>> \in Mapped(cur_ctx)'
    <3>1. t # 0
      BY <1>5 DEF Table, Stack, Temp, Code
    <3>2. Mapped(cur_ctx)' = Mapped(cur_ctx)
      BY <1>2, <1>10 DEF Mapped
    <3> QED
      BY <3>1, <3>2, <1>11
  <2>3. \A x \in Page : Shared(c, x)' => new.map[x] = pt[cur_ctx].map[x]
    BY <1>9, <1>11 DEF Shared
  <2>4. \A x \in Page : x[1] <= t =>
          /\ new.map[x] = 0 <=> pt[cur_ctx].map[x] = 0
          /\ mem[new.map[x]] = mem[pt[cur_ctx].map[x]]
    <3> SUFFICES ASSUME NEW x \in Page, x[1] <= t
                 PROVE  /\ new.map[x] = 0 <=> pt[cur_ctx].map[x] = 0
                        /\ mem[new.map[x]] = mem[pt[cur_ctx].map[x]]
      OBVIOUS
    <3>0. x[1] \in Int /\ t \in Int /\ copying.table \in Int
      BY <1>3, <1>5, PageFacts DEF Table, Stack, Temp, Code
    <3>1. CASE x[1] = t
      BY <3>1, <1>9
    <3>2. CASE x[1] # t /\ x[1] <= copying.table
      <4>1. new.map[x] = pt[c].map[x]
        BY <3>2, <1>9
      <4> QED
        BY <4>1, <3>2, <1>0, <1>3, <1>c DEF CopyProgress, Copied
    <3>3. CASE x[1] # t /\ x[1] > copying.table
      <4>1. x[1] \notin TablesAhead
        BY <3>0, <3>3, <1>1, <1>4 DEF TablesAhead
      <4>2. x[1] \notin pt[cur_ctx].held
        BY <4>1, <3>3 DEF TablesAhead
      <4>3. pt[cur_ctx].map[x] = 0 /\ x[1] # Stack
        BY <4>2, <1>0, <1>3, <1>12 DEF FTypeOK, TablesInPlace
      <4>4. pt[c].map[x] = 0
        BY <4>3, <3>3, <1>0, <1>3, <1>c DEF CopyProgress
      <4> QED
        BY <4>3, <4>4, <3>3, <1>9
    <3> QED
      BY <3>0, <3>1, <3>2, <3>3
  <2>5. \A x \in Page : x[1] > t /\ x[1] # Stack => new.map[x] = 0
    <3> SUFFICES ASSUME NEW x \in Page, x[1] > t, x[1] # Stack PROVE new.map[x] = 0
      OBVIOUS
    <3>0. x[1] \in Int /\ t \in Int /\ copying.table \in Int
      BY <1>3, <1>5, PageFacts DEF Table, Stack, Temp, Code
    <3>1. x[1] # t /\ x[1] > copying.table
      BY <3>0, <1>5
    <3> QED
      BY <3>1, <1>0, <1>3, <1>9, <1>c DEF CopyProgress
  <2>6. pagedir'[t] = c
    BY <1>0, <1>1, <1>5, <1>c DEF FTypeOK
  <2> QED
    BY <2>1, <2>2, <2>3, <2>4, <2>5, <2>6, <1>2, <1>10, <1>11 DEF CopyProgress, Copied
<1>20. KernelMarked'
  BY <1>0, <1>1 DEF KernelMarked
<1> QED
  BY <1>15, <1>16, <1>17, <1>18, <1>19, <1>20 DEF FInv

(* One page of fork: the child's entry names a frame that was free, and    *)
(* the frame holds what the parent's page holds.                           *)
PageCopied(c, x, f) ==
  /\ c = copying.child /\ c # cur_ctx
  /\ copying # Null /\ x[1] = copying.table /\ x[2] \in copying.left
  /\ x \in Mapped(cur_ctx)
  /\ pt' \in [Pid -> Entries \cup {Null}] /\ Alive' = Alive
  /\ \A p \in Pid : p # c => pt'[p] = pt[p]
  /\ pt'[c].held = pt[c].held \cup {Temp}
  /\ \A y \in Page : pt'[c].map[y] = IF y = x THEN f ELSE pt[c].map[y]
  /\ x \in Mapped(c) /\ x[1] # Temp
  /\ mem' = [mem EXCEPT ![f] = mem[pt[cur_ctx].map[x]]]
  /\ marked' = marked \cup {f}
  /\ pagedir' \in [Table -> Pid \cup {0}] /\ pagedir'[copying.table] = c
  /\ copying' \in Copying /\ copying' # Null
  /\ copying'.child = c /\ copying'.table = copying.table
  /\ copying'.left = copying.left \ {x[2]}
  /\ UNCHANGED <<brk, cur_ctx, strays>>

LEMMA ForkPageFacts ==
  ASSUME FInv, ForkPage
  PROVE  \E c \in Alive, x \in Page, f \in Frame \ marked : PageCopied(c, x, f)
<1>0. /\ FTypeOK /\ MappedMarked /\ TablesInPlace /\ copying # Null
      /\ 0 \in marked /\ marked \subseteq Frame
  BY DEF FInv, FTypeOK, KernelMarked, ForkPage
<1>c. PICK c \in Alive : c = copying.child
  BY <1>0, CopyingFacts
<1>1. /\ copying \in Copying /\ cur_ctx \in Alive /\ c # cur_ctx
      /\ copying.table \in Table \cup {0} /\ copying.left \in SUBSET Slot /\ CopyProgress
  BY <1>0, <1>c, CopyingFacts
<1>2. PICK s \in copying.left, f \in Frame \ marked :
        LET x == <<copying.table, s>>
            opened == [pt EXCEPT ![c] = MapPage(@, Window, f)]
            dir == [pagedir EXCEPT ![Temp] = c]
        IN  /\ mem' = Copy(opened, dir, x)
            /\ pt' = Remap(opened, c, x, f)
            /\ pagedir' = Register(dir, c, opened[c].held)
            /\ marked' = marked \cup {f}
            /\ copying' = [copying EXCEPT !.left = @ \ {s}]
            /\ UNCHANGED <<brk, cur_ctx, strays>>
  BY <1>c DEF ForkPage
<1>3. PICK x \in Page : x = <<copying.table, s>> /\ x[1] = copying.table /\ x[2] = s
  <2>1. copying.table # 0
    BY <1>0, <1>1 DEF CopyProgress
  <2> QED
    BY <2>1, <1>1, PageFacts
<1>4. x \in Mapped(cur_ctx) /\ pt[cur_ctx].map[x] # 0 /\ pt[cur_ctx].map[x] \in Frame
  <2>1. x \in Mapped(cur_ctx)
    BY <1>0, <1>1, <1>3 DEF CopyProgress
  <2> QED
    BY <2>1, <1>0, <1>1, AliveFacts
<1>5. pt[c].map[x] = pt[cur_ctx].map[x]
  <2>1. Shared(c, x)
    BY <1>0, <1>c, <1>3 DEF Shared
  <2> QED
    BY <2>1, <1>0, <1>1, <1>c DEF CopyProgress
<1>6. x[1] # Temp /\ x # Window
  <2>1. ASSUME x[1] = Temp PROVE FALSE
    <3>1. pt[cur_ctx].map[<<Temp, s>>] = 0
      BY <1>0, <1>1 DEF TablesInPlace
    <3> QED
      BY <2>1, <3>1, <1>3, <1>4
  <2> QED
    BY <2>1 DEF Window
<1>7. /\ c \in Pid /\ pt[c] \in Entries /\ pt[c].held \in SUBSET Table
      /\ pt[c].map \in [Page -> Frame] /\ pt \in [Pid -> Entries \cup {Null}]
      /\ pt[c] = [held |-> pt[c].held, map |-> pt[c].map]
  <2>1. c \in Pid /\ pt[c] \in Entries
    BY <1>0, AliveFacts
  <2> QED
    BY <2>1, <1>0 DEF Entries, FTypeOK
<1>8. Window \in Page /\ Temp \in Table /\ pt[c].map[Window] = 0 /\ 0 \in Frame
  <2>1. pt[c].map[<<Temp, 0>>] = 0
    BY <1>0, PageFacts DEF TablesInPlace
  <2> QED
    BY <2>1, <1>0, PageFacts DEF Window, Table
<1> DEFINE open == MapPage(pt[c], Window, f)
           opened == [pt EXCEPT ![c] = open]
           dir == [pagedir EXCEPT ![Temp] = c]
           done == [held |-> pt[c].held \cup {Temp}, map |-> [pt[c].map EXCEPT ![x] = f]]
<1>9. /\ open = [held |-> pt[c].held \cup {Temp}, map |-> [pt[c].map EXCEPT ![Window] = f]]
      /\ open \in Entries
  <2>1. Window[1] = Temp
    BY DEF Window
  <2>2. open = [held |-> pt[c].held \cup {Temp}, map |-> [pt[c].map EXCEPT ![Window] = f]]
    BY <2>1 DEF MapPage
  <2> QED
    BY <2>2, <1>7, <1>8 DEF Entries
<1>10. /\ mem' = Copy(opened, dir, x)
       /\ pt' = Remap(opened, c, x, f)
       /\ pagedir' = Register(dir, c, opened[c].held)
  BY <1>2, <1>3
<1> HIDE DEF open
<1>11. opened \in [Pid -> Entries \cup {Null}] /\ opened[c] = open
  BY <1>7, <1>9
<1>12. pt' = [pt EXCEPT ![c] = done]
  <2>1. pt' = [opened EXCEPT ![c] = MapPage(MapPage(opened[c], x, f), Window, 0)]
    BY <1>10 DEF Remap
  <2>2. Window[1] = Temp
    BY DEF Window
  <2>3. open.held = pt[c].held \cup {Temp} /\ open.map = [pt[c].map EXCEPT ![Window] = f]
    BY <1>9
  <2>4. x[1] \in pt[c].held
    BY <1>0, <1>3, <1>4, <1>5 DEF FTypeOK, Mapped
  <2>5. MapPage(MapPage(open, x, f), Window, 0) =
          [held |-> (open.held \cup {x[1]}) \cup {Temp},
           map |-> [[open.map EXCEPT ![x] = f] EXCEPT ![Window] = 0]]
    BY <2>2 DEF MapPage
  <2>6. [[open.map EXCEPT ![x] = f] EXCEPT ![Window] = 0] = [pt[c].map EXCEPT ![x] = f]
    BY <2>3, <1>3, <1>6, <1>7, <1>8
  <2>7. (open.held \cup {x[1]}) \cup {Temp} = pt[c].held \cup {Temp}
    BY <2>3, <2>4
  <2>8. pt' = [opened EXCEPT ![c] = done]
    BY <2>1, <2>5, <2>6, <2>7, <1>11
  <2> QED
    BY <2>8, <1>7, <1>11
<1>13. /\ done \in Entries /\ done # Null /\ done.held = pt[c].held \cup {Temp}
       /\ \A y \in Page : done.map[y] = IF y = x THEN f ELSE pt[c].map[y]
  <2>1. done \in Entries
    BY <1>3, <1>7, <1>8 DEF Entries
  <2>2. done.held = pt[c].held \cup {Temp} /\ done.map = [pt[c].map EXCEPT ![x] = f]
    OBVIOUS
  <2> QED
    BY <2>1, <2>2, <1>3, <1>7, NullAssumption
<1> HIDE DEF done
<1>14. /\ pt' \in [Pid -> Entries \cup {Null}] /\ pt'[c] = done
       /\ \A p \in Pid : p # c => pt'[p] = pt[p]
       /\ Alive' = Alive
  <2>1. /\ pt' \in [Pid -> Entries \cup {Null}] /\ pt'[c] = done
        /\ \A p \in Pid : p # c => pt'[p] = pt[p]
    BY <1>7, <1>12, <1>13
  <2> QED
    BY <2>1, <1>13 DEF Alive
<1>15. mem' = [mem EXCEPT ![f] = mem[pt[cur_ctx].map[x]]]
  <2>1. pagedir \in [Table -> Pid \cup {0}] /\ copying.table \in Table /\ pagedir[copying.table] = c
    BY <1>0, <1>1, <1>3, <1>c, PageFacts DEF FTypeOK, CopyProgress, Table, Stack, Temp, Code
  <2>2. dir[Temp] = c /\ dir[x[1]] = c
    BY <2>1, <1>3, <1>8
  <2>3. Window[1] = Temp
    BY DEF Window
  <2>4. open.map[Window] = f /\ open.map[x] = pt[c].map[x]
    BY <1>3, <1>6, <1>7, <1>8, <1>9
  <2> HIDE DEF open, opened, dir
  <2>5. Translate(opened, dir, Window) = f
    BY <2>2, <2>3, <2>4, <1>11 DEF Translate
  <2>6. Translate(opened, dir, x) = pt[cur_ctx].map[x]
    BY <2>2, <2>4, <1>5, <1>11 DEF Translate
  <2> QED
    BY <2>5, <2>6, <1>10 DEF Copy
<1>16. pagedir' \in [Table -> Pid \cup {0}] /\ pagedir'[copying.table] = c
  <2>1. dir \in [Table -> Pid \cup {0}]
    BY <1>0, <1>7 DEF FTypeOK
  <2>2. dir[copying.table] = c /\ copying.table \in Table
    BY <1>0, <1>1, <1>3, <1>6, <1>c, PageFacts DEF FTypeOK, CopyProgress, Table, Stack, Temp, Code
  <2> HIDE DEF dir
  <2> QED
    BY <2>1, <2>2, <1>7, <1>10 DEF Register
<1>17. x \in Mapped(c)
  BY <1>3, <1>4, <1>5 DEF Mapped
<1>18. /\ marked' = marked \cup {f} /\ UNCHANGED <<brk, cur_ctx, strays>>
       /\ copying' \in Copying /\ copying' # Null
       /\ copying'.child = c /\ copying'.table = copying.table
       /\ copying'.left = copying.left \ {x[2]} /\ x[2] \in copying.left
  <2>1. copying' = [copying EXCEPT !.left = copying.left \ {s}]
    BY <1>2
  <2>2. copying' \in Copying
    BY <2>1, <1>1 DEF Copying
  <2>3. /\ copying'.child = c /\ copying'.table = copying.table
        /\ copying'.left = copying.left \ {s}
    BY <2>1, <1>1, <1>c DEF Copying
  <2> QED
    BY <2>2, <2>3, <1>2, <1>3, NullAssumption
<1>19. /\ c = copying.child /\ c # cur_ctx /\ x \in Mapped(cur_ctx)
       /\ copying # Null /\ x[1] = copying.table /\ x[2] \in copying.left
  BY <1>0, <1>c, <1>1, <1>3, <1>4, <1>18
<1>20. /\ pt'[c].held = pt[c].held \cup {Temp}
       /\ \A y \in Page : pt'[c].map[y] = IF y = x THEN f ELSE pt[c].map[y]
  BY <1>13, <1>14
<1> HIDE DEF open, opened, dir
<1>21. PageCopied(c, x, f)
  BY <1>6, <1>14, <1>15, <1>16, <1>17, <1>18, <1>19, <1>20 DEF PageCopied
<1> QED
  BY <1>21

LEMMA ForkPageInv == FInv /\ ForkPage => FInv'
<1> SUFFICES ASSUME FInv, ForkPage PROVE FInv'
  OBVIOUS
<1>0. /\ FTypeOK /\ MappedMarked /\ OneOwner /\ TablesInPlace /\ CopyProgress
      /\ cur_ctx \in Alive /\ 0 \in marked /\ marked \subseteq Frame
  BY DEF FInv, FTypeOK, KernelMarked, ForkPage
<1>p. PICK c \in Alive, x \in Page, f \in Frame \ marked : PageCopied(c, x, f)
  BY ForkPageFacts
<1>1. /\ c = copying.child /\ c # cur_ctx
      /\ copying # Null /\ x[1] = copying.table /\ x[2] \in copying.left
      /\ x \in Mapped(cur_ctx)
      /\ pt' \in [Pid -> Entries \cup {Null}] /\ Alive' = Alive
      /\ \A p \in Pid : p # c => pt'[p] = pt[p]
      /\ pt'[c].held = pt[c].held \cup {Temp}
      /\ \A y \in Page : pt'[c].map[y] = IF y = x THEN f ELSE pt[c].map[y]
      /\ x \in Mapped(c) /\ x[1] # Temp
      /\ mem' = [mem EXCEPT ![f] = mem[pt[cur_ctx].map[x]]]
      /\ marked' = marked \cup {f}
      /\ pagedir' \in [Table -> Pid \cup {0}] /\ pagedir'[copying.table] = c
      /\ copying' \in Copying /\ copying' # Null
      /\ copying'.child = c /\ copying'.table = copying.table
      /\ copying'.left = copying.left \ {x[2]}
      /\ UNCHANGED <<brk, cur_ctx, strays>>
  BY <1>p DEF PageCopied
<1>2. f # 0 /\ f \in Frame
  BY <1>0
<1>3. /\ \A p \in Alive : p # c => pt'[p] = pt[p] /\ Mapped(p)' = Mapped(p)
      /\ pt'[cur_ctx] = pt[cur_ctx] /\ Mapped(cur_ctx)' = Mapped(cur_ctx)
      /\ Mapped(c)' = Mapped(c)
  <2>1. \A p \in Alive : p # c => pt'[p] = pt[p]
    BY <1>1 DEF Alive
  <2>2. \A y \in Page : pt'[c].map[y] # 0 <=> pt[c].map[y] # 0
    BY <1>1, <1>2 DEF Mapped
  <2> QED
    BY <2>1, <2>2, <1>0, <1>1 DEF Mapped
<1>4. \A y \in Page : y # x => Shared(c, y)' = Shared(c, y)
  <2> SUFFICES ASSUME NEW y \in Page, y # x PROVE Shared(c, y)' <=> Shared(c, y)
    BY DEF Shared
  <2>1. y[1] = x[1] => y[2] # x[2]
    BY PageFacts
  <2> QED
    BY <2>1, <1>1 DEF Shared
<1>5. \A p \in Alive : p # c => \A y : ~Shared(p, y) /\ ~Shared(p, y)'
  BY <1>1 DEF Shared
<1>6. \A p \in Alive : \A y \in Mapped(p) : pt[p].map[y] # f /\ pt[p].map[y] \in marked
  BY <1>0 DEF MappedMarked
<1>7. FTypeOK'
  <2>1. \A p \in Alive' : \A y \in Mapped(p)' : y[1] \in pt'[p].held
    BY <1>0, <1>1, <1>3 DEF FTypeOK
  <2>2. mem' \in [Frame -> Value] /\ brk' \in [Pid -> Break]
    <3>1. pt[cur_ctx].map[x] \in Frame
      BY <1>0, <1>1, AliveFacts
    <3> QED
      BY <3>1, <1>0, <1>1, <1>2 DEF FTypeOK
  <2> QED
    BY <2>1, <2>2, <1>0, <1>1 DEF FTypeOK
<1>8. MappedMarked'
  <2> SUFFICES ASSUME NEW p \in Alive, NEW y \in Mapped(p) PROVE pt'[p].map[y] \in marked'
    BY <1>1, <1>3 DEF MappedMarked
  <2>1. CASE p = c
    BY <2>1, <1>0, <1>1 DEF MappedMarked, Mapped
  <2>2. CASE p # c
    BY <2>2, <1>0, <1>1, <1>3 DEF MappedMarked
  <2> QED
    BY <2>1, <2>2
<1>9. OneOwner'
  <2>1. SUFFICES ASSUME NEW p \in Alive, NEW q \in Alive, NEW y \in Mapped(p), NEW z \in Mapped(q),
                        pt'[p].map[y] = pt'[q].map[z], ~Shared(p, y)', ~Shared(q, z)'
                 PROVE  p = q /\ y = z
    BY <1>1, <1>3 DEF OneOwner
  <2>2. y \in Page /\ z \in Page
    BY DEF Mapped
  <2>3. \A r \in Alive : \A v \in Mapped(r) : ~(r = c /\ v = x) =>
           pt'[r].map[v] = pt[r].map[v] /\ (~Shared(r, v)' => ~Shared(r, v))
    BY <1>1, <1>3, <1>4, <1>5 DEF Mapped
  <2>4. CASE p = c /\ y = x /\ ~(q = c /\ z = x)
    <3>1. pt'[p].map[y] = f
      BY <2>4, <1>1
    <3>2. pt'[q].map[z] # f
      BY <2>3, <2>4, <1>6
    <3> QED
      BY <2>1, <3>1, <3>2
  <2>5. CASE q = c /\ z = x /\ ~(p = c /\ y = x)
    <3>1. pt'[q].map[z] = f
      BY <2>5, <1>1
    <3>2. pt'[p].map[y] # f
      BY <2>3, <2>5, <1>6
    <3> QED
      BY <2>1, <3>1, <3>2
  <2>6. CASE ~(p = c /\ y = x) /\ ~(q = c /\ z = x)
    <3>1. pt[p].map[y] = pt[q].map[z] /\ ~Shared(p, y) /\ ~Shared(q, z)
      BY <2>1, <2>3, <2>6
    <3> QED
      BY <3>1, <1>0 DEF OneOwner
  <2>7. CASE (p = c /\ y = x) /\ (q = c /\ z = x)
    BY <2>7
  <2> QED
    <3> DEFINE First == p = c /\ y = x
               Second == q = c /\ z = x
    <3>1. \/ First /\ ~Second
          \/ Second /\ ~First
          \/ ~First /\ ~Second
          \/ First /\ Second
      <4> HIDE DEF First, Second
      <4> QED
        OBVIOUS
    <3> QED
      BY <3>1, <2>4, <2>5, <2>6, <2>7
<1>10. TablesInPlace'
  <2>1. \A s \in Slot : <<Temp, s>> \in Page /\ <<Temp, s>> # x
    <3>1. Temp \in Table
      BY DEF Table
    <3>2. \A s \in Slot : <<Temp, s>> \in Page /\ <<Temp, s>>[1] = Temp
      BY <3>1, PageFacts
    <3>3. x[1] # Temp
      BY <1>1
    <3> QED
      BY <3>2, <3>3
  <2>2. Stack \in pt'[c].held /\ \A s \in Slot : pt'[c].map[<<Temp, s>>] = 0
    BY <2>1, <1>0, <1>1 DEF TablesInPlace
  <2>3. \A p \in Alive' : Stack \in pt'[p].held /\ \A s \in Slot : pt'[p].map[<<Temp, s>>] = 0
    BY <2>2, <1>0, <1>1, <1>3 DEF TablesInPlace
  <2> QED
    BY <2>3, <1>1 DEF TablesInPlace, Running
<1>11. CopyProgress'
  <2>1. \A s \in copying'.left : copying'.table # 0 /\ <<copying'.table, s>> \in Mapped(cur_ctx)'
    BY <1>0, <1>1, <1>3 DEF CopyProgress
  <2>2. \A y \in Page : Shared(c, y)' => pt'[c].map[y] = pt[cur_ctx].map[y]
    <3>1. ~Shared(c, x)'
      BY <1>1 DEF Shared
    <3> QED
      BY <3>1, <1>0, <1>1, <1>4 DEF CopyProgress
  <2>3. \A y \in Page : y[1] <= copying.table =>
          /\ pt'[c].map[y] = 0 <=> pt[cur_ctx].map[y] = 0
          /\ mem'[pt'[c].map[y]] = mem'[pt[cur_ctx].map[y]]
    <3> SUFFICES ASSUME NEW y \in Page, y[1] <= copying.table
                 PROVE  /\ pt'[c].map[y] = 0 <=> pt[cur_ctx].map[y] = 0
                        /\ mem'[pt'[c].map[y]] = mem'[pt[cur_ctx].map[y]]
      OBVIOUS
    <3>0. mem \in [Frame -> Value] /\ \A g \in Frame : g # f => mem'[g] = mem[g]
      BY <1>0, <1>1 DEF FTypeOK
    <3>1. \A p \in Alive : pt[p].map[y] \in Frame /\ pt[p].map[y] # f
      BY <1>0, <1>2, <1>6, AliveFacts DEF Mapped
    <3>2. mem'[pt[cur_ctx].map[y]] = mem[pt[cur_ctx].map[y]]
      BY <3>0, <3>1, <1>0
    <3>3. CASE y = x
      <4>1. pt[cur_ctx].map[x] # 0 /\ pt'[c].map[y] = f
        BY <3>3, <1>1 DEF Mapped
      <4>2. mem'[f] = mem[pt[cur_ctx].map[x]]
        BY <3>0, <1>1
      <4> QED
        BY <3>2, <3>3, <4>1, <4>2, <1>2
    <3>4. CASE y # x
      <4>1. pt'[c].map[y] = pt[c].map[y] /\ mem'[pt[c].map[y]] = mem[pt[c].map[y]]
        BY <3>0, <3>1, <3>4, <1>1
      <4>2. /\ pt[c].map[y] = 0 <=> pt[cur_ctx].map[y] = 0
            /\ mem[pt[c].map[y]] = mem[pt[cur_ctx].map[y]]
        BY <1>0, <1>1 DEF CopyProgress, Copied
      <4> QED
        BY <3>2, <4>1, <4>2
    <3> QED
      BY <3>3, <3>4
  <2>4. \A y \in Page : y[1] > copying.table /\ y[1] # Stack => pt'[c].map[y] = 0
    <3>1. copying.table \in Int
      BY <1>0, <1>1 DEF FTypeOK, Copying, Table, Stack, Temp, Code
    <3>2. \A y \in Page : y[1] > copying.table => y # x
      BY <3>1, <1>1
    <3> QED
      BY <3>2, <1>0, <1>1 DEF CopyProgress
  <2> QED
    BY <2>1, <2>2, <2>3, <2>4, <1>1, <1>3 DEF CopyProgress, Copied
<1>12. KernelMarked'
  BY <1>0, <1>1 DEF KernelMarked
<1> QED
  BY <1>7, <1>8, <1>9, <1>10, <1>11, <1>12 DEF FInv

LEMMA ForkEndInv == FInv /\ ForkEnd => FInv'
<1> SUFFICES ASSUME FInv, ForkEnd PROVE FInv'
  OBVIOUS
<1>0. /\ FTypeOK /\ OneOwner /\ TablesInPlace /\ copying # Null /\ copying.left = {}
  BY DEF FInv, FTypeOK, ForkEnd
<1>c. PICK c \in Alive : c = copying.child
  BY <1>0, CopyingFacts
<1>1. PICK i \in Alive \ {cur_ctx} :
        /\ cur_ctx' = i
        /\ pagedir' = Register(Register(pagedir, c, pt[c].held), i, pt[i].held)
  BY <1>c DEF ForkEnd
<1>2. copying' = Null /\ UNCHANGED <<pt, brk, marked, mem, strays>> /\ Alive' = Alive
  BY DEF ForkEnd, Alive
<1>3. Register(pagedir, c, pt[c].held) \in [Table -> Pid \cup {0}]
  <2>1. c \in Pid
    BY <1>0, AliveFacts
  <2> QED
    BY <2>1, <1>0 DEF Register, FTypeOK
<1>4. /\ pagedir' \in [Table -> Pid \cup {0}]
      /\ \A t \in pt'[cur_ctx'].held : pagedir'[t] = cur_ctx'
  BY <1>1, <1>2, <1>3, SwitchFacts
<1>5. \A p : Mapped(p)' = Mapped(p)
  BY <1>2 DEF Mapped
<1>6. FTypeOK' /\ MappedMarked'
  BY <1>1, <1>2, <1>4, <1>5 DEF FInv, FTypeOK, MappedMarked
<1>7. OneOwner'
  BY <1>0, <1>2, <1>5 DEF OneOwner, Shared
<1>8. TablesInPlace'
  BY <1>0, <1>2, <1>4 DEF TablesInPlace
<1>9. CopyProgress'
  BY <1>2 DEF CopyProgress
<1>10. KernelMarked'
  BY <1>2 DEF FInv, KernelMarked
<1> QED
  BY <1>6, <1>7, <1>8, <1>9, <1>10 DEF FInv

(* Every step keeps the invariant. *)
LEMMA NextFInv == FInv /\ [Next]_vars => FInv'
<1> SUFFICES ASSUME FInv, [Next]_vars PROVE FInv'
  OBVIOUS
<1>1. CASE UNCHANGED vars
  BY <1>1 DEF vars, FInv, FTypeOK, MappedMarked, OneOwner, TablesInPlace, CopyProgress,
              KernelMarked, Alive, Mapped, Shared, Copied, Running
<1>2. CASE Next
  BY <1>2, StoreInv, SwitchInv, GrowInv, ShrinkInv, ExecveInv, ExitInv,
     ForkBeginInv, ForkTableInv, ForkPageInv, ForkEndInv DEF Next
<1> QED
  BY <1>1, <1>2

-----------------------------------------------------------------------------
(* The loop that grows comes to every page between the two breaks, *)
LEMMA GrowCovers ==
  ASSUME NEW from \in Nat, NEW to \in Nat, NEW a \in Nat, from <= a, a < to
  PROVE  a \div PAGE \in SlotsToGrow(from, to)
<1> DEFINE i == a \div PAGE - from \div PAGE
<1>1. /\ a \div PAGE \in Int /\ from \div PAGE \in Int /\ from \div PAGE <= a \div PAGE
      /\ PAGE * (a \div PAGE) <= a /\ from < PAGE * (from \div PAGE) + PAGE
  BY PageOf, PageOrder
<1>2. i \in Nat
  BY <1>1
<1>3. PAGE * i <= to - from + PAGE - 1
  BY <1>1, SizesAssumption
<1>4. i <= Ceil(to - from)
  <2> DEFINE n == to - from + PAGE - 1
  <2>1. n \in Nat
    BY SizesAssumption
  <2>2. n \div PAGE \in Int /\ n < PAGE * (n \div PAGE) + PAGE
    BY <2>1, PageOf
  <2>3. n \div PAGE + 1 <= i => PAGE * (n \div PAGE + 1) <= PAGE * i
    BY <1>2, <2>2, TimesPage
  <2> HIDE DEF i
  <2>4. i <= n \div PAGE
    BY <1>2, <1>3, <2>1, <2>2, <2>3, SizesAssumption
  <2> QED
    BY <2>4 DEF Ceil
<1>5. Ceil(to - from) \in Int
  <2>1. to - from + PAGE - 1 \in Nat
    BY SizesAssumption
  <2> QED
    BY <2>1, PageOf DEF Ceil
<1>6. a \div PAGE = (from + PAGE * i) \div PAGE
  BY <1>1, <1>2, PagesOn
<1> HIDE DEF i
<1> QED
  BY <1>2, <1>4, <1>5, <1>6 DEF SlotsToGrow

(* and a tame brk takes no page away that an address below the new break   *)
(* is in.                                                                  *)
LEMMA TameSpares ==
  ASSUME NEW to \in Nat, NEW slots \in SUBSET Slot, Tame(to, slots), NEW a \in Nat, a < to
  PROVE  a \div PAGE \notin slots
<1> SUFFICES ASSUME a \div PAGE \in slots PROVE FALSE
  OBVIOUS
<1>1. a \div PAGE \in Int /\ PAGE * (a \div PAGE) <= a
  BY PageOf
<1>2. to <= (a \div PAGE) * PAGE
  BY DEF Tame
<1> QED
  BY <1>1, <1>2, SizesAssumption

(* A child under construction has the break it was born with.              *)
HeapInv ==
  /\ HeapMapped
  /\ copying # Null => brk[copying.child] = FirstBreak

LEMMA BreakFacts ==
  ASSUME FInv
  PROVE  /\ FirstBreak \in Nat /\ Break \subseteq Nat
         /\ \A p \in Pid : brk[p] \in Nat
         /\ cur_ctx \in Pid /\ cur_ctx \in Alive
<1>1. FirstBreak \in Nat /\ Break \subseteq Nat
  BY FirstBreakFits, SizesAssumption DEF Break
<1> QED
  BY <1>1 DEF FInv, FTypeOK, Alive

(* A process that is new, or keeps its break and the pages of its heap. *)
LEMMA HeapStays ==
  ASSUME FInv, HeapMapped,
         strays' = 0 => strays = 0,
         \A p \in Alive' :
           \/ brk'[p] = FirstBreak
           \/ /\ p \in Alive /\ brk'[p] = brk[p]
              /\ \A x \in Mapped(p) : x[1] = Stack => x \in Mapped(p)'
  PROVE  HeapMapped'
<1> SUFFICES ASSUME strays = 0, NEW p \in Alive', NEW a \in FirstBreak .. brk'[p] - 1
             PROVE  <<Stack, a \div PAGE>> \in Mapped(p)'
  BY DEF HeapMapped, FirstBreak
<1>1. CASE brk'[p] = FirstBreak
  BY <1>1, BreakFacts
<1>2. CASE /\ p \in Alive /\ brk'[p] = brk[p]
           /\ \A x \in Mapped(p) : x[1] = Stack => x \in Mapped(p)'
  <2>1. <<Stack, a \div PAGE>> \in Mapped(p)
    BY <1>2 DEF HeapMapped
  <2> QED
    BY <1>2, <2>1
<1> QED
  BY <1>1, <1>2

(* brk upwards. *)
LEMMA GrowHeap == ASSUME FInv, HeapMapped, SysBrkGrow PROVE HeapMapped'
<1>0. strays' = strays /\ (strays = 0 => 0 \in marked)
  BY DEF SysBrkGrow, FInv, KernelMarked
<1> SUFFICES ASSUME strays = 0, 0 \in marked PROVE HeapMapped'
  BY <1>0 DEF HeapMapped
<1>1. PICK to \in Break :
        /\ to >= brk[cur_ctx]
        /\ SlotsToGrow(brk[cur_ctx], to) \subseteq Slot
        /\ LET slots == {s \in SlotsToGrow(brk[cur_ctx], to) : pt[cur_ctx].map[<<Stack, s>>] = 0}
           IN  \E fresh \in [slots -> Frame] :
                 /\ IsGrant(fresh, slots)
                 /\ pt' = [pt EXCEPT ![cur_ctx] = MapFresh(@, Stack, fresh, slots)]
        /\ brk' = [brk EXCEPT ![cur_ctx] = to]
  BY DEF SysBrkGrow
<1> DEFINE slots == {s \in SlotsToGrow(brk[cur_ctx], to) : pt[cur_ctx].map[<<Stack, s>>] = 0}
<1>2. PICK fresh \in [slots -> Frame] :
        /\ IsGrant(fresh, slots)
        /\ pt' = [pt EXCEPT ![cur_ctx] = MapFresh(@, Stack, fresh, slots)]
  BY <1>1
<1>3. /\ FTypeOK /\ cur_ctx \in Alive /\ cur_ctx \in Pid
      /\ pt[cur_ctx] \in Entries /\ Stack \in Table
  BY BreakFacts, AliveFacts DEF FInv, FTypeOK, Table
<1>4. slots \in SUBSET Slot
  BY <1>1
<1>5. \A s \in slots : fresh[s] # 0
  <2>1. fresh \in [slots -> Frame] /\ IsGrant(fresh, slots)
    BY <1>2
  <2> HIDE DEF slots
  <2>2. \A s \in slots : fresh[s] \in Frame \ marked
    BY <2>1, <1>4, GrantFacts
  <2> QED
    BY <2>2
<1> DEFINE new == MapFresh(pt[cur_ctx], Stack, fresh, slots)
<1>6. \A x \in Page : new.map[x] = IF x[1] = Stack /\ x[2] \in slots THEN fresh[x[2]]
                                   ELSE pt[cur_ctx].map[x]
  BY DEF MapFresh
<1>7. /\ pt'[cur_ctx] = new /\ brk'[cur_ctx] = to
      /\ \A p \in Pid : p # cur_ctx => pt'[p] = pt[p] /\ brk'[p] = brk[p]
  BY <1>1, <1>2, <1>3 DEF FTypeOK
<1>c. cur_ctx' = cur_ctx
  BY DEF SysBrkGrow
<1> HIDE DEF new, slots
<1>8. /\ \A x \in Mapped(cur_ctx) : x \in Mapped(cur_ctx)'
      /\ \A s \in SlotsToGrow(brk[cur_ctx], to) : <<Stack, s>> \in Mapped(cur_ctx)'
  <2>1. \A x \in Page : pt[cur_ctx].map[x] # 0 => new.map[x] # 0
    BY <1>5, <1>6
  <2>0. \A x \in Page : new.map[x] # 0 => x \in Mapped(cur_ctx)'
    BY <1>7, <1>c DEF Mapped
  <2>2. \A s \in SlotsToGrow(brk[cur_ctx], to) : new.map[<<Stack, s>>] # 0 /\ <<Stack, s>> \in Page
    <3> SUFFICES ASSUME NEW s \in SlotsToGrow(brk[cur_ctx], to)
                 PROVE  new.map[<<Stack, s>>] # 0 /\ <<Stack, s>> \in Page
      OBVIOUS
    <3>1. <<Stack, s>> \in Page /\ <<Stack, s>>[1] = Stack /\ <<Stack, s>>[2] = s
      BY <1>1, <1>3, PageFacts
    <3> QED
      BY <1>5, <1>6, <3>1 DEF slots
  <2> QED
    BY <2>0, <2>1, <2>2 DEF Mapped
<1> SUFFICES ASSUME NEW p \in Alive', NEW a \in FirstBreak .. brk'[p] - 1
             PROVE  <<Stack, a \div PAGE>> \in Mapped(p)'
  BY DEF HeapMapped, FirstBreak
<1>9. CASE p # cur_ctx
  BY <1>7, <1>9 DEF HeapMapped, Alive, Mapped
<1>10. CASE p = cur_ctx /\ a < brk[cur_ctx]
  <2>1. a \in FirstBreak .. brk[cur_ctx] - 1
    BY <1>10, BreakFacts
  <2> QED
    BY <1>3, <1>8, <1>c, <1>10, <2>1 DEF HeapMapped
<1>11. CASE p = cur_ctx /\ a >= brk[cur_ctx]
  <2>1. a \in Nat /\ a < to /\ to \in Nat /\ brk[cur_ctx] \in Nat
    BY <1>3, <1>7, <1>11, BreakFacts
  <2> QED
    BY <1>8, <1>c, <1>11, <2>1, GrowCovers
<1> QED
  BY <1>9, <1>10, <1>11, BreakFacts

(* brk downwards. *)
LEMMA ShrinkHeap == ASSUME FInv, HeapMapped, SysBrkShrink PROVE HeapMapped'
<1>1. PICK to \in Break :
        /\ to < brk[cur_ctx]
        /\ strays' = IF Tame(to, SlotsToShrink(brk[cur_ctx], to)) THEN strays ELSE strays + 1
        /\ pt' = [pt EXCEPT ![cur_ctx] = Unmap(@, SlotsToShrink(brk[cur_ctx], to))]
        /\ brk' = [brk EXCEPT ![cur_ctx] = to]
  BY DEF SysBrkShrink
<1> DEFINE slots == SlotsToShrink(brk[cur_ctx], to)
           new == Unmap(pt[cur_ctx], slots)
<1>2. FTypeOK /\ cur_ctx \in Alive /\ cur_ctx \in Pid /\ pt[cur_ctx] \in Entries
  BY BreakFacts, AliveFacts DEF FInv
<1>3. \A x \in Page : new.map[x] = IF x[1] = Stack /\ x[2] \in slots THEN 0 ELSE pt[cur_ctx].map[x]
  BY <1>2, UnmapFacts
<1>4. /\ pt'[cur_ctx] = new /\ brk'[cur_ctx] = to
      /\ \A p \in Pid : p # cur_ctx => pt'[p] = pt[p] /\ brk'[p] = brk[p]
  BY <1>1, <1>2 DEF FTypeOK
<1>s. slots \in SUBSET Slot
  BY <1>1, <1>2, ShrinkSlots DEF FTypeOK
<1>t. ASSUME strays' = 0 PROVE strays = 0 /\ Tame(to, slots)
  <2>1. strays \in Nat /\ strays' = IF Tame(to, slots) THEN strays ELSE strays + 1
    BY <1>1, <1>2 DEF FTypeOK
  <2> HIDE DEF slots
  <2> QED
    BY <1>t, <2>1
<1> HIDE DEF new, slots
<1> SUFFICES ASSUME strays = 0, Tame(to, slots), NEW p \in Alive', NEW a \in FirstBreak .. brk'[p] - 1
             PROVE  <<Stack, a \div PAGE>> \in Mapped(p)'
  BY <1>t DEF HeapMapped, FirstBreak
<1>5. CASE p # cur_ctx
  BY <1>4, <1>5 DEF HeapMapped, Alive, Mapped
<1>6. CASE p = cur_ctx
  <2>1. a \in Nat /\ a < to /\ to \in Nat /\ brk[cur_ctx] \in Nat /\ a \in FirstBreak .. brk[cur_ctx] - 1
    BY <1>1, <1>2, <1>4, <1>6, BreakFacts
  <2>2. a \div PAGE \notin slots
    BY <1>s, <2>1, TameSpares
  <2>3. <<Stack, a \div PAGE>> \in Mapped(cur_ctx)
    BY <1>2, <2>1 DEF HeapMapped
  <2> QED
    BY <1>3, <1>4, <1>6, <2>2, <2>3 DEF Mapped
<1> QED
  BY <1>5, <1>6

(* execve maps pages of the code, and none of the heap. *)
LEMMA ExecveHeap == ASSUME FInv, HeapMapped, SysExecve PROVE HeapMapped'
<1>1. PICK n \in 1 .. CodePages : \E fresh \in [0 .. n - 1 -> Frame] :
         pt' = [pt EXCEPT ![cur_ctx] = MapFresh(@, Code, fresh, 0 .. n - 1)]
  BY DEF SysExecve
<1>2. PICK fresh \in [0 .. n - 1 -> Frame] :
         pt' = [pt EXCEPT ![cur_ctx] = MapFresh(@, Code, fresh, 0 .. n - 1)]
  BY <1>1
<1> DEFINE new == MapFresh(pt[cur_ctx], Code, fresh, 0 .. n - 1)
<1>3. \A x \in Page : x[1] = Stack => new.map[x] = pt[cur_ctx].map[x]
  BY DEF MapFresh, Stack, Code
<1>4. pt'[cur_ctx] = new /\ \A p \in Pid : p # cur_ctx => pt'[p] = pt[p]
  BY <1>2, BreakFacts DEF FInv, FTypeOK
<1> HIDE DEF new
<1>5. brk' = brk /\ strays' = strays /\ cur_ctx \in Alive
  BY BreakFacts DEF SysExecve
<1>6. \A p \in Alive' : p \in Alive /\ \A x \in Mapped(p) : x[1] = Stack => x \in Mapped(p)'
  BY <1>3, <1>4, <1>5 DEF Alive, Mapped
<1> QED
  BY <1>5, <1>6, HeapStays

(* fork changes the pages of its child, which has not moved its break. *)
LEMMA ForkHeap ==
  ASSUME FInv, HeapInv, ForkBegin \/ ForkTable \/ ForkPage PROVE HeapInv'
<1>1. PICK c \in Pid :
        /\ copying' # Null /\ copying'.child = c /\ brk'[c] = FirstBreak
        /\ \A p \in Pid : p # c => pt'[p] = pt[p] /\ brk'[p] = brk[p]
  <2>1. CASE ForkBegin
    <3>1. PICK pid \in Pid :
            /\ copying' = [child |-> pid, table |-> 0, left |-> {}]
            /\ brk' = [brk EXCEPT ![pid] = FirstBreak]
            /\ \E entries : pt' = [pt EXCEPT ![pid] = entries]
      BY <2>1 DEF ForkBegin
    <3>2. copying' \in Copying
      BY <3>1 DEF Copying
    <3> QED
      BY <3>1, <3>2, NullAssumption DEF FInv, FTypeOK
  <2>2. CASE ForkTable \/ ForkPage
    <3>1. /\ copying # Null /\ brk' = brk
          /\ \E entries : pt' = [pt EXCEPT ![copying.child] = entries]
          /\ \E t \in Table \cup {0}, l \in SUBSET Slot :
               copying' = [child |-> copying.child, table |-> t, left |-> l]
      <4>1. CASE ForkTable
        <5>1. copying # Null /\ copying \in Copying /\ pt[cur_ctx].held \in SUBSET Table
          BY <4>1, CopyingFacts, AliveFacts DEF ForkTable, FInv
        <5>2. PICK t \in TablesAhead :
                /\ pt' = [pt EXCEPT ![copying.child] = ShareTable(@, t)]
                /\ copying' = [copying EXCEPT !.table = t,
                                 !.left = {s \in Slot : <<t, s>> \in Mapped(cur_ctx)}]
          BY <4>1 DEF ForkTable
        <5> DEFINE l == {s \in Slot : <<t, s>> \in Mapped(cur_ctx)}
        <5>3. t \in Table /\ l \in SUBSET Slot
          BY <5>1 DEF TablesAhead
        <5> HIDE DEF l
        <5>4. copying' = [child |-> copying.child, table |-> t, left |-> l]
          BY <5>1, <5>2 DEF Copying, l
        <5> QED
          BY <4>1, <5>1, <5>2, <5>3, <5>4 DEF ForkTable
      <4>2. CASE ForkPage
        <5>1. PICK c \in Alive, x \in Page, f \in Frame \ marked : PageCopied(c, x, f)
          BY <4>2, ForkPageFacts
        <5>2. /\ copying # Null /\ copying \in Copying /\ c = copying.child /\ brk' = brk
              /\ copying' \in Copying /\ copying'.child = c
          BY <5>1, CopyingFacts DEF PageCopied
        <5>3. copying' = [child |-> copying.child, table |-> copying'.table, left |-> copying'.left]
          BY <5>2 DEF Copying
        <5>4. copying'.table \in Table \cup {0} /\ copying'.left \in SUBSET Slot
          BY <5>2 DEF Copying
        <5>5. pt' \in [Pid -> Entries \cup {Null}] /\ \A p \in Pid : p # c => pt'[p] = pt[p]
          BY <5>1 DEF PageCopied
        <5>6. pt' = [pt EXCEPT ![copying.child] = pt'[c]]
          BY <5>2, <5>5 DEF FInv, FTypeOK
        <5> QED
          BY <5>2, <5>3, <5>4, <5>6
      <4> QED
        BY <2>2, <4>1, <4>2
    <3>2. copying.child \in Pid /\ brk[copying.child] = FirstBreak
      BY <3>1, CopyingFacts DEF Copying, HeapInv
    <3>3. copying' # Null /\ copying'.child = copying.child
      <4>1. copying' \in Copying
        BY <3>1, <3>2 DEF Copying
      <4> QED
        BY <3>1, <4>1, NullAssumption
    <3>4. \A p \in Pid : p # copying.child => pt'[p] = pt[p]
      BY <3>1 DEF FInv, FTypeOK
    <3> QED
      BY <3>1, <3>2, <3>3, <3>4
  <2> QED
    BY <2>1, <2>2
<1>2. \A p \in Alive' : brk'[p] = FirstBreak \/
         (p \in Alive /\ brk'[p] = brk[p] /\ \A x \in Mapped(p) : x[1] = Stack => x \in Mapped(p)')
  BY <1>1 DEF Alive, Mapped
<1>3. strays' = strays
  <2>1. CASE ForkPage
    BY <2>1, ForkPageFacts DEF PageCopied
  <2> QED
    BY <2>1 DEF ForkBegin, ForkTable
<1>4. HeapMapped'
  BY <1>2, <1>3, HeapStays DEF HeapInv
<1> QED
  BY <1>1, <1>4 DEF HeapInv, FirstBreak

(* Every step keeps the heap below the break. *)
LEMMA NextHeap == FInv /\ HeapInv /\ [Next]_vars => HeapInv'
<1> SUFFICES ASSUME FInv, HeapInv, [Next]_vars PROVE HeapInv'
  OBVIOUS
<1>1. CASE ForkBegin \/ ForkTable \/ ForkPage
  BY <1>1, ForkHeap
<1>2. CASE SysBrkGrow \/ SysBrkShrink \/ SysExecve
  BY <1>2, GrowHeap, ShrinkHeap, ExecveHeap
     DEF HeapInv, SysBrkGrow, SysBrkShrink, SysExecve, Running
<1>3. CASE Store \/ Switch \/ SysExit \/ ForkEnd \/ UNCHANGED vars
  <2>1. strays' = strays /\ \A p \in Alive' : p \in Alive /\ pt'[p] = pt[p] /\ brk'[p] = brk[p]
    <3>1. CASE SysExit
      <4>1. /\ pt' = [pt EXCEPT ![cur_ctx] = Null] /\ strays' = strays
            /\ brk' = [brk EXCEPT ![cur_ctx] = FirstBreak]
        BY <3>1 DEF SysExit
      <4> QED
        BY <4>1 DEF Alive, FInv, FTypeOK
    <3> QED
      BY <1>3, <3>1 DEF Store, Switch, ForkEnd, vars, Alive
  <2>2. HeapMapped'
    BY <2>1, HeapStays DEF HeapInv, Mapped
  <2>3. copying' = Null \/ (copying' = copying /\ brk' = brk)
    BY <1>3 DEF Store, Switch, SysExit, ForkEnd, Running, vars
  <2> QED
    BY <2>2, <2>3 DEF HeapInv, FirstBreak
<1> QED
  BY <1>1, <1>2, <1>3 DEF Next

LEMMA InitHeap == Init => HeapInv
<1> SUFFICES ASSUME Init PROVE HeapInv
  OBVIOUS
<1>1. FirstBreak \in Nat
  BY InitFInv, BreakFacts
<1>2. copying = Null /\ \A p \in Pid : brk[p] = FirstBreak
  BY DEF Init
<1> QED
  BY <1>1, <1>2 DEF HeapInv, HeapMapped, Alive

-----------------------------------------------------------------------------
(* Whatever programs do, page tables, frames and the copies of fork stay   *)
(* consistent.                                                             *)
THEOREM FramesInvariance == Spec => []FInv
<1> QED
  BY InitFInv, NextFInv, PTL DEF Spec

(* The page tables, the directory and the bitmap have their types.         *)
THEOREM FramesType == Spec => []FTypeOK
<1>1. FInv => FTypeOK
  BY DEF FInv
<1> QED
  BY <1>1, FramesInvariance, PTL

(* No frame has two owners, except while fork has not yet copied it.       *)
THEOREM FramesOneOwner == Spec => []OneOwner
<1>1. FInv => OneOwner
  BY DEF FInv
<1> QED
  BY <1>1, FramesInvariance, PTL

(* get_page_block never hands out a frame that somebody's page is in.      *)
THEOREM FramesMarked == Spec => []MappedMarked
<1>1. FInv => MappedMarked
  BY DEF FInv
<1> QED
  BY <1>1, FramesInvariance, PTL

(* As long as no brk has given back a page that is not mapped or that      *)
(* reaches below the new break, every address between the break a process  *)
(* is born with and its break is in a page of the process, wherever in a   *)
(* page the breaks lie: the loop of usys_brk that grows comes to every     *)
(* page, and the frames it is given are not the kernel's.                  *)
THEOREM FramesHeapMapped == Spec => []HeapMapped
<1>1. Init => FInv /\ HeapInv
  BY InitFInv, InitHeap
<1>2. FInv /\ HeapInv /\ [Next]_vars => FInv' /\ HeapInv'
  BY NextFInv, NextHeap
<1>3. HeapInv => HeapMapped
  BY DEF HeapInv
<1> QED
  BY <1>1, <1>2, <1>3, PTL DEF Spec

-----------------------------------------------------------------------------
(* Frames implements AddressSpaces: sharing frames, tables and a page      *)
(* directory does not show.                                                *)

LEMMA SpaceValue ==
  ASSUME NEW p \in Pid
  PROVE  /\ Visible(p) => Space[p] = [x \in Mapped(p) |-> mem[pt[p].map[x]]]
         /\ ~Visible(p) => Space[p] = Null
         /\ Visible(p)' => Space'[p] = [x \in Mapped(p)' |-> mem'[pt'[p].map[x]]]
         /\ ~Visible(p)' => Space'[p] = Null
BY DEF Space, Visible, Mapped, Alive

(* A process that fork is done with has a memory, before a step and after. *)
LEMMA SpaceNotNull ==
  ASSUME FTypeOK, NEW p \in Pid, Visible(p)
  PROVE  Space[p] # Null
<1>1. p \in Alive
  BY DEF Visible
<1>2. Mapped(p) \in SUBSET Page /\ \A x \in Mapped(p) : mem[pt[p].map[x]] \in Value
  BY <1>1, AliveFacts DEF FTypeOK
<1>3. [x \in Mapped(p) |-> mem[pt[p].map[x]]] \in [Mapped(p) -> Value]
  BY <1>2
<1> QED
  BY <1>2, <1>3, SpaceValue, NullAssumption

LEMMA SpaceNotNullNext ==
  ASSUME FTypeOK', NEW p \in Pid, Visible(p)'
  PROVE  Space'[p] # Null
<1>1. p \in Alive' /\ pt'[p] \in Entries
  BY DEF Visible, Alive, FTypeOK
<1>2. Mapped(p)' \in SUBSET Page /\ \A x \in Mapped(p)' : mem'[pt'[p].map[x]] \in Value
  BY <1>1 DEF Mapped, FTypeOK, Entries
<1>3. [x \in Mapped(p)' |-> mem'[pt'[p].map[x]]] \in [Mapped(p)' -> Value]
  BY <1>2
<1> QED
  BY <1>2, <1>3, SpaceValue, NullAssumption

(* A process whose pages and their frames are left alone keeps its memory. *)
LEMMA SpaceKept ==
  ASSUME NEW p \in Pid, Visible(p)' <=> Visible(p),
         p \in Alive => /\ pt'[p] = pt[p]
                        /\ \A x \in Mapped(p) : mem'[pt[p].map[x]] = mem[pt[p].map[x]]
  PROVE  Space'[p] = Space[p]
<1>1. CASE Visible(p)
  <2>1. pt'[p] = pt[p] /\ \A x \in Mapped(p) : mem'[pt[p].map[x]] = mem[pt[p].map[x]]
    BY <1>1 DEF Visible
  <2>2. Mapped(p)' = Mapped(p)
    BY <2>1 DEF Mapped
  <2>3. [x \in Mapped(p)' |-> mem'[pt'[p].map[x]]] = [x \in Mapped(p) |-> mem[pt[p].map[x]]]
    BY <2>1, <2>2
  <2>4. Space[p] = [x \in Mapped(p) |-> mem[pt[p].map[x]]]
    BY <1>1, SpaceValue
  <2>5. Space'[p] = [x \in Mapped(p)' |-> mem'[pt'[p].map[x]]]
    <3>1. Visible(p)'
      BY <1>1
    <3> QED
      BY <3>1, SpaceValue
  <2> QED
    BY <2>3, <2>4, <2>5
<1>2. CASE ~Visible(p)
  BY <1>2, SpaceValue
<1> QED
  BY <1>1, <1>2

LEMMA RefinementInit == Init => Seen!Init
<1> SUFFICES ASSUME Init PROVE Seen!Init
  OBVIOUS
<1>1. FTypeOK
  BY InitFInv DEF FInv
<1>2. cur_ctx = 1 /\ copying = Null /\ cur_ctx \in Alive /\ cur_ctx \in Pid
  BY <1>1 DEF Init, FTypeOK, Alive
<1>3. \A p \in Pid : p # 1 => pt[p] = Null
  BY DEF Init
<1>4. Visible(1) /\ \A p \in Pid \ {1} : ~Visible(p)
  BY <1>2, <1>3 DEF Visible, Alive
<1>5. Space[1] # Null
  BY <1>1, <1>2, <1>4, SpaceNotNull
<1>6. \A p \in Pid \ {1} : Space[p] = Null
  BY <1>4, SpaceValue
<1> QED
  BY <1>2, <1>5, <1>6 DEF Seen!Init

(* The program's own access goes where its page tables say, and nobody     *)
(* else is there.                                                          *)
LEMMA StoreRefines == FInv /\ Store => Seen!Store
<1> SUFFICES ASSUME FInv, Store PROVE Seen!Store
  OBVIOUS
<1>0. FTypeOK /\ Running /\ TablesInPlace /\ cur_ctx \in Alive
  BY DEF FInv, FTypeOK, Store
<1>1. PICK x \in Mapped(cur_ctx), v \in Value :
        mem' = [mem EXCEPT ![Translate(pt, pagedir, x)] = v]
  BY DEF Store
<1>2. UNCHANGED <<pt, cur_ctx, copying>>
  BY DEF Store
<1>3. PICK f \in Frame : f = pt[cur_ctx].map[x]
  BY <1>0, AliveFacts
<1>4. Translate(pt, pagedir, x) = f
  <2>1. x[1] \in pt[cur_ctx].held
    BY <1>0 DEF FTypeOK
  <2> QED
    BY <2>1, <1>0, <1>3 DEF TablesInPlace, Translate
<1>5. mem' \in [Frame -> Value] /\ \A g \in Frame : mem'[g] = IF g = f THEN v ELSE mem[g]
  BY <1>0, <1>1, <1>4 DEF FTypeOK
<1>6. \A p : Mapped(p)' = Mapped(p) /\ (Visible(p)' <=> Visible(p))
  BY <1>2 DEF Mapped, Visible, Alive
<1>7. \A p \in Pid \ {cur_ctx} : Space'[p] = Space[p]
  <2> SUFFICES ASSUME NEW p \in Pid, p # cur_ctx PROVE Space'[p] = Space[p]
    OBVIOUS
  <2>1. ASSUME p \in Alive, NEW y \in Mapped(p) PROVE mem'[pt[p].map[y]] = mem[pt[p].map[y]]
    <3>1. pt[p].map[y] \in Frame /\ pt[p].map[y] # f
      BY <2>1, <1>0, <1>3, NothingShared, AliveFacts
    <3> QED
      BY <3>1, <1>5
  <2> QED
    BY <2>1, <1>2, <1>6, SpaceKept
<1>8. cur_ctx \in Pid /\ Visible(cur_ctx)
  BY <1>0, AliveFacts DEF Visible, Running
<1>9. Space[cur_ctx] = [y \in Mapped(cur_ctx) |-> mem[pt[cur_ctx].map[y]]]
  BY <1>8, SpaceValue
<1>10. Space'[cur_ctx] = [Space[cur_ctx] EXCEPT ![x] = v]
  <2>1. Space'[cur_ctx] = [y \in Mapped(cur_ctx) |-> mem'[pt[cur_ctx].map[y]]]
    BY <1>2, <1>6, <1>8, SpaceValue
  <2>2. ASSUME NEW y \in Mapped(cur_ctx)
        PROVE  mem'[pt[cur_ctx].map[y]] = IF y = x THEN v ELSE mem[pt[cur_ctx].map[y]]
    <3>1. pt[cur_ctx].map[y] \in Frame /\ (y # x => pt[cur_ctx].map[y] # f)
      BY <1>0, <1>3, NothingShared, AliveFacts
    <3> QED
      BY <3>1, <1>3, <1>5
  <2> QED
    BY <1>9, <2>1, <2>2
<1>11. Space' = [Space EXCEPT ![cur_ctx] = [Space[cur_ctx] EXCEPT ![x] = v]]
  <2>1. DOMAIN Space = Pid /\ DOMAIN Space' = Pid /\ Space = [p \in Pid |-> Space[p]] /\ Space' = [p \in Pid |-> Space'[p]]
    BY DEF Space, Visible, Mapped, Alive
  <2> QED
    BY <2>1, <1>7, <1>8, <1>10
<1>12. x \in DOMAIN Space[cur_ctx]
  BY <1>9
<1> QED
  BY <1>2, <1>11, <1>12 DEF Seen!Store

(* Only the CPU changes hands. *)
LEMMA SwitchRefines == FInv /\ Switch => Seen!Switch
<1> SUFFICES ASSUME FInv, Switch PROVE Seen!Switch
  OBVIOUS
<1>0. FTypeOK /\ Running
  BY DEF FInv, Switch
<1>1. UNCHANGED <<pt, mem, copying>> /\ cur_ctx' \in Alive
  BY DEF Switch
<1>2. Space' = Space
  BY <1>1 DEF Space, Visible, Alive, Mapped
<1>3. cur_ctx' \in Pid /\ Visible(cur_ctx')
  BY <1>0, <1>1 DEF Visible, Running, Alive
<1>4. Space[cur_ctx'] # Null
  BY <1>0, <1>3, SpaceNotNull
<1> QED
  BY <1>2, <1>3, <1>4 DEF Seen!Switch

(* exit takes one memory away and touches no other. *)
LEMMA ExitRefines == FInv /\ SysExit => Seen!Exit
<1> SUFFICES ASSUME FInv, SysExit PROVE Seen!Exit
  OBVIOUS
<1>0. FTypeOK /\ FTypeOK' /\ Running /\ cur_ctx \in Pid
  BY ExitInv DEF FInv, FTypeOK, Alive, SysExit
<1>c. PICK c \in Pid : c = cur_ctx
  BY <1>0
<1>1. PICK i \in Alive \ {c} : cur_ctx' = i
  BY <1>c DEF SysExit
<1>2. pt' = [pt EXCEPT ![c] = Null] /\ UNCHANGED <<mem, copying>>
  BY <1>c DEF SysExit
<1>3. /\ ~Visible(c)'
      /\ \A p \in Pid \ {c} : (Visible(p)' <=> Visible(p)) /\ pt'[p] = pt[p]
  BY <1>0, <1>2 DEF Visible, Alive, FTypeOK
<1>4. \A p \in Pid \ {c} : Space'[p] = Space[p]
  BY <1>2, <1>3, SpaceKept
<1>5. Space'[c] = Null
  BY <1>0, <1>3, SpaceValue
<1>6. Space' = [Space EXCEPT ![c] = Null]
  <2>1. Space = [p \in Pid |-> Space[p]] /\ Space' = [p \in Pid |-> Space'[p]]
    BY DEF Space, Visible, Mapped, Alive
  <2> QED
    BY <2>1, <1>0, <1>4, <1>5
<1>7. i \in Pid /\ Visible(i)
  BY <1>0, <1>1 DEF Visible, Running, Alive
<1>8. Space'[i] # Null
  BY <1>0, <1>1, <1>4, <1>7, SpaceNotNull
<1> QED
  BY <1>c, <1>1, <1>6, <1>7, <1>8 DEF Seen!Exit

(* Fresh frames for some slots of one table, and what they change: the     *)
(* frames that are marked already keep what they hold.                     *)
LEMMA SpaceGrows ==
  ASSUME FInv, FTypeOK', Running,
         NEW t \in Table, NEW slots \in SUBSET Slot, NEW fresh \in [slots -> Frame],
         IsGrant(fresh, slots),
         pt' = [pt EXCEPT ![cur_ctx] = MapFresh(@, t, fresh, slots)],
         \A f \in marked : mem'[f] = mem[f],
         UNCHANGED <<cur_ctx, copying>>
  PROVE  /\ Space'[cur_ctx] # Null
         /\ DOMAIN Space[cur_ctx] = Mapped(cur_ctx)
         /\ DOMAIN Space'[cur_ctx] \subseteq
              Mapped(cur_ctx) \cup {x \in Page : x[1] = t /\ x[2] \in slots}
         /\ \A x \in Mapped(cur_ctx) : ~(x[1] = t /\ x[2] \in slots) =>
              x \in DOMAIN Space'[cur_ctx] /\ Space'[cur_ctx][x] = Space[cur_ctx][x]
         /\ \A p \in Pid \ {cur_ctx} : Space'[p] = Space[p]
<1>0. /\ FTypeOK /\ MappedMarked /\ cur_ctx \in Alive /\ cur_ctx \in Pid
      /\ pt[cur_ctx] \in Entries
  BY AliveFacts DEF FInv, FTypeOK
<1>1. PICK new : new = MapFresh(pt[cur_ctx], t, fresh, slots)
  OBVIOUS
<1>2. /\ new # Null
      /\ \A x \in Page : new.map[x] = IF x[1] = t /\ x[2] \in slots THEN fresh[x[2]]
                                      ELSE pt[cur_ctx].map[x]
  <2>1. PICK old \in Entries : old = pt[cur_ctx]
    BY <1>0
  <2>2. MapFresh(old, t, fresh, slots) # Null
    BY MapFreshFacts
  <2>3. \A x \in Page : MapFresh(old, t, fresh, slots).map[x] =
          IF x[1] = t /\ x[2] \in slots THEN fresh[x[2]] ELSE old.map[x]
    BY DEF MapFresh
  <2> QED
    BY <1>1, <2>1, <2>2, <2>3
<1>3. pt'[cur_ctx] = new /\ \A p \in Pid \ {cur_ctx} : pt'[p] = pt[p]
  BY <1>0, <1>1 DEF FTypeOK
<1>4. /\ \A p \in Pid : Visible(p)' <=> Visible(p)
      /\ Visible(cur_ctx) /\ Visible(cur_ctx)'
  BY <1>0, <1>2, <1>3 DEF Visible, Alive, Running
<1>6. /\ Space[cur_ctx] = [x \in Mapped(cur_ctx) |-> mem[pt[cur_ctx].map[x]]]
      /\ Space'[cur_ctx] = [x \in Mapped(cur_ctx)' |-> mem'[new.map[x]]]
  BY <1>0, <1>3, <1>4, SpaceValue
<1>7. /\ Mapped(cur_ctx)' \subseteq Mapped(cur_ctx) \cup {x \in Page : x[1] = t /\ x[2] \in slots}
      /\ \A x \in Mapped(cur_ctx) : ~(x[1] = t /\ x[2] \in slots) => x \in Mapped(cur_ctx)'
  BY <1>2, <1>3 DEF Mapped
<1>8. \A x \in Mapped(cur_ctx) : ~(x[1] = t /\ x[2] \in slots) =>
        x \in DOMAIN Space'[cur_ctx] /\ Space'[cur_ctx][x] = Space[cur_ctx][x]
  <2> SUFFICES ASSUME NEW x \in Mapped(cur_ctx), ~(x[1] = t /\ x[2] \in slots)
               PROVE  x \in DOMAIN Space'[cur_ctx] /\ Space'[cur_ctx][x] = Space[cur_ctx][x]
    OBVIOUS
  <2>1. new.map[x] = pt[cur_ctx].map[x] /\ pt[cur_ctx].map[x] \in marked
    BY <1>0, <1>2 DEF Mapped, MappedMarked
  <2> QED
    BY <2>1, <1>6, <1>7
<1>9. \A p \in Pid \ {cur_ctx} : Space'[p] = Space[p]
  <2> SUFFICES ASSUME NEW p \in Pid, p # cur_ctx PROVE Space'[p] = Space[p]
    OBVIOUS
  <2>1. p \in Alive => \A x \in Mapped(p) : mem'[pt[p].map[x]] = mem[pt[p].map[x]]
    BY <1>0 DEF MappedMarked
  <2> QED
    BY <2>1, <1>3, <1>4, SpaceKept
<1>10. Space'[cur_ctx] # Null
  BY <1>0, <1>4, SpaceNotNullNext
<1> QED
  BY <1>6, <1>7, <1>8, <1>9, <1>10

LEMMA GrowRefines == FInv /\ SysBrkGrow => Seen!Grow
<1> SUFFICES ASSUME FInv, SysBrkGrow PROVE Seen!Grow
  OBVIOUS
<1>0. FTypeOK /\ FTypeOK' /\ Running /\ cur_ctx \in Alive
  BY GrowInv DEF FInv, FTypeOK, SysBrkGrow
<1>1. PICK to \in Break :
        /\ SlotsToGrow(brk[cur_ctx], to) \subseteq Slot
        /\ LET slots == {s \in SlotsToGrow(brk[cur_ctx], to) : pt[cur_ctx].map[<<Stack, s>>] = 0}
           IN  \E fresh \in [slots -> Frame] :
                 /\ IsGrant(fresh, slots)
                 /\ pt' = [pt EXCEPT ![cur_ctx] = MapFresh(@, Stack, fresh, slots)]
  BY DEF SysBrkGrow
<1>2. PICK slots \in SUBSET Slot :
        slots = {s \in SlotsToGrow(brk[cur_ctx], to) : pt[cur_ctx].map[<<Stack, s>>] = 0}
  BY <1>1
<1>3. PICK fresh \in [slots -> Frame] :
        /\ IsGrant(fresh, slots)
        /\ pt' = [pt EXCEPT ![cur_ctx] = MapFresh(@, Stack, fresh, slots)]
  BY <1>1, <1>2
<1>4. UNCHANGED <<cur_ctx, mem, copying>> /\ Stack \in Table
  BY DEF SysBrkGrow, Table
<1>5. \A x \in Mapped(cur_ctx) : ~(x[1] = Stack /\ x[2] \in slots)
  <2> SUFFICES ASSUME NEW x \in Mapped(cur_ctx), x[1] = Stack, x[2] \in slots PROVE FALSE
    OBVIOUS
  <2>1. x = <<Stack, x[2]>> /\ pt[cur_ctx].map[x] # 0
    BY <1>0, AliveFacts, PageFacts
  <2> QED
    BY <2>1, <1>2
<1>6. /\ Space'[cur_ctx] # Null
      /\ DOMAIN Space[cur_ctx] = Mapped(cur_ctx)
      /\ DOMAIN Space'[cur_ctx] \subseteq
           Mapped(cur_ctx) \cup {x \in Page : x[1] = Stack /\ x[2] \in slots}
      /\ \A x \in Mapped(cur_ctx) : ~(x[1] = Stack /\ x[2] \in slots) =>
           x \in DOMAIN Space'[cur_ctx] /\ Space'[cur_ctx][x] = Space[cur_ctx][x]
      /\ \A p \in Pid \ {cur_ctx} : Space'[p] = Space[p]
  BY <1>0, <1>3, <1>4, SpaceGrows
<1> QED
  BY <1>4, <1>5, <1>6 DEF Seen!Grow, Seen!Keeps

LEMMA ExecRefines == FInv /\ SysExecve => Seen!Exec
<1> SUFFICES ASSUME FInv, SysExecve PROVE Seen!Exec
  OBVIOUS
<1>0. /\ FTypeOK /\ FTypeOK' /\ Running /\ cur_ctx \in Alive
      /\ marked \subseteq Frame
  BY ExecveInv DEF FInv, FTypeOK, SysExecve
<1>1. PICK n \in 1 .. CodePages, k \in 0 .. CodePages, v \in Value :
        /\ k <= n
        /\ \E fresh \in [0 .. n - 1 -> Frame] :
             /\ IsGrant(fresh, 0 .. n - 1)
             /\ pt' = [pt EXCEPT ![cur_ctx] = MapFresh(@, Code, fresh, 0 .. n - 1)]
             /\ marked' = marked \cup Granted(fresh, 0 .. n - 1)
             /\ mem' = [f \in Frame |-> IF f \in Granted(fresh, 0 .. k - 1) THEN v ELSE mem[f]]
  BY DEF SysExecve
<1>2. PICK slots \in SUBSET Slot : slots = 0 .. n - 1 /\ 0 .. k - 1 \subseteq slots
  BY <1>1, SizesAssumption DEF Slot
<1>3. PICK fresh \in [slots -> Frame] :
        /\ IsGrant(fresh, slots)
        /\ pt' = [pt EXCEPT ![cur_ctx] = MapFresh(@, Code, fresh, slots)]
        /\ mem' = [f \in Frame |-> IF f \in Granted(fresh, 0 .. k - 1) THEN v ELSE mem[f]]
  BY <1>1, <1>2
<1>4. UNCHANGED <<cur_ctx, copying>> /\ Code \in Table
  BY DEF SysExecve, Table
<1>5. \A f \in marked : mem'[f] = mem[f]
  <2>1. \A s \in slots : fresh[s] \notin marked
    BY <1>3 DEF IsGrant
  <2>2. \A f \in marked : f \notin Granted(fresh, 0 .. k - 1)
    BY <2>1, <1>2 DEF Granted
  <2> QED
    BY <2>2, <1>0, <1>3
<1>6. /\ Space'[cur_ctx] # Null
      /\ DOMAIN Space[cur_ctx] = Mapped(cur_ctx)
      /\ DOMAIN Space'[cur_ctx] \subseteq
           Mapped(cur_ctx) \cup {x \in Page : x[1] = Code /\ x[2] \in slots}
      /\ \A x \in Mapped(cur_ctx) : ~(x[1] = Code /\ x[2] \in slots) =>
           x \in DOMAIN Space'[cur_ctx] /\ Space'[cur_ctx][x] = Space[cur_ctx][x]
      /\ \A p \in Pid \ {cur_ctx} : Space'[p] = Space[p]
  BY <1>0, <1>3, <1>4, <1>5, SpaceGrows
<1>7. \A x \in Page : x[1] = Code => x \in {Code} \X Slot
  BY PageFacts
<1>8. Mapped(cur_ctx) \subseteq Page
  BY DEF Mapped
<1> QED
  BY <1>4, <1>6, <1>7, <1>8 DEF Seen!Exec, Seen!Keeps

LEMMA ShrinkRefines == FInv /\ SysBrkShrink => Seen!Shrink
<1> SUFFICES ASSUME FInv, SysBrkShrink PROVE Seen!Shrink
  OBVIOUS
<1>0. /\ FTypeOK /\ FTypeOK' /\ Running /\ cur_ctx \in Alive /\ cur_ctx \in Pid
      /\ pt[cur_ctx] \in Entries
  BY ShrinkInv, AliveFacts DEF FInv, FTypeOK, SysBrkShrink
<1>1. PICK slots : pt' = [pt EXCEPT ![cur_ctx] = Unmap(@, slots)]
  BY DEF SysBrkShrink
<1>2. UNCHANGED <<cur_ctx, mem, copying>>
  BY DEF SysBrkShrink
<1>3. PICK new :
        /\ pt'[cur_ctx] = new /\ new # Null
        /\ \A x \in Page : new.map[x] = IF x[1] = Stack /\ x[2] \in slots THEN 0
                                        ELSE pt[cur_ctx].map[x]
  <2>1. PICK old \in Entries : old = pt[cur_ctx]
    BY <1>0
  <2>2. Unmap(old, slots) # Null
    BY UnmapFacts
  <2>3. \A x \in Page : Unmap(old, slots).map[x] =
          IF x[1] = Stack /\ x[2] \in slots THEN 0 ELSE old.map[x]
    BY UnmapFacts
  <2>4. pt'[cur_ctx] = Unmap(old, slots)
    BY <1>0, <1>1, <2>1 DEF FTypeOK
  <2> QED
    BY <2>1, <2>2, <2>3, <2>4
<1>4. \A p \in Pid \ {cur_ctx} : pt'[p] = pt[p]
  BY <1>0, <1>1 DEF FTypeOK
<1>5. /\ \A p \in Pid : Visible(p)' <=> Visible(p)
      /\ Visible(cur_ctx) /\ Visible(cur_ctx)'
  BY <1>0, <1>2, <1>3, <1>4 DEF Visible, Alive, Running
<1>6. /\ Space[cur_ctx] = [x \in Mapped(cur_ctx) |-> mem[pt[cur_ctx].map[x]]]
      /\ Space'[cur_ctx] = [x \in Mapped(cur_ctx)' |-> mem[new.map[x]]]
  BY <1>0, <1>2, <1>3, <1>5, SpaceValue
<1>7. \A x \in Mapped(cur_ctx)' : x \in Mapped(cur_ctx) /\ new.map[x] = pt[cur_ctx].map[x]
  BY <1>2, <1>3 DEF Mapped
<1>8. \A p \in Pid \ {cur_ctx} : Space'[p] = Space[p]
  BY <1>2, <1>4, <1>5, SpaceKept
<1>9. Space'[cur_ctx] # Null
  BY <1>0, <1>2, <1>5, SpaceNotNullNext
<1> QED
  BY <1>2, <1>6, <1>7, <1>8, <1>9 DEF Seen!Shrink, Seen!Keeps

(* Until fork is done its child has no memory, and what it does to the     *)
(* child's tables and to frames that are free shows nowhere.               *)
LEMMA SpaceStutters ==
  ASSUME FInv, NEW c \in Pid, UNCHANGED cur_ctx,
         ~Visible(c), ~Visible(c)',
         \A p \in Pid \ {c} : (Visible(p)' <=> Visible(p)) /\ pt'[p] = pt[p],
         \A f \in marked : mem'[f] = mem[f]
  PROVE  UNCHANGED <<Space, cur_ctx>>
<1>1. \A p \in Pid \ {c} : Space'[p] = Space[p]
  <2> SUFFICES ASSUME NEW p \in Pid \ {c} PROVE Space'[p] = Space[p]
    OBVIOUS
  <2>1. p \in Alive => \A x \in Mapped(p) : mem'[pt[p].map[x]] = mem[pt[p].map[x]]
    BY DEF FInv, MappedMarked
  <2>2. Visible(p)' <=> Visible(p)
    OBVIOUS
  <2> QED
    BY <2>1, <2>2, SpaceKept
<1>2. Space'[c] = Space[c]
  BY SpaceValue
<1>3. Space = [p \in Pid |-> Space[p]] /\ Space' = [p \in Pid |-> Space'[p]]
  BY DEF Space, Visible, Mapped, Alive
<1> QED
  BY <1>1, <1>2, <1>3

LEMMA ForkBeginStutters == FInv /\ ForkBegin => UNCHANGED <<Space, cur_ctx>>
<1> SUFFICES ASSUME FInv, ForkBegin PROVE UNCHANGED <<Space, cur_ctx>>
  OBVIOUS
<1>0. FTypeOK /\ Running /\ UNCHANGED <<cur_ctx, mem>>
  BY DEF FInv, ForkBegin
<1>1. PICK pid \in Pid \ Alive :
        /\ copying' = [child |-> pid, table |-> 0, left |-> {}]
        /\ \E fresh \in [StackSlots -> Frame] :
             pt' = [pt EXCEPT ![pid] = MapFresh(NoEntries, Stack, fresh, StackSlots)]
  BY DEF ForkBegin
<1>2. \A p \in Pid \ {pid} : pt'[p] = pt[p]
  BY <1>0, <1>1 DEF FTypeOK
<1>3. copying' # Null /\ copying'.child = pid
  <2>1. copying' \in Copying
    BY <1>1 DEF Copying
  <2> QED
    BY <1>1, <2>1, NullAssumption
<1>4. ~Visible(pid) /\ ~Visible(pid)'
  BY <1>1, <1>3 DEF Visible
<1>5. \A p \in Pid \ {pid} : Visible(p)' <=> Visible(p)
  BY <1>0, <1>2, <1>3 DEF Visible, Alive, Running
<1> QED
  BY <1>0, <1>2, <1>4, <1>5, SpaceStutters

LEMMA ForkTableStutters == FInv /\ ForkTable => UNCHANGED <<Space, cur_ctx>>
<1> SUFFICES ASSUME FInv, ForkTable PROVE UNCHANGED <<Space, cur_ctx>>
  OBVIOUS
<1>0. FTypeOK /\ FTypeOK' /\ copying # Null /\ UNCHANGED <<cur_ctx, mem>>
  BY ForkTableInv DEF FInv, ForkTable
<1>c. PICK c \in Alive : c = copying.child
  BY <1>0, CopyingFacts
<1>1. PICK t \in TablesAhead :
        /\ pt' = [pt EXCEPT ![c] = ShareTable(@, t)]
        /\ copying' = [copying EXCEPT !.table = t,
                         !.left = {s \in Slot : <<t, s>> \in Mapped(cur_ctx)}]
  BY <1>c DEF ForkTable
<1>2. c \in Pid /\ \A p \in Pid \ {c} : pt'[p] = pt[p]
  BY <1>0, <1>1 DEF FTypeOK, Alive
<1>3. copying' # Null /\ copying'.child = c
  <2>1. copying \in Copying /\ t \in Table
    BY <1>0, CopyingFacts, AliveFacts DEF TablesAhead, FTypeOK
  <2>2. copying' \in Copying /\ copying'.child = c
    BY <2>1, <1>1, <1>c DEF Copying
  <2> QED
    BY <2>2, NullAssumption
<1>4. ~Visible(c) /\ ~Visible(c)'
  BY <1>0, <1>c, <1>3 DEF Visible
<1>5. \A p \in Pid \ {c} : Visible(p)' <=> Visible(p)
  BY <1>0, <1>c, <1>2, <1>3 DEF Visible, Alive
<1> QED
  BY <1>0, <1>2, <1>4, <1>5, SpaceStutters

LEMMA ForkPageStutters == FInv /\ ForkPage => UNCHANGED <<Space, cur_ctx>>
<1> SUFFICES ASSUME FInv, ForkPage PROVE UNCHANGED <<Space, cur_ctx>>
  OBVIOUS
<1>0. FTypeOK /\ marked \subseteq Frame
  BY DEF FInv, FTypeOK
<1>p. PICK c \in Alive, x \in Page, f \in Frame \ marked : PageCopied(c, x, f)
  BY ForkPageFacts
<1>1. /\ c = copying.child /\ copying # Null
      /\ copying' # Null /\ copying'.child = c
      /\ \A p \in Pid \ {c} : pt'[p] = pt[p]
      /\ mem' = [mem EXCEPT ![f] = mem[pt[cur_ctx].map[x]]]
      /\ Alive' = Alive /\ UNCHANGED cur_ctx
  BY <1>p DEF PageCopied
<1>2. \A g \in marked : mem'[g] = mem[g]
  BY <1>0, <1>1 DEF FTypeOK
<1>3. c \in Pid /\ ~Visible(c) /\ ~Visible(c)'
  BY <1>1 DEF Visible, Alive
<1>4. \A p \in Pid \ {c} : Visible(p)' <=> Visible(p)
  BY <1>1 DEF Visible
<1> QED
  BY <1>1, <1>2, <1>3, <1>4, SpaceStutters

(* When fork returns, every page of the child is a copy of its parent's.   *)
LEMMA ForkEndRefines == FInv /\ ForkEnd => Seen!Fork
<1> SUFFICES ASSUME FInv, ForkEnd PROVE Seen!Fork
  OBVIOUS
<1>0. /\ FTypeOK /\ TablesInPlace /\ CopyProgress
      /\ copying # Null /\ copying.left = {} /\ TablesAhead = {}
  BY DEF FInv, ForkEnd
<1>c. PICK c \in Alive : c = copying.child
  BY <1>0, CopyingFacts
<1>1. c # cur_ctx /\ c \in Pid /\ cur_ctx \in Alive /\ cur_ctx \in Pid
  BY <1>0, <1>c, CopyingFacts, AliveFacts
<1>2. PICK i \in Alive \ {cur_ctx} : cur_ctx' = i
  BY DEF ForkEnd
<1>3. UNCHANGED <<pt, mem>> /\ copying' = Null
  BY DEF ForkEnd
<1>4. /\ \A p \in Pid \ {c} : Visible(p)' <=> Visible(p)
      /\ \A p : Mapped(p)' = Mapped(p)
      /\ ~Visible(c) /\ Visible(c)' /\ Visible(cur_ctx)
  BY <1>0, <1>c, <1>1, <1>3 DEF Visible, Alive, Mapped
<1>5. \A p \in Pid \ {c} : Space'[p] = Space[p]
  BY <1>3, <1>4, SpaceKept
<1>6. \A x \in Page : Copied(x) \/ (pt[c].map[x] = 0 /\ pt[cur_ctx].map[x] = 0)
  <2> SUFFICES ASSUME NEW x \in Page, ~Copied(x)
               PROVE  pt[c].map[x] = 0 /\ pt[cur_ctx].map[x] = 0
    OBVIOUS
  <2>1. copying.table \in {0, 1, 2, 3} /\ x[1] \in {1, 2, 3} /\ ~(x[1] <= copying.table)
    BY <1>0, CopyingFacts, PageFacts DEF CopyProgress, Table, Stack, Temp, Code
  <2>2. x[1] > copying.table
    BY <2>1
  <2>3. x[1] \notin pt[cur_ctx].held
    BY <2>2, <1>0 DEF TablesAhead
  <2>4. pt[cur_ctx].map[x] = 0
    BY <2>3, <1>0, <1>1 DEF FTypeOK, Mapped
  <2>5. x[1] # Stack
    BY <2>3, <1>0, <1>1 DEF TablesInPlace
  <2>6. pt[c].map[x] = 0
    BY <2>2, <2>5, <1>0, <1>c DEF CopyProgress
  <2> QED
    BY <2>4, <2>6
<1>7. Mapped(c) = Mapped(cur_ctx)
  BY <1>6, <1>c DEF Mapped, Copied
<1>8. \A x \in Mapped(cur_ctx) : mem[pt[c].map[x]] = mem[pt[cur_ctx].map[x]]
  BY <1>6, <1>c DEF Mapped, Copied
<1>9. Space'[c] = Space[cur_ctx]
  <2>1. Space'[c] = [x \in Mapped(c) |-> mem[pt[c].map[x]]]
    BY <1>1, <1>3, <1>4, SpaceValue
  <2>2. Space[cur_ctx] = [x \in Mapped(cur_ctx) |-> mem[pt[cur_ctx].map[x]]]
    BY <1>1, <1>4, SpaceValue
  <2> QED
    BY <2>1, <2>2, <1>7, <1>8
<1>10. Space' = [Space EXCEPT ![c] = Space[cur_ctx]]
  <2>1. Space = [p \in Pid |-> Space[p]] /\ Space' = [p \in Pid |-> Space'[p]]
    BY DEF Space, Visible, Mapped, Alive
  <2> QED
    BY <2>1, <1>1, <1>5, <1>9
<1>11. Space[c] = Null
  BY <1>1, <1>4, SpaceValue
<1>12. i \in Pid /\ Space'[i] # Null
  <2>1. i \in Pid /\ Visible(i)'
    BY <1>0, <1>2, <1>3 DEF Visible, Alive
  <2>2. FTypeOK'
    BY ForkEndInv DEF FInv
  <2> QED
    BY <2>1, <2>2, SpaceNotNullNext
<1> QED
  BY <1>1, <1>2, <1>10, <1>11, <1>12 DEF Seen!Fork

LEMMA RefinementStep == FInv /\ [Next]_vars => [Seen!Next]_(Seen!vars)
<1> SUFFICES ASSUME FInv, [Next]_vars PROVE [Seen!Next]_(Seen!vars)
  OBVIOUS
<1>1. CASE UNCHANGED vars
  BY <1>1 DEF vars, Seen!vars, Space, Visible, Alive, Mapped
<1>2. CASE Store \/ Switch \/ SysBrkGrow \/ SysBrkShrink \/ SysExecve \/ SysExit \/ ForkEnd
  BY <1>2, StoreRefines, SwitchRefines, GrowRefines, ShrinkRefines, ExecRefines, ExitRefines,
     ForkEndRefines DEF Seen!Next
<1>3. CASE ForkBegin \/ ForkTable \/ ForkPage
  BY <1>3, ForkBeginStutters, ForkTableStutters, ForkPageStutters DEF Seen!vars
<1> QED
  BY <1>1, <1>2, <1>3 DEF Next

(* Every process has a memory of its own, and a forked one starts with a   *)
(* copy of its parent's: paging implements AddressSpaces.                  *)
THEOREM FramesImplementAddressSpaces == Spec => ImplementsAddressSpaces
<1>1. Spec => Seen!Init /\ [][Seen!Next]_(Seen!vars)
  BY RefinementInit, RefinementStep, FramesInvariance, PTL DEF Spec
<1> QED
  BY <1>1 DEF ImplementsAddressSpaces, Seen!Spec

(* No step of fork changes the page tables or the memory of its caller.    *)
THEOREM ForkSparesParent == Spec => ForkLeavesParent
<1>1. FInv /\ [Next]_vars => [ParentKept]_vars
  <2> SUFFICES ASSUME FInv, [Next]_vars, copying # Null, vars' # vars,
                      NEW x \in Mapped(cur_ctx)
               PROVE  /\ mem'[pt[cur_ctx].map[x]] = mem[pt[cur_ctx].map[x]]
                      /\ pt'[cur_ctx] = pt[cur_ctx]
    BY DEF ParentKept
  <2>1. ForkTable \/ ForkPage \/ ForkEnd
    BY DEF Next, Running, Store, Switch, SysBrkGrow, SysBrkShrink, SysExecve, SysExit, ForkBegin
  <2>2. PICK c \in Alive : c = copying.child /\ c # cur_ctx
    BY CopyingFacts
  <2>3. CASE ForkTable
    BY <2>2, <2>3 DEF ForkTable
  <2>4. CASE ForkPage
    <3>1. PICK d \in Alive, y \in Page, f \in Frame \ marked : PageCopied(d, y, f)
      BY <2>4, ForkPageFacts
    <3>2. pt[cur_ctx].map[x] \in marked /\ marked \subseteq Frame
      BY DEF FInv, FTypeOK, MappedMarked
    <3>3. /\ mem' = [mem EXCEPT ![f] = mem[pt[cur_ctx].map[y]]]
          /\ d # cur_ctx /\ \A p \in Pid : p # d => pt'[p] = pt[p]
      BY <3>1 DEF PageCopied
    <3>4. cur_ctx \in Pid /\ mem \in [Frame -> Value]
      BY DEF FInv, FTypeOK, Alive
    <3> QED
      BY <3>2, <3>3, <3>4
  <2>5. CASE ForkEnd
    BY <2>5 DEF ForkEnd
  <2> QED
    BY <2>1, <2>3, <2>4, <2>5
<1> QED
  BY <1>1, FramesInvariance, PTL DEF Spec, ForkLeavesParent
=============================================================================
