---------------------------- MODULE KMallocProofs ----------------------------
(***************************************************************************)
(* Proofs about the kernel heap of KMalloc, for every header size, page    *)
(* size, set of requests and number of blocks.                             *)
(***************************************************************************)
EXTENDS KMalloc, TLAPS

(* The pad for an alignment is a natural number. *)
LEMMA PadNat ==
  ASSUME NEW addr \in Nat, NEW align \in {0, ALIGN}
  PROVE  Pad(addr, align) \in Nat
BY AlignAssumption DEF Pad

(* The empty arena satisfies the invariant. *)
LEMMA KInit == Init => KIInv
<1> SUFFICES ASSUME Init PROVE KIInv
  OBVIOUS
<1>1. Arena \in Block
  BY DEF Arena, Block
<1>2. heap \in Seq(Block) /\ Len(heap) = 1 /\ heap[1] = Arena /\ Index = {1}
  BY <1>1 DEF Init, Index
<1>3. KTypeOK
  <2>1. struck \subseteq Nat /\ verybad \in BOOLEAN
    BY DEF Init
  <2> QED
    BY <1>2, <2>1, MaxBlocksAssumption DEF KTypeOK
<1>4. InOrder
  BY <1>2 DEF InOrder
<1>5. BlocksKept
  BY <1>2 DEF BlocksKept
<1> QED
  BY <1>3, <1>4, <1>5 DEF KIInv

(* What a reused block looks like. *)
LEMMA ReusedFacts ==
  ASSUME NEW b \in Block, NEW size \in Sizes, NEW align \in {0, ALIGN}, Fits(b, size)
  PROVE  /\ Reused(b, size, align) \in Block
         /\ Reused(b, size, align).base = b.base
         /\ Reused(b, size, align).length <= b.length
         /\ ~Reused(b, size, align).free
         /\ Reused(b, size, align).asked > 0
         /\ Reused(b, size, align).mem >= b.base + HDR
<1> DEFINE addr == b.base + HDR
<1>1. addr \in Nat /\ b.base \in Nat /\ b.length \in Nat /\ size \in Nat \ {0}
  BY HdrAssumption, SizesAssumption DEF Block
<1>2. Pad(addr, align) \in Nat
  BY <1>1, PadNat
<1>3. size <= b.length
  BY <1>1, HdrAssumption DEF Fits
<1> HIDE DEF addr
<1>4. Reused(b, size, align) = [base |-> b.base, length |-> size, free |-> FALSE,
                                mem |-> addr + Pad(addr, align), asked |-> size]
  BY DEF Reused, addr
<1>5. addr + Pad(addr, align) \in Nat /\ addr + Pad(addr, align) >= addr
  BY <1>1, <1>2
<1> QED
  BY <1>1, <1>3, <1>4, <1>5 DEF Block, addr

(* What a new block looks like. *)
LEMMA FreshFacts ==
  ASSUME NEW b \in Block, NEW size \in Sizes, NEW align \in {0, ALIGN}
  PROVE  /\ Fresh(b, size, align) \in Block
         /\ Fresh(b, size, align).base = b.base + HDR + b.length
         /\ ~Fresh(b, size, align).free
         /\ Fresh(b, size, align).asked > 0
         /\ Fresh(b, size, align).mem >= Fresh(b, size, align).base + HDR
<1> DEFINE base == b.base + HDR + b.length
           mem == base + HDR
<1>1. base \in Nat /\ mem \in Nat /\ b.base \in Nat /\ size \in Nat \ {0}
  BY HdrAssumption, SizesAssumption DEF Block
<1>2. Pad(mem, align) \in Nat /\ Pad(b.base, align) \in Nat
  BY <1>1, PadNat
<1> HIDE DEF base, mem
<1>3. Fresh(b, size, align) = [base |-> base, length |-> size + Pad(b.base, align),
                               free |-> FALSE, mem |-> mem + Pad(mem, align), asked |-> size]
  BY DEF Fresh, base, mem
<1>4. mem + Pad(mem, align) \in Nat /\ mem + Pad(mem, align) >= mem
  BY <1>1, <1>2
<1>5. size + Pad(b.base, align) \in Nat
  BY <1>1, <1>2
<1> QED
  BY <1>1, <1>3, <1>4, <1>5 DEF Block, base, mem

(* The words that the measurement strikes are in the arena. *)
LEMMA StruckNat ==
  ASSUME KIInv, NEW size \in Sizes, NEW align \in {0, ALIGN}
  PROVE  Struck(size, align) \subseteq Nat
<1>1. \A k \in Index : Fits(heap[k], size) => heap[k].base - HDR + MEM \in Nat
  <2> SUFFICES ASSUME NEW k \in Index, Fits(heap[k], size)
               PROVE  heap[k].base - HDR + MEM \in Nat
    OBVIOUS
  <2>1. k # 1 /\ 1 \in Index /\ k \in Nat /\ k > 1
    BY DEF KIInv, KTypeOK, BlocksKept, Fits, Arena, Index
  <2>2. heap[k] \in Block
    BY DEF KIInv, KTypeOK, Index
  <2>3. heap[k].base >= 0 + HDR + 0
    BY <2>1 DEF KIInv, InOrder, BlocksKept, Arena
  <2> QED
    BY <2>2, <2>3, HdrAssumption DEF Block
<1> QED
  BY <1>1 DEF Struck

(* Reusing the first block that fits keeps the list as it is. *)
LEMMA ReusePreserves ==
  ASSUME KIInv, NEW size \in Sizes, NEW align \in {0, ALIGN},
         NEW k \in Index, Reuse(k, size, align),
         struck' = struck \cup Struck(size, align), verybad' = verybad
  PROVE  KIInv'
<1> DEFINE b == Reused(heap[k], size, align)
<1>1. /\ heap \in Seq(Block) /\ heap[k] \in Block /\ 1 \in Index
      /\ \A j \in Index : heap[j] \in Block
  BY DEF KIInv, KTypeOK, Index
<1>2. /\ b \in Block
      /\ b.base = heap[k].base
      /\ b.length <= heap[k].length
      /\ ~b.free
      /\ b.asked > 0
      /\ b.mem >= heap[k].base + HDR
  BY <1>1, ReusedFacts DEF Reuse, Reusable
<1> HIDE DEF b
<1>3. /\ heap' \in Seq(Block) /\ Len(heap') = Len(heap) /\ Index' = Index
      /\ heap'[k] = b
      /\ \A j \in Index : j # k => heap'[j] = heap[j]
  BY <1>1, <1>2 DEF Reuse, Index, b
<1>4. KTypeOK'
  BY <1>3, StruckNat DEF KIInv, KTypeOK
<1>5. InOrder'
  <2> SUFFICES ASSUME NEW i \in Index, NEW j \in Index, i < j
               PROVE  heap'[j].base >= heap'[i].base + HDR + heap'[i].length
    BY <1>3 DEF InOrder
  <2>1. heap[j].base >= heap[i].base + HDR + heap[i].length
    BY DEF KIInv, InOrder
  <2>2. heap'[j].base = heap[j].base /\ heap'[i].base = heap[i].base
    BY <1>2, <1>3
  <2>3. heap'[i].length <= heap[i].length
    <3>1. CASE i = k
      BY <1>2, <1>3, <3>1
    <3>2. CASE i # k
      <4>1. heap'[i] = heap[i] /\ heap[i].length \in Nat
        BY <1>1, <1>3, <3>2 DEF Block
      <4> QED
        BY <4>1
    <3> QED
      BY <3>1, <3>2
  <2>4. /\ heap[i].base \in Nat /\ heap[i].length \in Nat /\ heap[j].base \in Nat
        /\ heap'[i].length \in Nat /\ HDR \in Nat
    <3>1. heap[i] \in Block /\ heap[j] \in Block /\ heap'[i] \in Block
      BY <1>1, <1>2, <1>3
    <3> QED
      BY <3>1, HdrAssumption DEF Block
  <2> QED
    BY <2>1, <2>2, <2>3, <2>4
<1>6. BlocksKept'
  <2>1. k # 1
    BY DEF KIInv, BlocksKept, Arena, Reuse, Reusable, Fits
  <2>2. ASSUME NEW j \in Index' \ {1}
        PROVE  /\ heap'[j].asked > 0
               /\ heap'[j].mem >= heap'[j].base + HDR
               /\ heap'[j].free => ~Short(heap'[j])
    BY <1>2, <1>3 DEF KIInv, BlocksKept
  <2>3. heap'[1] = Arena
    BY <1>1, <1>3, <2>1 DEF KIInv, BlocksKept
  <2> QED
    BY <2>2, <2>3 DEF BlocksKept
<1> QED
  BY <1>4, <1>5, <1>6 DEF KIInv

(* A new block lies behind all the others. *)
LEMMA ExtendPreserves ==
  ASSUME KIInv, NEW size \in Sizes, NEW align \in {0, ALIGN}, Extend(size, align),
         struck' = struck \cup Struck(size, align), verybad' = verybad
  PROVE  KIInv'
<1> DEFINE n == Len(heap)
           b == Fresh(heap[n], size, align)
<1>1. heap \in Seq(Block) /\ n \in Nat \ {0} /\ heap[n] \in Block /\ Index = 1 .. n
  BY DEF KIInv, KTypeOK, Index
<1>2. /\ b \in Block
      /\ b.base = heap[n].base + HDR + heap[n].length
      /\ ~b.free
      /\ b.asked > 0
      /\ b.mem >= b.base + HDR
  BY <1>1, FreshFacts
<1> HIDE DEF b
<1>3. /\ heap' \in Seq(Block) /\ Len(heap') = n + 1 /\ Index' = 1 .. n + 1
      /\ heap'[n + 1] = b
      /\ \A j \in Index : heap'[j] = heap[j]
  BY <1>1, <1>2 DEF Extend, Index, b
<1> HIDE DEF n
<1>4. KTypeOK'
  <2>1. n + 1 \in 1 .. MaxBlocks
    BY <1>1, MaxBlocksAssumption DEF Extend, n
  <2> QED
    BY <1>3, <2>1, StruckNat DEF KIInv, KTypeOK
<1>5. InOrder'
  <2> SUFFICES ASSUME NEW i \in 1 .. n + 1, NEW j \in 1 .. n + 1, i < j
               PROVE  heap'[j].base >= heap'[i].base + HDR + heap'[i].length
    BY <1>3 DEF InOrder
  <2>0. i \in Index /\ heap[i] \in Block /\ heap'[i] = heap[i]
    BY <1>1, <1>3
  <2>1. CASE j \in Index
    <3>1. heap'[j] = heap[j]
      BY <1>3, <2>1
    <3> QED
      BY <2>0, <2>1, <3>1 DEF KIInv, InOrder
  <2>2. CASE j = n + 1
    <3>1. /\ heap'[j].base = heap[n].base + HDR + heap[n].length
          /\ heap'[i].base = heap[i].base /\ heap'[i].length = heap[i].length
      BY <1>2, <1>3, <2>0, <2>2
    <3>2. /\ heap[i].base \in Nat /\ heap[i].length \in Nat
          /\ heap[n].base \in Nat /\ heap[n].length \in Nat
          /\ HDR \in Nat
      BY <1>1, <2>0, HdrAssumption DEF Block
    <3>3. CASE i = n
      BY <3>1, <3>2, <3>3
    <3>4. CASE i < n
      <4>1. n \in Index
        BY <1>1
      <4>2. heap[n].base >= heap[i].base + HDR + heap[i].length
        BY <2>0, <3>4, <4>1 DEF KIInv, InOrder
      <4> QED
        BY <3>1, <3>2, <4>2
    <3>5. i = n \/ i < n
      BY <1>1, <2>2
    <3> QED
      BY <3>3, <3>4, <3>5
  <2>3. j \in Index \/ j = n + 1
    BY <1>1
  <2> QED
    BY <2>1, <2>2, <2>3
<1>6. BlocksKept'
  <2>1. \A j \in 1 .. n + 1 : j \in Index \/ j = n + 1
    BY <1>1
  <2>2. heap'[1] = Arena
    BY <1>1, <1>3 DEF KIInv, BlocksKept
  <2>3. ASSUME NEW j \in Index' \ {1}
        PROVE  /\ heap'[j].asked > 0
               /\ heap'[j].mem >= heap'[j].base + HDR
               /\ heap'[j].free => ~Short(heap'[j])
    BY <1>2, <1>3, <2>1 DEF KIInv, BlocksKept
  <2> QED
    BY <2>2, <2>3 DEF BlocksKept
<1> QED
  BY <1>4, <1>5, <1>6 DEF KIInv
-----------------------------------------------------------------------------
(* A pointer into a live block leads to that block alone: its words, and   *)
(* so its recorded address, are in its own extent.                         *)
LEMMA FoundOwn ==
  ASSUME KIInv, Sound, NEW k \in Live
  PROVE  Found(heap[k].mem) = {k}
<1> DEFINE ptr == heap[k].mem
<1>1. /\ k \in Index /\ heap[k] \in Block /\ k # 1 /\ 1 \in Index
      /\ Index \subseteq Nat
      /\ \A l \in Index : heap[l] \in Block
  BY DEF Live, KIInv, KTypeOK, BlocksKept, Arena, Index
<1>2. /\ ptr \in Nat
      /\ ptr >= heap[k].base + HDR
      /\ ptr < heap[k].base + HDR + heap[k].length
  BY <1>1, HdrAssumption DEF Live, Sound, Short, KIInv, BlocksKept, Block
<1>3. ASSUME NEW l \in Index, l # k PROVE heap[l].base + HDR # ptr
  <2>1. /\ l < k => heap[k].base >= heap[l].base + HDR + heap[l].length
        /\ k < l => heap[l].base >= heap[k].base + HDR + heap[k].length
    BY <1>1 DEF KIInv, InOrder
  <2>2. l < k \/ k < l
    BY <1>1, <1>3
  <2> QED
    BY <1>1, <1>2, <2>1, <2>2, HdrAssumption DEF Block
<1>4. ASSUME NEW l \in Index, l # k PROVE heap[l].mem # ptr
  <2>1. CASE l # 1
    <3>1. heap[l].mem >= heap[l].base + HDR /\ heap[l].asked > 0 /\ ~Short(heap[l])
      BY <2>1 DEF KIInv, BlocksKept, Sound, Live
    <3>2. heap[l].mem < heap[l].base + HDR + heap[l].length
      BY <1>1, <3>1, HdrAssumption DEF Short, Block
    <3>3. /\ l < k => heap[k].base >= heap[l].base + HDR + heap[l].length
          /\ k < l => heap[l].base >= heap[k].base + HDR + heap[k].length
      BY <1>1 DEF KIInv, InOrder
    <3>4. l < k \/ k < l
      BY <1>1, <1>4
    <3> QED
      BY <1>1, <1>2, <3>1, <3>2, <3>3, <3>4, HdrAssumption DEF Block
  <2>2. CASE l = 1
    BY <1>1, <1>2, <2>2, HdrAssumption DEF KIInv, BlocksKept, Arena, Block
  <2> QED
    BY <2>1, <2>2
<1> QED
  BY <1>1, <1>3, <1>4 DEF Found

(* Freeing it marks it, and nothing else changes. *)
LEMMA FreeFacts ==
  ASSUME KIInv, NEW k \in Index, Free(k)
  PROVE  /\ k \in Live /\ ~Short(heap[k])
         /\ heap' = [heap EXCEPT ![k].free = TRUE]
         /\ verybad' = verybad /\ struck' = struck
<1>1. k \in Live /\ ~Short(heap[k]) /\ Found(heap[k].mem) = {k}
  BY FoundOwn DEF Free, Sound
<1>2. verybad' = verybad /\ struck' = struck
  BY <1>1 DEF Free, Release, KIInv, KTypeOK
<1>3. heap' = [l \in Index |-> IF l \in {k} THEN [heap[l] EXCEPT !.free = TRUE] ELSE heap[l]]
  BY <1>1 DEF Free, Release
<1>4. heap = [l \in Index |-> heap[l]]
  BY DEF Index, KIInv, KTypeOK
<1> QED
  BY <1>1, <1>2, <1>3, <1>4 DEF Index

(* A freed block was not short, and stays where it was. *)
LEMMA FreePreserves ==
  ASSUME KIInv, NEW k \in Index, Free(k)
  PROVE  KIInv'
<1> DEFINE b == [heap[k] EXCEPT !.free = TRUE]
<1>1. heap \in Seq(Block) /\ heap[k] \in Block /\ 1 \in Index
  BY DEF KIInv, KTypeOK, Index
<1>2. /\ b \in Block
      /\ b.base = heap[k].base /\ b.length = heap[k].length
      /\ b.mem = heap[k].mem /\ b.asked = heap[k].asked
  BY <1>1 DEF Block
<1>3. k # 1
  BY FreeFacts DEF Live, KIInv, BlocksKept, Arena
<1>4. /\ heap' \in Seq(Block) /\ Len(heap') = Len(heap) /\ Index' = Index
      /\ heap'[k] = b
      /\ \A j \in Index : j # k => heap'[j] = heap[j]
  <2>1. heap' = [heap EXCEPT ![k] = b]
    BY FreeFacts
  <2> QED
    BY <1>1, <1>2, <2>1 DEF Index
<1> HIDE DEF b
<1>5. \A j \in Index : /\ heap'[j].base = heap[j].base /\ heap'[j].length = heap[j].length
                      /\ heap'[j].mem = heap[j].mem /\ heap'[j].asked = heap[j].asked
                      /\ Short(heap'[j]) = Short(heap[j])
  BY <1>2, <1>4 DEF Short
<1>6. KTypeOK'
  BY <1>4, FreeFacts DEF KIInv, KTypeOK
<1>7. InOrder'
  BY <1>4, <1>5 DEF KIInv, InOrder
<1>8. BlocksKept'
  <2>1. heap'[1] = Arena
    BY <1>1, <1>3, <1>4 DEF KIInv, BlocksKept
  <2>2. ASSUME NEW j \in Index \ {1} PROVE heap'[j].free => ~Short(heap'[j])
    BY <1>4, <1>5, FreeFacts DEF KIInv, BlocksKept
  <2> QED
    BY <1>4, <1>5, <2>1, <2>2 DEF KIInv, BlocksKept
<1> QED
  BY <1>6, <1>7, <1>8 DEF KIInv

(* Every step preserves the invariant. *)
LEMMA KNext == KIInv /\ [Next]_vars => KIInv'
<1> SUFFICES ASSUME KIInv, [Next]_vars PROVE KIInv'
  OBVIOUS
<1>1. CASE \E size \in Sizes, align \in {0, ALIGN} : Malloc(size, align)
  <2>1. PICK size \in Sizes, align \in {0, ALIGN} : Malloc(size, align)
    BY <1>1
  <2> QED
    BY <2>1, ReusePreserves, ExtendPreserves DEF Malloc
<1>2. CASE \E k \in Index : Free(k)
  BY <1>2, FreePreserves
<1>3. CASE UNCHANGED vars
  BY <1>3 DEF vars, KIInv, KTypeOK, InOrder, BlocksKept, Index
<1> QED
  BY <1>1, <1>2, <1>3 DEF Next

(* The heap's invariant holds in every state. *)
THEOREM KInvariance == Spec => []KIInv
BY KInit, KNext, PTL DEF Spec

(* The list of blocks is always well formed. *)
THEOREM KTypeCorrect == Spec => []KTypeOK
<1>1. KIInv => KTypeOK
  BY DEF KIInv
<1> QED
  BY <1>1, KInvariance, PTL

(* The list always is in address order, and extents never overlap. *)
THEOREM ListInOrder == Spec => []InOrder
<1>1. KIInv => InOrder
  BY DEF KIInv
<1> QED
  BY <1>1, KInvariance, PTL

(* While no client has a short block, clients are kept apart from each     *)
(* other and from every header.                                            *)
LEMMA InvApart == KIInv => LiveApart
<1> SUFFICES ASSUME KIInv, Sound, NEW k \in Live, NEW l \in Index
             PROVE  /\ Words(heap[k]) \cap Header(heap[l]) = {}
                    /\ l \in Live \ {k} => Words(heap[k]) \cap Words(heap[l]) = {}
  BY DEF LiveApart
<1>1. /\ Index \subseteq Nat
      /\ \A j \in Index : heap[j] \in Block
  BY DEF KIInv, KTypeOK, Index
<1>2. ASSUME NEW j \in Live
      PROVE  /\ j \in Index
             /\ heap[j].mem >= heap[j].base + HDR
             /\ heap[j].mem + heap[j].asked <= heap[j].base + HDR + heap[j].length
  BY <1>1, HdrAssumption DEF Live, Sound, Short, KIInv, BlocksKept, Arena, Block
<1>3. /\ l < k => heap[k].base >= heap[l].base + HDR + heap[l].length
      /\ k < l => heap[l].base >= heap[k].base + HDR + heap[k].length
  BY <1>2 DEF KIInv, InOrder
<1>4. l < k \/ l = k \/ k < l
  BY <1>1, <1>2
<1>5. heap[k] \in Block /\ heap[l] \in Block
  BY <1>1, <1>2
<1>6. Words(heap[k]) \cap Header(heap[l]) = {}
  BY <1>2, <1>3, <1>4, <1>5, HdrAssumption DEF Words, Header, Block
<1>7. ASSUME l \in Live \ {k} PROVE Words(heap[k]) \cap Words(heap[l]) = {}
  BY <1>2, <1>3, <1>4, <1>5, <1>7, HdrAssumption DEF Words, Block
<1> QED
  BY <1>6, <1>7

(* Clients never share a word, and never reach a header. *)
THEOREM ClientsApart == Spec => []LiveApart
BY InvApart, KInvariance, PTL

(* Freeing what malloc_a returned frees that block and no other. *)
THEOREM FreeIsExact == Spec => FreesItsOwn
<1>1. KIInv => FreedExactly
  BY FreeFacts DEF FreedExactly, Live
<1> QED
  BY <1>1, KInvariance, PTL DEF FreesItsOwn

-----------------------------------------------------------------------------
(* Remainders. *)
LEMMA Divided ==
  ASSUME NEW n \in Int
  PROVE  /\ (n % ALIGN) \in 0 .. ALIGN - 1
         /\ \E q \in Int : n = ALIGN * q + (n % ALIGN)
<1>1. n \div ALIGN \in Int /\ n = ALIGN * (n \div ALIGN) + (n % ALIGN) /\ (n % ALIGN) \in 0 .. ALIGN - 1
  BY AlignAssumption
<1> QED
  BY <1>1

(* Two small numbers a multiple of the page apart are equal. *)
LEMMA SameRemainder ==
  ASSUME NEW a \in 0 .. ALIGN - 1, NEW b \in 0 .. ALIGN - 1, NEW q \in Int, a - b = ALIGN * q
  PROVE  a = b
<1>1. q >= 1 => ALIGN * q >= ALIGN
  <2>1. q >= 1 => ALIGN * (q - 1) \in Nat
    BY AlignAssumption
  <2> QED
    BY <2>1, AlignAssumption
<1>2. q <= -1 => ALIGN * q <= -ALIGN
  <2>1. q <= -1 => ALIGN * (-1 - q) \in Nat
    BY AlignAssumption
  <2> QED
    BY <2>1, AlignAssumption
<1>3. q = 0 => ALIGN * q = 0
  BY AlignAssumption
<1> QED
  BY <1>1, <1>2, <1>3, AlignAssumption

LEMMA PadOf ==
  ASSUME NEW from \in Int, NEW to \in Int,
         NEW p \in 0 .. ALIGN - 1, NEW r \in 0 .. ALIGN - 1, NEW s \in 0 .. ALIGN - 1,
         \E i \in Int : -from = ALIGN * i + p,
         \E j \in Int : to - from = ALIGN * j + r,
         \E k \in Int : -to = ALIGN * k + s
  PROVE  (r <= p => s = p - r) /\ (r > p => s = p - r + ALIGN)
<1>1. PICK i \in Int : -from = ALIGN * i + p
  OBVIOUS
<1>2. PICK j \in Int : to - from = ALIGN * j + r
  OBVIOUS
<1>3. PICK k \in Int : -to = ALIGN * k + s
  OBVIOUS
<1>4. p \in Int /\ r \in Int /\ s \in Int
  BY AlignAssumption
<1>5. s - (p - r) = ALIGN * (i - j - k)
  <2>1. PICK x \in Int, y \in Int, z \in Int : x = ALIGN * i /\ y = ALIGN * j /\ z = ALIGN * k
    BY AlignAssumption
  <2>2. s - (p - r) = x - y - z
    BY <1>1, <1>2, <1>3, <1>4, <2>1
  <2>3. ALIGN * (i - j - k) = x - y - z
    BY <2>1, AlignAssumption
  <2> QED
    BY <2>2, <2>3
<1>6. CASE r <= p
  <2>1. p - r \in 0 .. ALIGN - 1 /\ i - j - k \in Int
    BY <1>6, AlignAssumption
  <2>2. s = p - r
    BY <1>5, <2>1, SameRemainder
  <2> QED
    BY <1>4, <1>6, <2>2
<1>7. CASE r > p
  <2>1. p - r + ALIGN \in 0 .. ALIGN - 1 /\ i - j - k - 1 \in Int /\ i - j - k \in Int
    BY <1>7, AlignAssumption
  <2>2. ALIGN * (i - j - k - 1) = ALIGN * (i - j - k) - ALIGN
    BY AlignAssumption
  <2>3. s - (p - r + ALIGN) = ALIGN * (i - j - k - 1)
    BY <1>4, <1>5, <2>2, AlignAssumption
  <2>4. s = p - r + ALIGN
    BY <2>1, <2>3, SameRemainder
  <2> QED
    BY <1>4, <1>7, <2>4
<1> QED
  BY <1>4, <1>6, <1>7

(* The pad of an address some way up: less by the distance, or, where that *)
(* is too little, on to the next page.                                     *)
LEMMA PadFurther ==
  ASSUME NEW from \in Nat, NEW to \in Nat,
         NEW p, p = Pad(from, ALIGN), NEW r, r = (to - from) % ALIGN,
         NEW u, u = Pad(to, ALIGN)
  PROVE  /\ p \in 0 .. ALIGN - 1 /\ r \in 0 .. ALIGN - 1
         /\ u \in 0 .. ALIGN - 1
         /\ r <= p => u = p - r
         /\ r > p => u = p - r + ALIGN
<1>1. p = (-from) % ALIGN /\ u = (-to) % ALIGN
  BY AlignAssumption DEF Pad
<1>2. from \in Int /\ to \in Int /\ -from \in Int /\ to - from \in Int /\ -to \in Int
  OBVIOUS
<1>3. p \in 0 .. ALIGN - 1 /\ \E i \in Int : -from = ALIGN * i + p
  BY <1>1, <1>2, Divided
<1>4. r \in 0 .. ALIGN - 1 /\ \E j \in Int : to - from = ALIGN * j + r
  BY <1>2, Divided
<1>5. u \in 0 .. ALIGN - 1 /\ \E k \in Int : -to = ALIGN * k + u
  BY <1>1, <1>2, Divided
<1> QED
  BY <1>2, <1>3, <1>4, <1>5, PadOf

(* A new block is short exactly when the header before it was too close    *)
(* below a page boundary.                                                  *)
LEMMA FreshShortIff ==
  ASSUME NEW last \in Block, NEW size \in Sizes, NEW align \in {0, ALIGN},
         NEW b, b = Fresh(last, size, align)
  PROVE  Short(b) <=> b.mem # b.base + HDR /\ TooClose(last, b)
<1>1. PICK base, mem : base = last.base + HDR + last.length /\ mem = base + HDR
  OBVIOUS
<1>2. last.base \in Nat /\ base \in Nat /\ mem \in Nat /\ size \in Nat
  BY <1>1, HdrAssumption, SizesAssumption DEF Block
<1>3. PICK up, short : up = Pad(mem, align) /\ short = Pad(last.base, align)
  OBVIOUS
<1>4. up \in Nat /\ short \in Nat
  BY <1>2, <1>3, PadNat
<1>5. /\ b.base + HDR = mem /\ b.mem = mem + up /\ b.asked = size
      /\ b.base = base /\ b.length = size + short
  BY <1>1, <1>3 DEF Fresh
<1>6. Short(b) <=> up > short
  <2>1. Short(b) <=> b.mem + b.asked > b.base + HDR + b.length
    BY ZenonT(20) DEF Short
  <2>2. b.mem \in Nat /\ b.asked \in Nat /\ b.base \in Nat /\ b.length \in Nat
    BY <1>2, <1>4, <1>5
  <2>3. b.base + HDR + b.length = mem + size + short
    BY <1>2, <1>4, <1>5, <2>2, HdrAssumption
  <2> QED
    BY <1>2, <1>4, <1>5, <2>1, <2>2, <2>3
<1>7. b.mem # b.base + HDR <=> up # 0
  BY <1>2, <1>4, <1>5
<1>8. CASE align = 0
  <2>1. up = 0 /\ short = 0
    BY <1>3, <1>8 DEF Pad
  <2> QED
    BY <1>6, <1>7, <2>1
<1>9. CASE align = ALIGN
  <2>1. PICK r : r = (mem - last.base) % ALIGN
    OBVIOUS
  <2>2. /\ short \in 0 .. ALIGN - 1 /\ r \in 0 .. ALIGN - 1
        /\ up \in 0 .. ALIGN - 1
        /\ r <= short => up = short - r
        /\ r > short => up = short - r + ALIGN
    <3>1. up = Pad(mem, ALIGN) /\ short = Pad(last.base, ALIGN)
      BY <1>3, <1>9
    <3> QED
      BY <1>2, <2>1, <3>1, PadFurther
  <2>3. TooClose(last, b) <=> r > short
    <3>1. TooClose(last, b) <=> (b.base + HDR - last.base) % ALIGN > Pad(last.base, ALIGN)
      BY ZenonT(20) DEF TooClose
    <3>2. (b.base + HDR - last.base) % ALIGN = r
      <4>1. b.base + HDR = mem
        BY <1>5
      <4>2. b.base + HDR - last.base = mem - last.base
        BY <1>1, <1>2, <1>5, <4>1, HdrAssumption
      <4> QED
        BY <2>1, <4>2
    <3>3. Pad(last.base, ALIGN) = short
      BY <1>3, <1>9
    <3> QED
      BY <3>1, <3>2, <3>3, <2>2
  <2>4. up > short <=> up # 0 /\ r > short
    BY <2>2, AlignAssumption
  <2> QED
    BY <1>6, <1>7, <2>3, <2>4
<1> QED
  BY <1>8, <1>9

(* Only the extension of the list makes it longer, and its block is new. *)
LEMMA FreshStep == ASSUME KIInv, [Next]_vars PROVE FreshShort
<1>0. heap \in Seq(Block) /\ Len(heap) \in Nat \ {0} /\ heap[Len(heap)] \in Block
  BY DEF KIInv, KTypeOK
<1>1. CASE \E size \in Sizes, align \in {0, ALIGN} : Malloc(size, align)
  <2>1. PICK size \in Sizes, align \in {0, ALIGN} : Malloc(size, align)
    BY <1>1
  <2>2. CASE \E k \in Index : Reuse(k, size, align)
    <3>1. Len(heap') = Len(heap)
      BY <1>0, <2>2 DEF Reuse
    <3> QED
      BY <1>0, <3>1 DEF FreshShort
  <2>3. CASE Extend(size, align)
    <3> DEFINE b == Fresh(heap[Len(heap)], size, align)
    <3>1. b \in Block
      BY <1>0, FreshFacts
    <3> HIDE DEF b
    <3>2. heap' = Append(heap, b)
      BY <2>3 DEF Extend, b
    <3>3. heap'[Len(heap')] = b
      BY <1>0, <3>1, <3>2
    <3>4. Short(b) <=> b.mem # b.base + HDR /\ TooClose(heap[Len(heap)], b)
      BY <1>0, FreshShortIff DEF b
    <3> QED
      BY <3>3, <3>4 DEF FreshShort
  <2> QED
    BY <2>1, <2>2, <2>3 DEF Malloc
<1>2. CASE \E k \in Index : Free(k)
  <2>1. PICK k \in Index : Free(k)
    BY <1>2
  <2>2. Len(heap') = Len(heap)
    BY <1>0, <2>1, FreeFacts
  <2> QED
    BY <1>0, <2>2 DEF FreshShort
<1>3. CASE UNCHANGED vars
  BY <1>0, <1>3 DEF vars, FreshShort
<1> QED
  BY <1>1, <1>2, <1>3 DEF Next

(* malloc_a makes a new block too small for its alignment exactly when the *)
(* header before it is too close below a page boundary, for every header   *)
(* size, page and request.                                                 *)
THEOREM ShortBlocks == Spec => FreshShortOnlyIfTooClose
<1>1. KIInv /\ [Next]_vars => [FreshShort]_vars
  BY FreshStep
<1> QED
  BY <1>1, KInvariance, PTL DEF Spec, FreshShortOnlyIfTooClose
=============================================================================
