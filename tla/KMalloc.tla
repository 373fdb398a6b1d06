------------------------------- MODULE KMalloc -------------------------------
(***************************************************************************)
(* The kernel heap: src/malloc.c.  A list of headers, each followed by     *)
(* length words; free marks a header, malloc_a reuses a marked one or puts *)
(* a new header behind the last.  Nothing is merged and nothing split.     *)
(*                                                                         *)
(* Addresses count words from MALLOC_ARENA, itself aligned.  Paging is on: *)
(* malloc_end follows the last block, so that free's range test accepts    *)
(* all that is freed here.  The clients are others: a client asks, uses    *)
(* what it asked for, and frees the pointer it was given.                  *)
(***************************************************************************)
EXTENDS Integers, Sequences

CONSTANTS
  HDR,       \* sizeof(struct malloc_header): 6 words
  MEM,       \* where in it the field mem is: word 3
  Sizes,     \* what is asked for
  ALIGN,     \* the alignment of malloc_a's callers: a page
  MaxBlocks  \* bound on the headers

ASSUME HdrAssumption == HDR \in Nat /\ MEM \in 0 .. HDR - 1
ASSUME SizesAssumption == Sizes \subseteq Nat \ {0}
ASSUME AlignAssumption == ALIGN \in Nat \ {0}
ASSUME MaxBlocksAssumption == MaxBlocks \in Nat \ {0}

VARIABLES
  heap,     \* the blocks, in list order
  struck,   \* the words that malloc_a has written by mistake
  verybad   \* "Something very bad has happened when freeing" was logged

vars == <<heap, struck, verybad>>

(* base: where the header is.  mem: what malloc_a returned, kept in the    *)
(* header.  asked: how much of it the client may use.                      *)
Block == [base : Nat, length : Nat, free : BOOLEAN, mem : Nat, asked : Nat]

(* init_malloc leaves one used, empty block. *)
Arena == [base |-> 0, length |-> 0, free |-> FALSE, mem |-> 0, asked |-> 0]

Init ==
  /\ heap = <<Arena>>
  /\ struck = {}
  /\ verybad = FALSE

Index == DOMAIN heap

Live == {k \in Index : ~heap[k].free /\ heap[k].asked > 0}

(* A block whose words run over the end of its extent. *)
Short(b) == b.mem + b.asked > b.base + HDR + b.length

(* The words of a block: its client's, and those of its header. *)
Words(b) == b.mem .. b.mem + b.asked - 1
Header(b) == b.base .. b.base + HDR - 1

(* The client of a short block writes over whatever comes behind it.  What *)
(* the list walks do when a header has been written over is left out.      *)
Sound ==
  /\ \A k \in Live : ~Short(heap[k])
  /\ \A k \in Index : Header(heap[k]) \cap struck = {}

(* What lifts an address to the next multiple of align; 0 is no alignment. *)
Pad(addr, align) == IF align = 0 THEN 0 ELSE (-addr) % align

(* The length of the block is not looked at. *)
BadFits(b, size) == b.free

Fits(b, size) == b.free /\ b.length > size + HDR

(* For an aligned request a block is also measured: header_diff, from its  *)
(* header to the next, against align_address(ptr) + size, which is an      *)
(* absolute address above MALLOC_ARENA, and so larger than any block of    *)
(* less than 64 MB.  The last header has no next: 0 - ptr, an unsigned     *)
(* number larger still, and the block is taken.                            *)
Reusable(k, size, align) ==
  /\ Fits(heap[k], size)
  /\ align = 0 \/ k = Len(heap)

(* The header is counted as part of what is asked for. *)
BadReused(b, size, align) ==
  [base |-> b.base, length |-> size - HDR, free |-> FALSE,
   mem |-> b.base + HDR + Pad(b.base + HDR, align), asked |-> size]

(* The length becomes what is asked for, without room for the alignment:   *)
(* what is cut off is never used again.                                    *)
Reused(b, size, align) ==
  [base |-> b.base, length |-> size, free |-> FALSE,
   mem |-> b.base + HDR + Pad(b.base + HDR, align), asked |-> size]

(* The room is measured from the new header. *)
BadFresh(last, size, align) ==
  LET base == last.base + HDR + last.length IN
  [base |-> base, length |-> size + Pad(base, align),
   free |-> FALSE, mem |-> base + HDR + Pad(base + HDR, align), asked |-> size]

(* The new header.  The room for the alignment is measured from the last   *)
(* header, not from the new block.                                         *)
Fresh(last, size, align) ==
  LET base == last.base + HDR + last.length IN
  [base |-> base,
   length |-> size + Pad(last.base, align),
   free |-> FALSE, mem |-> base + HDR + Pad(base + HDR, align), asked |-> size]

(* That measurement calls align_address, which records its result in the   *)
(* header in front of the address it is given: here that is no header, but *)
(* the end of the block before.                                            *)
Struck(size, align) ==
  IF align = 0 THEN {} ELSE {heap[k].base - HDR + MEM : k \in {l \in Index : Fits(heap[l], size)}}

Reuse(k, size, align) ==
  /\ Reusable(k, size, align)
  /\ \A j \in Index : Reusable(j, size, align) => k <= j
  /\ heap' = [heap EXCEPT ![k] = Reused(heap[k], size, align)]

Extend(size, align) ==
  /\ \A k \in Index : ~Reusable(k, size, align)
  /\ Len(heap) < MaxBlocks
  /\ heap' = Append(heap, Fresh(heap[Len(heap)], size, align))

(* malloc_a: the first block that can be reused, or a new one at the end. *)
Malloc(size, align) ==
  /\ Sound
  /\ \/ \E k \in Index : Reuse(k, size, align)
     \/ Extend(size, align)
  /\ struck' = struck \cup Struck(size, align)
  /\ UNCHANGED verybad

(* The list is not searched. *)
BadFound(ptr) == {k \in Index : heap[k].base + HDR = ptr}

(* The header right before the pointer, or else the one that records it.   *)
Found(ptr) ==
  LET before == {k \in Index : heap[k].base + HDR = ptr}
      recorded == {k \in Index : heap[k].mem = ptr}
  IN  IF before # {} THEN before ELSE {k \in recorded : \A l \in recorded : k <= l}

(* free(mem).  With no header it logs, and writes through the null pointer. *)
Release(ptr) ==
  /\ heap' = [k \in Index |-> IF k \in Found(ptr) THEN [heap[k] EXCEPT !.free = TRUE] ELSE heap[k]]
  /\ verybad' = (verybad \/ Found(ptr) = {})
  /\ UNCHANGED struck

Free(k) ==
  /\ Sound
  /\ k \in Live
  /\ Release(heap[k].mem)

Next ==
  \/ \E size \in Sizes, align \in {0, ALIGN} : Malloc(size, align)
  \/ \E k \in Index : Free(k)

Spec == Init /\ [][Next]_vars

-----------------------------------------------------------------------------
KTypeOK ==
  /\ heap \in Seq(Block)
  /\ Len(heap) \in 1 .. MaxBlocks
  /\ struck \subseteq Nat
  /\ verybad \in BOOLEAN

(* The list is in address order and no extent reaches into the next one:   *)
(* a block that is reused never grows.                                     *)
InOrder ==
  \A j, k \in Index : j < k => heap[k].base >= heap[j].base + HDR + heap[j].length

(* The arena's own header is never freed or reused; a client's words start *)
(* behind its header; and what was freed was not short.                    *)
BlocksKept ==
  /\ heap[1] = Arena
  /\ \A k \in Index \ {1} : /\ heap[k].asked > 0
                            /\ heap[k].mem >= heap[k].base + HDR
                            /\ heap[k].free => ~Short(heap[k])

(* The inductive invariant behind the properties below. *)
KIInv == KTypeOK /\ InOrder /\ BlocksKept

(* No two clients share a word and no client can reach a header, as long   *)
(* as nobody's block was short, however blocks were freed and reused.      *)
LiveApart ==
  Sound => \A k \in Live : \A l \in Index :
             /\ Words(heap[k]) \cap Header(heap[l]) = {}
             /\ l \in Live \ {k} => Words(heap[k]) \cap Words(heap[l]) = {}

(* Whoever frees what malloc_a returned gets that block, and only that     *)
(* block, marked; also if it was aligned and no header is right before it. *)
FreedExactly ==
  \A k \in Live : Free(k) =>
    /\ heap' = [heap EXCEPT ![k].free = TRUE]
    /\ verybad' = verybad

FreesItsOwn == [][FreedExactly]_vars

(* When a new block can be short: only an aligned one, put behind a last   *)
(* header that is too close below a page boundary, closer than the new     *)
(* block lies above it (modulo the page).                                  *)
TooClose(pred, b) ==
  (b.base + HDR - pred.base) % ALIGN > Pad(pred.base, ALIGN)

FreshShort ==
  Len(heap') > Len(heap) =>
    LET b == heap'[Len(heap')] IN
    Short(b) <=> b.mem # b.base + HDR /\ TooClose(heap[Len(heap)], b)

FreshShortOnlyIfTooClose == [][FreshShort]_vars

(* Every pointer that is freed leads to a block: free never logs that      *)
(* something very bad has happened, before it writes through null.         *)
NothingVeryBad == ~verybad

(***************************************************************************)
(* The client in src/mt.c: detach_stack keeps the end of the block that    *)
(* new_process got, for the TSS, and proc_exit frees it.                   *)
(***************************************************************************)
ProcExitFreesStack(k) ==
  /\ Sound
  /\ k \in Live
  /\ heap[k].mem # heap[k].base + HDR
  /\ Release(heap[k].mem + heap[k].asked)

ProcSpec == Init /\ [][Next \/ \E k \in Index : ProcExitFreesStack(k)]_vars
=============================================================================
