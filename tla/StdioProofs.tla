---------------------------- MODULE StdioProofs ----------------------------
(***************************************************************************)
(* The driver never gives a block away twice, the state of files and       *)
(* streams keeps its types, and files written in ways the driver can do    *)
(* read back, for every size of blocks, buffers and disk, any number of    *)
(* files, and whatever is written.                                         *)
(***************************************************************************)
EXTENDS Stdio, FiniteSetTheorems, SequenceTheorems, WellFoundedInduction, TLAPS

-----------------------------------------------------------------------------
(* Least and greatest elements                                              *)

Below == {ss \in Nat \X Nat : ss[1] < ss[2]}

LEMMA BelowWellFounded == IsWellFoundedOn(Below, Nat)
BY NatLessThanWellFounded DEF OpToRel, Below

LEMMA Least ==
  ASSUME NEW S \in SUBSET Nat, S # {}
  PROVE  \E x \in S : \A y \in S : x <= y
<1>1. PICK x \in S : \A y \in S : ~ (<<y, x>> \in Below)
  BY BelowWellFounded, WFMin
<1>2. \A y \in S : ~ (y < x)
  BY <1>1 DEF Below
<1> QED BY <1>2

\* Max of a set of numbers with a bound is in the set.
LEMMA Greatest ==
  ASSUME NEW n \in Nat, NEW S \in SUBSET (0 .. n), S # {}
  PROVE  Max(S) \in S
<1> DEFINE T == {n - x : x \in S}
<1>1. \A x \in S : x \in 0 .. n /\ n - x \in Nat
  OBVIOUS
<1>2. T \in SUBSET Nat /\ T # {}
  BY <1>1
<1>3. PICK m \in T : \A t \in T : m <= t
  BY <1>2, Least
<1>4. PICK x \in S : m = n - x
  OBVIOUS
<1>5. \A y \in S : x >= y
  BY <1>1, <1>3, <1>4
<1> QED BY <1>4, <1>5 DEF Max

-----------------------------------------------------------------------------
(* Growth                                                                   *)

\* While enough bits are free, what is allocated for a file is a free bit.
LEMMA AllocatedFree ==
  ASSUME NEW d, NEW n \in Nat, n # 0, n <= Cardinality(FreeBits(d))
  PROVE  Max(FirstFree(d, n)) \in FirstFree(d, n)
<1> USE ExtAssumption
<1>1. Cardinality({}) = 0
  BY FS_EmptySet
<1>2. FreeBits(d) \in SUBSET Nat /\ FreeBits(d) \subseteq 0 .. NBits
  BY DEF FreeBits, Bits
<1>3. FreeBits(d) # {}
  BY <1>1
<1>4. PICK b \in FreeBits(d) : \A c \in FreeBits(d) : b <= c
  BY <1>2, <1>3, Least
<1>5. {c \in FreeBits(d) : c < b} = {}
  BY <1>2, <1>4
<1>6. b \in FirstFree(d, n)
  BY <1>1, <1>5 DEF FirstFree
<1>7. FirstFree(d, n) \in SUBSET (0 .. NBits)
  BY <1>2 DEF FirstFree
<1> QED BY <1>6, <1>7, Greatest

LEMMA BlocksToAddType ==
  ASSUME NEW i \in Inode, NEW len \in Nat
  PROVE  BlocksToAdd(i, len) \in Nat
<1> USE ExtAssumption
<1> DEFINE diff == len - i.size
           space == (BLOCK_SIZE - (i.size % BLOCK_SIZE)) % BLOCK_SIZE
<1>1. i.size \in Nat
  BY DEF Inode
<1>2. diff \in Int /\ space \in Int
  BY <1>1
<1>3. ASSUME diff > space
      PROVE  (diff - space + BLOCK_SIZE - 1) \div BLOCK_SIZE \in Nat
  BY <1>2, <1>3
<1> QED BY <1>2, <1>3 DEF BlocksToAdd

\* A disk after growth: the inode has at most one new pointer, behind its old blocks and
\* to a bit that was free.
Grew(d, f, i, len, g) ==
  /\ g.inode \in Inode /\ g.inode.size = len
  /\ g.disk \in Disks
  /\ g.disk.inodes = [d.inodes EXCEPT ![f] = g.inode]
  /\ d.bitmap \subseteq g.disk.bitmap
  /\ \/ BlocksToAdd(i, len) = 0 /\ g.inode.bp = i.bp
     \/ /\ BlocksToAdd(i, len) # 0
        /\ \E v \in g.disk.bitmap \ d.bitmap :
             g.inode.bp = [i.bp EXCEPT ![i.size \div BLOCK_SIZE] = v]

\* What lies on it after a write: the last character written to a place, if one was.
Stores(d, w, buf, offset) ==
  \A b \in Blocks, o \in 0 .. BLOCK_SIZE - 1 :
    LET at == {p \in offset .. offset + Len(buf) - 1 : Place(w.inode, p) = <<b, o>>}
    IN  w.disk.blocks[b][o] = IF at = {} THEN d.blocks[b][o] ELSE buf[Max(at) - offset + 1]

LEMMA Growth ==
  ASSUME NEW d \in Disks, NEW f \in Inums, NEW i \in Inode, NEW len \in Nat,
         BlocksToAdd(i, len) <= Cardinality(FreeBits(d))
  PROVE  LET g == guarantee_inode_size(d, f, i, len)
         IN  g = [disk |-> g.disk, inode |-> g.inode] /\ Grew(d, f, i, len, g)
<1> USE ExtAssumption
<1> DEFINE n == BlocksToAdd(i, len)
           new == FirstFree(d, n)
           g == guarantee_inode_size(d, f, i, len)
           grown == IF n = 0 THEN i ELSE [i EXCEPT !.bp[i.size \div BLOCK_SIZE] = Max(new)]
           inode == [grown EXCEPT !.size = len]
<1>1. n \in Nat
  BY BlocksToAddType
<1>2. new \subseteq FreeBits(d)
  BY DEF FirstFree
<1>3. n # 0 => Max(new) \in new
  BY <1>1, AllocatedFree
<1>4. FreeBits(d) \subseteq Bits /\ FreeBits(d) \intersect d.bitmap = {} /\ Bits \subseteq Blocks
  BY DEF FreeBits, Bits, Blocks
<1>5. g = [disk |-> [d EXCEPT !.bitmap = d.bitmap \union new, !.inodes[f] = inode], inode |-> inode]
  BY DEF guarantee_inode_size, Marked
<1>6. inode \in Inode /\ inode.size = len
  <2>1. grown \in Inode
    BY <1>2, <1>3, <1>4 DEF Inode
  <2> QED BY <2>1 DEF Inode
<1>7. \/ n = 0 /\ inode.bp = i.bp
      \/ n # 0 /\ inode.bp = [i.bp EXCEPT ![i.size \div BLOCK_SIZE] = Max(new)]
  <2>1. CASE n = 0
    BY <2>1 DEF Inode
  <2>2. CASE n # 0
    BY <2>2 DEF Inode
  <2> QED BY <2>1, <2>2
<1> HIDE DEF g, inode, new
<1>8. g.disk = [inodes |-> [d.inodes EXCEPT ![f] = inode], blocks |-> d.blocks,
                bitmap |-> d.bitmap \union new]
  <2>1. g.disk = [d EXCEPT !.bitmap = d.bitmap \union new, !.inodes[f] = inode]
    BY <1>5
  <2>2. d = [inodes |-> d.inodes, blocks |-> d.blocks, bitmap |-> d.bitmap]
    BY DEF Disks
  <2> QED BY <2>1, <2>2
<1>9. /\ g.inode = inode
      /\ g.disk.bitmap = d.bitmap \union new
      /\ g.disk.inodes = [d.inodes EXCEPT ![f] = inode]
  BY <1>5, <1>8
<1> HIDE DEF n
<1>11. \/ n = 0 /\ g.inode.bp = i.bp
       \/ /\ n # 0
          /\ \E v \in g.disk.bitmap \ d.bitmap :
               g.inode.bp = [i.bp EXCEPT ![i.size \div BLOCK_SIZE] = v]
  BY <1>2, <1>3, <1>4, <1>7, <1>9
<1>12. g.disk \in Disks
  BY <1>2, <1>4, <1>6, <1>8 DEF Disks
<1>13. Grew(d, f, i, len, g)
  BY <1>6, <1>9, <1>11, <1>12 DEF Grew, n
<1> QED BY <1>5, <1>13 DEF g

\* Storing what is written changes blocks only, and those as it should.
LEMMA WriteGrows ==
  ASSUME NEW d \in Disks, NEW f \in Inums, NEW i \in Inode, NEW offset \in Nat,
         NEW buf \in Seq(Char),
         BlocksToAdd(i, offset + Len(buf)) <= Cardinality(FreeBits(d))
  PROVE  LET w == iwrite(d, f, i, buf, offset)
         IN  Grew(d, f, i, offset + Len(buf), w) /\ Stores(d, w, buf, offset)
<1> USE ExtAssumption
<1> DEFINE len == offset + Len(buf)
           g == guarantee_inode_size(d, f, i, len)
           at(b, o) == {p \in offset .. offset + Len(buf) - 1 : Place(g.inode, p) = <<b, o>>}
           stored == [b \in Blocks |-> [o \in 0 .. BLOCK_SIZE - 1 |->
                        IF at(b, o) = {} THEN d.blocks[b][o] ELSE buf[Max(at(b, o)) - offset + 1]]]
           w == iwrite(d, f, i, buf, offset)
<1>1. len \in Nat
  OBVIOUS
<1>2. g = [disk |-> g.disk, inode |-> g.inode] /\ Grew(d, f, i, len, g)
  BY <1>1, Growth
<1>3. ASSUME NEW b \in Blocks, NEW o \in 0 .. BLOCK_SIZE - 1, at(b, o) # {}
      PROVE  buf[Max(at(b, o)) - offset + 1] \in Char
  <2>1. at(b, o) \in SUBSET (0 .. len)
    OBVIOUS
  <2>2. Max(at(b, o)) \in at(b, o)
    BY <1>1, <1>3, <2>1, Greatest
  <2>3. Max(at(b, o)) - offset + 1 \in 1 .. Len(buf)
    BY <2>2
  <2> QED BY <2>3
<1>4. stored \in [Blocks -> [0 .. BLOCK_SIZE - 1 -> Char]]
  BY <1>3 DEF Disks
<1>5. w = [g EXCEPT !.disk.blocks = stored]
  BY DEF iwrite
<1> HIDE DEF g, stored, w, len
<1>6. g.disk = [inodes |-> g.disk.inodes, blocks |-> g.disk.blocks, bitmap |-> g.disk.bitmap]
  BY <1>2 DEF Grew, Disks
<1>7. /\ w.inode = g.inode
      /\ w.disk = [inodes |-> g.disk.inodes, blocks |-> stored, bitmap |-> g.disk.bitmap]
  BY <1>2, <1>5, <1>6
<1>8. w.disk \in Disks
  BY <1>2, <1>4, <1>7 DEF Grew, Disks
<1>9. w.disk.inodes = g.disk.inodes /\ w.disk.bitmap = g.disk.bitmap
  BY <1>7
<1>10. Grew(d, f, i, len, g)
  BY <1>2
<1>11. Grew(d, f, i, len, w)
  BY <1>7, <1>8, <1>9, <1>10 DEF Grew
<1>12. Stores(d, w, buf, offset)
  <2>1. ASSUME NEW b \in Blocks, NEW o \in 0 .. BLOCK_SIZE - 1
        PROVE  w.disk.blocks[b][o] =
                 IF at(b, o) = {} THEN d.blocks[b][o] ELSE buf[Max(at(b, o)) - offset + 1]
    BY <1>7 DEF stored
  <2>2. w.inode = g.inode
    BY <1>7
  <2>3. \A b, o : at(b, o) = {p \in offset .. offset + Len(buf) - 1 : Place(w.inode, p) = <<b, o>>}
    BY <2>2
  <2> HIDE DEF at
  <2> QED BY <2>1, <2>3 DEF Stores
<1> QED BY <1>11, <1>12 DEF w, len

-----------------------------------------------------------------------------
(* Reading                                                                  *)

LEMMA InPointers ==
  ASSUME NEW p \in Nat, p < NPointers * BLOCK_SIZE
  PROVE  p \div BLOCK_SIZE \in 0 .. NPointers - 1
<1> USE ExtAssumption
<1> DEFINE q == p \div BLOCK_SIZE
<1>1. q \in Nat /\ q * BLOCK_SIZE <= p
  OBVIOUS
<1>2. ASSUME q >= NPointers PROVE FALSE
  <2>1. q * BLOCK_SIZE >= NPointers * BLOCK_SIZE
    BY <1>1, <1>2
  <2> QED BY <1>1, <2>1
<1> QED BY <1>1, <1>2

Opened == [inum : Inums, inode : Inode, offset : Nat]

\* What a system call reads are as many characters as the count is clipped to.
LEMMA CharsRead ==
  ASSUME disk \in Disks, NEW data \in Opened, Fits(data.inode.size), NEW count \in Nat,
         Clipped(data, count) >= 0
  PROVE  /\ ReadChars(data, count) \in Seq(Char)
         /\ Clipped(data, count) \in Nat
         /\ Len(ReadChars(data, count)) = Clipped(data, count)
<1> USE ExtAssumption
<1> DEFINE n == Clipped(data, count)
<1>1. data.inode.size \in Nat /\ data.offset \in Nat
  BY DEF Opened, Inode
<1>2. n \in Nat /\ data.offset + n <= data.inode.size
  BY <1>1 DEF Clipped
<1> HIDE DEF n
<1>3. ASSUME NEW k \in 1 .. n
      PROVE  LET place == Place(data.inode, data.offset + k - 1)
             IN  disk.blocks[place[1]][place[2]] \in Char
  <2> DEFINE p == data.offset + k - 1
  <2>1. p \in Nat /\ p < NPointers * BLOCK_SIZE
    BY <1>1, <1>2 DEF Fits
  <2>2. p \div BLOCK_SIZE \in 0 .. NPointers - 1 /\ p % BLOCK_SIZE \in 0 .. BLOCK_SIZE - 1
    BY <2>1, InPointers
  <2> HIDE DEF p
  <2>3. data.inode.bp[p \div BLOCK_SIZE] \in Blocks
    BY <2>2 DEF Opened, Inode
  <2>4. disk.blocks[data.inode.bp[p \div BLOCK_SIZE]][p % BLOCK_SIZE] \in Char
    BY <2>2, <2>3 DEF Disks
  <2> QED BY <2>4 DEF Place, p
<1>4. ReadChars(data, count) =
        [k \in 1 .. n |-> disk.blocks[Place(data.inode, data.offset + k - 1)[1]]
                                     [Place(data.inode, data.offset + k - 1)[2]]]
  BY DEF ReadChars, Content, n
<1> QED BY <1>2, <1>3, <1>4 DEF n

-----------------------------------------------------------------------------
(* Files: the system calls                                                  *)

\* Updates of a sequence, and of the records in it.
LEMMA Updated ==
  ASSUME NEW S, NEW s \in Seq(S), NEW x \in 1 .. Len(s), NEW v \in S
  PROVE  /\ [s EXCEPT ![x] = v] \in Seq(S)
         /\ Len([s EXCEPT ![x] = v]) = Len(s)
         /\ \A y \in 1 .. Len(s) : [s EXCEPT ![x] = v][y] = IF y = x THEN v ELSE s[y]
OBVIOUS

LEMMA OffsetOnly ==
  ASSUME NEW s \in Seq(Opened), NEW x \in 1 .. Len(s), NEW b
  PROVE  [s EXCEPT ![x].offset = b] = [s EXCEPT ![x] = [inum |-> s[x].inum, inode |-> s[x].inode, offset |-> b]]
<1>1. s[x] \in Opened OBVIOUS
<1>2. [s EXCEPT ![x].offset = b] = [s EXCEPT ![x] = [s[x] EXCEPT !.offset = b]]
  OBVIOUS
<1>3. [s[x] EXCEPT !.offset = b] = [inum |-> s[x].inum, inode |-> s[x].inode, offset |-> b]
  BY <1>1 DEF Opened
<1> QED BY <1>2, <1>3

FilesOK ==
  /\ disk \in Disks /\ fds \in Seq(Opened)
  /\ \A f \in Inums : Fits(disk.inodes[f].size)
  /\ \A x \in Fds : Fits(fds[x].inode.size) /\ fds[x].offset <= fds[x].inode.size

LEMMA OpenOK ==
  ASSUME FilesOK, NEW f \in Inums, Open(f)
  PROVE  /\ FilesOK'
         /\ \E data \in Opened : fds' = Append(fds, data) /\ data.inode = disk.inodes[f]
                                                       /\ data.inum = f
<1> USE ExtAssumption DEF FilesOK
<1> DEFINE data == [inum |-> f, inode |-> disk.inodes[f], offset |-> 0]
<1>1. disk.inodes[f] \in Inode /\ disk.inodes[f].size \in Nat
  BY DEF Disks, Inode
<1>2. /\ data \in Opened /\ data.inode = disk.inodes[f] /\ data.inum = f
      /\ data.offset <= data.inode.size
  BY <1>1 DEF Opened
<1>3. fds' = Append(fds, data)
  BY DEF Open
<1> HIDE DEF data
<1>4. fds' \in Seq(Opened) /\ disk' = disk
  BY <1>2, <1>3 DEF Open
<1>5. ASSUME NEW x \in Fds'
      PROVE  Fits(fds'[x].inode.size) /\ fds'[x].offset <= fds'[x].inode.size
  BY <1>2, <1>3, <1>5 DEF Fds
<1> QED BY <1>2, <1>3, <1>4, <1>5 DEF Fits

LEMMA WriteOK ==
  ASSUME FilesOK, NEW x \in Fds, NEW buf \in Seq(Char), Write(x, buf)
  PROVE  /\ FilesOK'
         /\ \E w : /\ Grew(disk, fds[x].inum, fds[x].inode, fds[x].offset + Len(buf), w)
                  /\ Stores(disk, w, buf, fds[x].offset)
                  /\ disk' = w.disk
                  /\ fds' = [fds EXCEPT ![x] = [inum |-> fds[x].inum, inode |-> w.inode,
                                                  offset |-> fds[x].offset + Len(buf)]]
<1> USE DEF FilesOK
<1> DEFINE data == fds[x]
           len == data.offset + Len(buf)
           w == iwrite(disk, data.inum, data.inode, buf, data.offset)
<1>1. data \in Opened
  BY DEF Fds
<1>2. /\ data.inum \in Inums /\ data.inode \in Inode /\ data.offset \in Nat /\ len \in Nat
      /\ data = [inum |-> data.inum, inode |-> data.inode, offset |-> data.offset]
  BY <1>1 DEF Opened
<1>3. /\ Fits(len) /\ BlocksToAdd(data.inode, len) <= Cardinality(FreeBits(disk))
      /\ disk' = w.disk /\ fds' = [fds EXCEPT ![x] = [inum |-> data.inum, inode |-> w.inode, offset |-> len]]
  BY DEF Write
<1>4. Grew(disk, data.inum, data.inode, len, w) /\ Stores(disk, w, buf, data.offset)
  BY <1>2, <1>3, WriteGrows
<1> HIDE DEF w, len, data
<1>5. w.inode \in Inode /\ w.inode.size = len /\ Fits(w.inode.size) /\ w.disk \in Disks
  BY <1>3, <1>4 DEF Grew
<1>6. fds' = [fds EXCEPT ![x] = [inum |-> data.inum, inode |-> w.inode, offset |-> len]]
  BY <1>3
<1>7. fds' \in Seq(Opened) /\ Len(fds') = Len(fds)
  <2>1. [inum |-> data.inum, inode |-> w.inode, offset |-> len] \in Opened
    BY <1>2, <1>5 DEF Opened
  <2> QED BY <1>6, <2>1, Updated DEF Fds
<1>8. ASSUME NEW y \in Fds'
      PROVE  Fits(fds'[y].inode.size) /\ fds'[y].offset <= fds'[y].inode.size
  <2>1. y \in Fds /\ x \in 1 .. Len(fds)
    BY <1>7 DEF Fds
  <2>2. CASE y = x
    BY <1>2, <1>5, <1>6, <2>1, <2>2 DEF Fds
  <2>3. CASE y # x
    BY <1>6, <2>1, <2>3 DEF Fds
  <2> QED BY <2>2, <2>3
<1>9. ASSUME NEW f \in Inums PROVE Fits(disk'.inodes[f].size)
  <2>1. disk'.inodes = [disk.inodes EXCEPT ![data.inum] = w.inode]
    BY <1>3, <1>4 DEF Grew
  <2>2. disk.inodes \in [Inums -> Inode]
    BY DEF Disks
  <2> QED BY <1>5, <2>1, <2>2
<1>10. FilesOK'
  BY <1>3, <1>5, <1>7, <1>8, <1>9 DEF Fits
<1> QED BY <1>3, <1>4, <1>10 DEF data, len

LEMMA ReadOK ==
  ASSUME FilesOK, NEW x \in Fds, NEW count \in Nat, Read(x, count)
  PROVE  /\ FilesOK'
         /\ disk' = disk
         /\ Len(fds') = Len(fds)
         /\ \A y \in Fds : fds'[y].inode = fds[y].inode /\ fds'[y].inum = fds[y].inum
         /\ Clipped(fds[x], count) >= 0
<1> USE DEF FilesOK
<1> DEFINE data == fds[x]
           n == Clipped(data, count)
<1>1. data \in Opened
  BY DEF Fds
<1>2. /\ data.inode.size \in Nat /\ data.offset \in Nat
      /\ data = [inum |-> data.inum, inode |-> data.inode, offset |-> data.offset]
  BY <1>1 DEF Opened, Inode
<1>3. data.offset <= data.inode.size
  BY DEF Fds
<1>4. n \in Nat /\ data.offset + n <= data.inode.size
  BY <1>2, <1>3 DEF Clipped
<1> HIDE DEF n
<1>5. disk' = disk /\ fds' = [fds EXCEPT ![x].offset = fds[x].offset + n]
  BY DEF Read, n
<1>6. fds' = [fds EXCEPT ![x] = [inum |-> data.inum, inode |-> data.inode, offset |-> data.offset + n]]
  BY <1>5, OffsetOnly DEF Fds
<1>7. [inum |-> data.inum, inode |-> data.inode, offset |-> data.offset + n] \in Opened
  BY <1>1, <1>2, <1>4 DEF Opened
<1> HIDE DEF data
<1>8. fds' \in Seq(Opened) /\ Len(fds') = Len(fds)
  BY <1>6, <1>7, Updated DEF Fds
<1>9. /\ x \in 1 .. Len(fds)
      /\ fds'[x] = [inum |-> data.inum, inode |-> data.inode, offset |-> data.offset + n]
      /\ \A y \in Fds : y # x => fds'[y] = fds[y]
  BY <1>6 DEF Fds
<1>10. \A y \in Fds : fds'[y].inode = fds[y].inode /\ fds'[y].inum = fds[y].inum
  BY <1>9 DEF data
<1>11. \A y \in Fds' : Fits(fds'[y].inode.size) /\ fds'[y].offset <= fds'[y].inode.size
  <2>1. fds'[x].offset = data.offset + n /\ fds'[x].inode = data.inode
    BY <1>9
  <2>2. fds'[x].offset <= fds'[x].inode.size
    BY <1>4, <2>1
  <2> QED BY <1>8, <1>9, <1>10, <2>2 DEF Fds
<1> QED BY <1>4, <1>5, <1>8, <1>10, <1>11 DEF n, data, Fits

-----------------------------------------------------------------------------
(* Streams                                                                  *)

Text == Seq(Char \union {EOF})
Stream == [mode : {"r", "w"}, buf : Text, bufrp : Nat, bufwp : Nat, got : Text,
           fresh : BOOLEAN, said : BOOLEAN]

\* What a reader has not read yet lies in its buffer, and a writer's buffer is never full.
StreamOK(r) ==
  /\ r \in Stream
  /\ r.mode = "r" => r.bufwp <= Len(r.buf)
  /\ r.mode = "w" => r.buf \in Seq(Char) /\ Len(r.buf) < BUFSIZ

TypeInv ==
  /\ FilesOK
  /\ streams \in Seq(Stream) /\ Len(streams) = Len(fds)
  /\ \A s \in Streams : StreamOK(streams[s])

\* One stream changes, or one is added, while the files keep their types.
LEMMA StreamChanges ==
  ASSUME TypeInv, FilesOK', Len(fds') = Len(fds), NEW s \in Streams, NEW r, StreamOK(r),
         streams' = [streams EXCEPT ![s] = r]
  PROVE  TypeInv'
<1>1. s \in 1 .. Len(streams) /\ r \in Stream
  BY DEF TypeInv, Streams, StreamOK
<1>2. streams' \in Seq(Stream) /\ Len(streams') = Len(streams)
  BY <1>1, Updated DEF TypeInv
<1>3. ASSUME NEW t \in Streams' PROVE StreamOK(streams'[t])
  BY <1>1, <1>2, <1>3 DEF TypeInv, Streams
<1>4. (\A t \in Streams : StreamOK(streams[t]))'
  BY <1>3 DEF StreamOK
<1> QED BY <1>2, <1>4 DEF TypeInv

LEMMA fopenOK ==
  ASSUME TypeInv, NEW f \in Inums, NEW mode \in {"r", "w"}, fopen(f, mode)
  PROVE  TypeInv'
<1> USE StdioAssumption
<1> DEFINE r == [mode |-> mode, buf |-> <<>>, bufrp |-> 0, bufwp |-> 0, got |-> <<>>,
                 fresh |-> TRUE, said |-> FALSE]
<1>1. /\ FilesOK' /\ Len(fds') = Len(fds) + 1
  <2>1. FilesOK /\ Open(f)
    BY DEF TypeInv, fopen
  <2>2. FilesOK'
    BY <2>1, OpenOK
  <2>3. PICK data \in Opened : fds' = Append(fds, data)
    BY <2>1, OpenOK
  <2>4. fds \in Seq(Opened)
    BY <2>1 DEF FilesOK
  <2> QED BY <2>2, <2>3, <2>4
<1>2. StreamOK(r)
  BY DEF StreamOK, Stream, Text
<1>3. streams' = Append(streams, r)
  BY DEF fopen
<1> HIDE DEF r
<1>4. streams' \in Seq(Stream) /\ Len(streams') = Len(fds')
  BY <1>1, <1>2, <1>3 DEF TypeInv, StreamOK, FilesOK
<1>5. ASSUME NEW t \in Streams' PROVE StreamOK(streams'[t])
  BY <1>2, <1>3, <1>4, <1>5 DEF TypeInv, Streams
<1>6. (\A t \in Streams : StreamOK(streams[t]))'
  BY <1>5 DEF StreamOK
<1> QED BY <1>1, <1>4, <1>6 DEF TypeInv

LEMMA FlushOK ==
  ASSUME TypeInv, NEW s \in Streams, Writing(s), NEW buf \in Seq(Char), Flush(s, buf)
  PROVE  TypeInv'
<1> USE StdioAssumption
<1>1. s \in Fds
  BY DEF TypeInv, Streams, Fds
<1>2. FilesOK' /\ Len(fds') = Len(fds)
  <2>1. Write(s, buf)
    BY DEF Flush
  <2>2. FilesOK' /\ \E v : fds' = [fds EXCEPT ![s] = v]
    BY <1>1, <2>1, WriteOK DEF TypeInv
  <2> QED BY <2>2 DEF TypeInv, FilesOK
<1> DEFINE new(t) == IF t = s THEN [streams[t] EXCEPT !.buf = <<>>]
                     ELSE IF fds[t].inum = fds[s].inum
                     THEN [streams[t] EXCEPT !.fresh = FALSE] ELSE streams[t]
<1>3. streams' = [t \in Streams |-> new(t)]
  BY DEF Flush
<1>4. ASSUME NEW t \in Streams PROVE StreamOK(new(t))
  <2> DEFINE r == streams[t]
  <2>1. StreamOK(r)
    BY DEF TypeInv
  <2> HIDE DEF r
  <2>2. StreamOK([r EXCEPT !.fresh = FALSE])
    BY <2>1 DEF StreamOK, Stream
  <2>3. ASSUME r.mode = "w" PROVE StreamOK([r EXCEPT !.buf = <<>>])
    <3> DEFINE e == [r EXCEPT !.buf = <<>>]
    <3>1. <<>> \in Text /\ <<>> \in Seq(Char) /\ Len(<<>>) = 0
      BY DEF Text
    <3>2. e \in Stream /\ e.mode = "w" /\ e.buf = <<>>
      BY <2>1, <2>3, <3>1 DEF StreamOK, Stream
    <3> HIDE DEF e
    <3>3. StreamOK(e)
      BY <3>1, <3>2 DEF StreamOK
    <3> QED BY <3>3 DEF e
  <2>4. t = s => r.mode = "w"
    BY DEF Writing, r
  <2> QED BY <2>1, <2>2, <2>3, <2>4 DEF r
<1> HIDE DEF new
<1>5. Streams = 1 .. Len(fds) /\ Len(fds) \in Nat
  BY DEF TypeInv, Streams, FilesOK
<1>6. streams' \in Seq(Stream) /\ Len(streams') = Len(fds')
  BY <1>2, <1>3, <1>4, <1>5 DEF StreamOK
<1>7. ASSUME NEW t \in Streams' PROVE StreamOK(streams'[t])
  BY <1>3, <1>4, <1>7 DEF Streams
<1>8. (\A t \in Streams : StreamOK(streams[t]))'
  BY <1>7 DEF StreamOK
<1> QED BY <1>2, <1>6, <1>8 DEF TypeInv

LEMMA fputcOK ==
  ASSUME TypeInv, NEW s \in Streams, NEW c \in Char, fputc(s, c)
  PROVE  TypeInv'
<1> DEFINE r == streams[s]
           buf == Append(r.buf, c)
<1>1. StreamOK(r) /\ Writing(s) /\ r.mode = "w" /\ r.buf \in Seq(Char)
  BY DEF TypeInv, fputc, Writing, StreamOK
<1>2. buf \in Seq(Char) /\ buf \in Text
  BY <1>1 DEF Text
<1>3. CASE Flush(s, buf)
  BY <1>1, <1>2, <1>3, FlushOK
<1>4. CASE /\ ~Full(buf)
           /\ streams' = [streams EXCEPT ![s].buf = buf]
           /\ UNCHANGED <<disk, fds>>
  <2>1. Len(buf) < BUFSIZ
    BY <1>2, <1>4, StdioAssumption DEF Full
  <2> HIDE DEF buf
  <2>2. streams' = [streams EXCEPT ![s] = [r EXCEPT !.buf = buf]]
    BY <1>4
  <2> DEFINE e == [r EXCEPT !.buf = buf]
  <2> HIDE DEF r
  <2>3. e \in Stream /\ e.mode = "w" /\ e.buf = buf
    BY <1>1, <1>2 DEF StreamOK, Stream
  <2> HIDE DEF e
  <2>4. StreamOK(e)
    BY <1>2, <2>1, <2>3 DEF StreamOK
  <2>5. FilesOK' /\ Len(fds') = Len(fds)
    BY <1>4 DEF TypeInv, FilesOK, Fds, Fits
  <2> QED BY <2>2, <2>4, <2>5, StreamChanges DEF e
<1> QED BY <1>3, <1>4 DEF fputc

LEMMA fflushOK ==
  ASSUME TypeInv, NEW s \in Streams, fflush(s)
  PROVE  TypeInv'
<1>1. Writing(s) /\ Flush(s, streams[s].buf)
  BY DEF fflush
<1>2. streams[s].buf \in Seq(Char)
  BY <1>1 DEF TypeInv, StreamOK, Writing
<1> QED BY <1>1, <1>2, FlushOK

LEMMA GotType ==
  ASSUME NEW s \in Streams, StreamOK(streams[s]), NEW c \in Char \union {EOF}
  PROVE  Got(s, c) \in Text
BY DEF Got, StreamOK, Stream, Text

LEMMA fgetcOK ==
  ASSUME TypeInv, NEW s \in Streams, fgetc(s)
  PROVE  TypeInv'
<1> USE StdioAssumption
<1> DEFINE r == streams[s]
           chars == ReadChars(fds[s], BUFSIZ)
           buf == Filled(chars, BUFSIZ)
<1>1. StreamOK(r) /\ r.mode = "r" /\ s \in Fds /\ FilesOK
  BY DEF TypeInv, fgetc, Reading, Streams, Fds
<1>2. CASE /\ r.bufwp > r.bufrp
           /\ streams' = [streams EXCEPT ![s] =
                             [r EXCEPT !.bufrp = @ + 1, !.got = Got(s, r.buf[r.bufrp + 1])]]
           /\ UNCHANGED <<disk, fds>>
  <2> DEFINE got == Got(s, r.buf[r.bufrp + 1])
             e == [r EXCEPT !.bufrp = r.bufrp + 1]
             h == [e EXCEPT !.got = got]
  <2>1. r.buf[r.bufrp + 1] \in Char \union {EOF}
    BY <1>1, <1>2 DEF StreamOK, Stream, Text
  <2>2. got \in Text
    BY <1>1, <2>1, GotType
  <2>3. streams' = [streams EXCEPT ![s] = h]
    BY <1>2
  <2> HIDE DEF got, r
  <2>4. e \in Stream /\ e.mode = "r" /\ e.buf = r.buf /\ e.bufwp = r.bufwp
    BY <1>1 DEF StreamOK, Stream
  <2> HIDE DEF e
  <2>5. h \in Stream /\ h.mode = "r" /\ h.buf = r.buf /\ h.bufwp = r.bufwp
    BY <2>2, <2>4 DEF Stream
  <2> HIDE DEF h
  <2>6. StreamOK(h)
    BY <1>1, <2>5 DEF StreamOK
  <2>7. FilesOK' /\ Len(fds') = Len(fds)
    BY <1>1, <1>2 DEF FilesOK, Fds, Fits
  <2> QED BY <2>3, <2>6, <2>7, StreamChanges
<1>3. CASE /\ r.bufwp = r.bufrp
           /\ Read(s, BUFSIZ)
           /\ streams' = [streams EXCEPT ![s] =
                            [mode |-> "r", buf |-> buf, bufrp |-> 1, bufwp |-> Len(chars),
                             got |-> Got(s, buf[1]), fresh |-> r.fresh, said |-> r.said]]
  <2> DEFINE h == [mode |-> "r", buf |-> buf, bufrp |-> 1, bufwp |-> Len(chars),
                   got |-> Got(s, buf[1]), fresh |-> r.fresh, said |-> r.said]
  <2>1. /\ FilesOK' /\ Len(fds') = Len(fds)
        /\ Clipped(fds[s], BUFSIZ) >= 0
    BY <1>1, <1>3, ReadOK
  <2>2. fds[s] \in Opened /\ Fits(fds[s].inode.size) /\ disk \in Disks
    BY <1>1 DEF FilesOK, Fds
  <2>3. chars \in Seq(Char) /\ Len(chars) \in Nat
    BY <2>1, <2>2, CharsRead
  <2> HIDE DEF chars
  <2>4. buf \in Text /\ Len(buf) >= Len(chars) /\ Len(buf) >= 1
    BY <2>3 DEF Filled, Text
  <2> HIDE DEF buf
  <2>5. buf[1] \in Char \union {EOF}
    BY <2>4 DEF Text
  <2>6. Got(s, buf[1]) \in Text
    BY <1>1, <2>5, GotType
  <2>7. r.fresh \in BOOLEAN /\ r.said \in BOOLEAN
    BY <1>1 DEF StreamOK, Stream
  <2>8. StreamOK(h)
    BY <2>3, <2>4, <2>6, <2>7 DEF StreamOK, Stream
  <2>9. streams' = [streams EXCEPT ![s] = h]
    BY <1>3
  <2> HIDE DEF h
  <2> QED BY <2>1, <2>8, <2>9, StreamChanges
<1>4. CASE /\ streams' = [streams EXCEPT ![s].said = TRUE]
           /\ UNCHANGED <<disk, fds>>
  <2> DEFINE h == [r EXCEPT !.said = TRUE]
  <2>1. streams' = [streams EXCEPT ![s] = h]
    BY <1>4
  <2> HIDE DEF r
  <2>2. StreamOK(h)
    BY <1>1 DEF StreamOK, Stream
  <2> HIDE DEF h
  <2>3. FilesOK' /\ Len(fds') = Len(fds)
    BY <1>1, <1>4 DEF FilesOK, Fds, Fits
  <2> QED BY <2>1, <2>2, <2>3, StreamChanges
<1> QED
  <2>1. UNCHANGED disk
    BY DEF fgetc
  <2> QED BY <1>2, <1>3, <1>4, <2>1 DEF fgetc

LEMMA TypeInvariance ==
  Spec => []TypeInv
<1>1. Init => TypeInv
  <2> SUFFICES ASSUME Init PROVE TypeInv
    OBVIOUS
  <2>1. fds = <<>> /\ streams = <<>> /\ disk \in InitialDisks
    BY DEF Init
  <2>2. disk \in Disks /\ \A f \in Inums : Fits(disk.inodes[f].size)
    BY <2>1, DisksAssumption
  <2>3. fds \in Seq(Opened) /\ Fds = {} /\ streams \in Seq(Stream) /\ Streams = {}
    BY <2>1 DEF Fds, Streams
  <2>4. Len(streams) = Len(fds)
    BY <2>1
  <2> QED BY <2>2, <2>3, <2>4 DEF TypeInv, FilesOK
<1>2. TypeInv /\ [Next]_vars => TypeInv'
  <2> SUFFICES ASSUME TypeInv, [Next]_vars PROVE TypeInv'
    OBVIOUS
  <2>1. ASSUME NEW f \in Inums, NEW mode \in {"r", "w"}, fopen(f, mode) PROVE TypeInv'
    BY <2>1, fopenOK
  <2>2. ASSUME NEW s \in Streams, NEW c \in Char, fputc(s, c) PROVE TypeInv'
    BY <2>2, fputcOK
  <2>3. ASSUME NEW s \in Streams, fflush(s) PROVE TypeInv'
    BY <2>3, fflushOK
  <2>4. ASSUME NEW s \in Streams, fgetc(s) PROVE TypeInv'
    BY <2>4, fgetcOK
  <2>5. CASE UNCHANGED vars
    BY <2>5 DEF vars, TypeInv, FilesOK, Streams, StreamOK, Fds, Fits
  <2> QED BY <2>1, <2>2, <2>3, <2>4, <2>5 DEF Next
<1> QED BY <1>1, <1>2, PTL DEF Spec

\* Sizes, blocks, bitmap and buffers keep their types: no file outgrows its pointers, no
\* descriptor lies behind the end of the file it knows, so that iread never copies a negative
\* length, and no buffer is full between two calls of fputc.
THEOREM FilesTypeCorrect ==
  Spec => []FilesTypeOK
<1>1. TypeInv => FilesTypeOK
  <2> SUFFICES ASSUME TypeInv PROVE FilesTypeOK
    OBVIOUS
  <2>1. ASSUME NEW x \in Fds PROVE fds[x].offset \in 0 .. fds[x].inode.size
    <3>1. fds[x] \in Opened /\ fds[x].offset <= fds[x].inode.size
      BY DEF TypeInv, FilesOK, Fds
    <3> QED BY <3>1 DEF Opened, Inode
  <2> QED BY <2>1 DEF TypeInv, FilesOK, FilesTypeOK, Streams, Fds, Writing, StreamOK
<1> QED BY <1>1, TypeInvariance, PTL

-----------------------------------------------------------------------------
(* Blocks                                                                   *)

\* Behind every block of a file lies one that is in use: the bit with its number is marked.
Guarded ==
  \A d \in InitialDisks : \A f \in Inums : Pointers(d.inodes[f]) \subseteq d.bitmap

\* A step after which files have no inode they did not have before keeps blocks apart.
LEMMA NoNewInodes ==
  ASSUME BlocksApart, disk'.bitmap = disk.bitmap,
         \A f \in Inums : InodesOf(f)' \subseteq InodesOf(f)
  PROVE  BlocksApart'
BY DEF BlocksApart

LEMMA OpenApart ==
  ASSUME FilesOK, BlocksApart, NEW f \in Inums, Open(f)
  PROVE  BlocksApart'
<1>1. PICK data \in Opened :
        fds' = Append(fds, data) /\ data.inode = disk.inodes[f] /\ data.inum = f
  BY OpenOK
<1>2. disk' = disk
  BY DEF Open
<1>3. fds \in Seq(Opened)
  BY DEF FilesOK
<1>4. ASSUME NEW g \in Inums, NEW y \in Fds', fds'[y].inum = g
      PROVE  fds'[y].inode \in InodesOf(g)
  <2>1. CASE y = Len(fds) + 1
    BY <1>1, <1>3, <1>4, <2>1 DEF InodesOf
  <2>2. CASE y # Len(fds) + 1
    <3>1. y \in Fds /\ fds'[y] = fds[y]
      BY <1>1, <1>3, <2>2 DEF Fds
    <3> QED BY <1>4, <3>1 DEF InodesOf
  <2> QED BY <2>1, <2>2
<1>5. ASSUME NEW g \in Inums PROVE InodesOf(g)' \subseteq InodesOf(g)
  BY <1>2, <1>4 DEF InodesOf
<1> QED BY <1>2, <1>5, NoNewInodes

LEMMA ReadApart ==
  ASSUME FilesOK, BlocksApart, NEW x \in Fds, NEW count \in Nat, Read(x, count)
  PROVE  BlocksApart'
<1>1. /\ disk' = disk /\ Fds' = Fds
      /\ \A y \in Fds : fds'[y].inode = fds[y].inode /\ fds'[y].inum = fds[y].inum
  BY ReadOK DEF Fds
<1>2. ASSUME NEW g \in Inums PROVE InodesOf(g)' \subseteq InodesOf(g)
  BY <1>1 DEF InodesOf
<1> QED BY <1>1, <1>2, NoNewInodes

\* The pointer a file gets is to a block none of the files had: its bit was not marked.
LEMMA WriteApart ==
  ASSUME FilesOK, BlocksApart, NEW x \in Fds, NEW buf \in Seq(Char), Write(x, buf)
  PROVE  BlocksApart'
<1> DEFINE f == fds[x].inum
           old == fds[x].inode
           len == fds[x].offset + Len(buf)
<1>1. PICK w : /\ Grew(disk, f, old, len, w)
               /\ disk' = w.disk
               /\ fds' = [fds EXCEPT ![x] = [inum |-> f, inode |-> w.inode, offset |-> len]]
  BY WriteOK
<1>2. fds \in Seq(Opened) /\ x \in 1 .. Len(fds) /\ disk \in Disks
  BY DEF FilesOK, Fds
<1>3. fds[x] \in Opened
  BY <1>2
<1>4. f \in Inums /\ old \in Inode /\ old \in InodesOf(f)
  BY <1>3 DEF Opened, InodesOf
<1>5. Once(old) /\ Pointers(old) \subseteq disk.bitmap
  BY <1>4 DEF BlocksApart
<1> DEFINE new == w.inode
<1>6. /\ disk.bitmap \subseteq disk'.bitmap
      /\ disk'.inodes = [disk.inodes EXCEPT ![f] = new]
      /\ \/ new.bp = old.bp
         \/ \E v \in disk'.bitmap \ disk.bitmap, k \in Nat : new.bp = [old.bp EXCEPT ![k] = v]
  <2> HIDE DEF old
  <2>1. old.size \div BLOCK_SIZE \in Nat
    <3>1. old.size \in Nat
      BY <1>4 DEF Inode
    <3> QED BY <3>1, ExtAssumption
  <2> QED BY <1>1, <2>1 DEF Grew
<1> HIDE DEF new, old, len, f
<1>7. /\ Once(new) /\ Pointers(new) \subseteq disk'.bitmap
      /\ \A p \in Pointers(new) : p \in Pointers(old) \/ p \notin disk.bitmap
  <2>1. CASE new.bp = old.bp
    BY <1>5, <1>6, <2>1 DEF Once, Pointers
  <2>2. ASSUME NEW v \in disk'.bitmap \ disk.bitmap, NEW k \in Nat,
               new.bp = [old.bp EXCEPT ![k] = v]
        PROVE  /\ Once(new) /\ Pointers(new) \subseteq disk'.bitmap
               /\ \A p \in Pointers(new) : p \in Pointers(old) \/ p \notin disk.bitmap
    <3>1. /\ DOMAIN new.bp = DOMAIN old.bp
          /\ \A l \in DOMAIN old.bp : new.bp[l] = IF l = k THEN v ELSE old.bp[l]
      BY <1>4, <2>2 DEF Inode
    <3>2. \A l \in DOMAIN old.bp : old.bp[l] # 0 => old.bp[l] # v
      BY <1>5 DEF Pointers
    <3>3. Once(new)
      BY <1>5, <3>1, <3>2 DEF Once
    <3>4. Pointers(new) \subseteq Pointers(old) \union {v}
      BY <3>1 DEF Pointers
    <3> QED BY <1>5, <1>6, <3>3, <3>4
  <2> QED BY <1>6, <2>1, <2>2
<1>8. ASSUME NEW g \in Inums, NEW i \in InodesOf(g)'
      PROVE  i \in InodesOf(g) \/ (g = f /\ i = new)
  <2>1. Fds' = Fds /\ \A y \in Fds : y # x => fds'[y] = fds[y]
    BY <1>1, <1>2 DEF Fds
  <2>2. fds'[x].inum = f /\ fds'[x].inode = new
    BY <1>1, <1>2 DEF new
  <2>3. disk'.inodes[g] = IF g = f THEN new ELSE disk.inodes[g]
    BY <1>2, <1>4, <1>6 DEF Disks
  <2>4. \/ i = disk'.inodes[g]
        \/ \E y \in Fds : fds'[y].inum = g /\ i = fds'[y].inode
    BY <1>8, <2>1 DEF InodesOf
  <2> QED BY <2>1, <2>2, <2>3, <2>4 DEF InodesOf
<1>9. ASSUME NEW g \in Inums, NEW i \in InodesOf(g)'
      PROVE  Once(i) /\ Pointers(i) \subseteq disk'.bitmap
  BY <1>6, <1>7, <1>8, <1>9 DEF BlocksApart
<1>10. ASSUME NEW g \in Inums, NEW h \in Inums \ {g}, NEW i \in InodesOf(g)', NEW j \in InodesOf(h)'
       PROVE  Pointers(i) \intersect Pointers(j) = {}
  <2>1. \A e \in Inums \ {f} : \A l \in InodesOf(e) :
          Pointers(l) \subseteq disk.bitmap /\ Pointers(old) \intersect Pointers(l) = {}
    BY <1>4 DEF BlocksApart
  <2>2. \A e \in Inums \ {f} : \A l \in InodesOf(e) : Pointers(new) \intersect Pointers(l) = {}
    BY <1>7, <2>1
  <2>3. CASE i \in InodesOf(g) /\ j \in InodesOf(h)
    BY <2>3 DEF BlocksApart
  <2>4. CASE g = f /\ i = new
    BY <1>8, <2>2, <2>4
  <2>5. CASE h = f /\ j = new
    BY <1>8, <2>2, <2>5
  <2> QED BY <1>8, <2>3, <2>4, <2>5
<1> QED BY <1>9, <1>10 DEF BlocksApart

\* On a disk where no file's block is followed by a free one, the driver never gives a block
\* away twice, and what it gives away nobody had (get_first_free_block, allocate_block).
THEOREM BlocksStayApart ==
  ASSUME Guarded
  PROVE  Spec => []BlocksApart
<1>1. Init => BlocksApart
  <2> SUFFICES ASSUME Init PROVE BlocksApart
    OBVIOUS
  <2>1. disk \in InitialDisks /\ Fds = {}
    BY DEF Init, Fds
  <2>2. \A f \in Inums : InodesOf(f) = {disk.inodes[f]}
    BY <2>1 DEF InodesOf
  <2>3. \A f \in Inums : Once(disk.inodes[f]) /\ Pointers(disk.inodes[f]) \subseteq disk.bitmap
    BY <2>1, DisksAssumption DEF Guarded
  <2>4. \A f, g \in Inums : f # g => Pointers(disk.inodes[f]) \intersect Pointers(disk.inodes[g]) = {}
    BY <2>1, DisksAssumption
  <2> QED BY <2>2, <2>3, <2>4 DEF BlocksApart
<1>2. TypeInv /\ BlocksApart /\ [Next]_vars => BlocksApart'
  <2> SUFFICES ASSUME TypeInv, BlocksApart, [Next]_vars PROVE BlocksApart'
    OBVIOUS
  <2>1. FilesOK /\ Streams = Fds
    BY DEF TypeInv, Streams, Fds
  <2>2. CASE UNCHANGED <<disk, fds>>
    BY <2>2 DEF BlocksApart, InodesOf, Fds
  <2>3. ASSUME NEW f \in Inums, NEW mode \in {"r", "w"}, fopen(f, mode) PROVE BlocksApart'
    BY <2>1, <2>3, OpenApart DEF fopen
  <2>4. ASSUME NEW s \in Streams, NEW c \in Char, fputc(s, c) PROVE BlocksApart'
    <3>1. CASE Flush(s, Append(streams[s].buf, c))
      <4>1. Append(streams[s].buf, c) \in Seq(Char)
        BY <2>4 DEF fputc, Writing, TypeInv, StreamOK
      <4> QED BY <2>1, <3>1, <4>1, WriteApart DEF Flush
    <3>2. CASE UNCHANGED <<disk, fds>>
      BY <2>2, <3>2
    <3> QED BY <2>4, <3>1, <3>2 DEF fputc
  <2>5. ASSUME NEW s \in Streams, fflush(s) PROVE BlocksApart'
    <3>1. streams[s].buf \in Seq(Char)
      BY <2>5 DEF fflush, Writing, TypeInv, StreamOK
    <3> QED BY <2>1, <2>5, <3>1, WriteApart DEF fflush, Flush
  <2>6. ASSUME NEW s \in Streams, fgetc(s) PROVE BlocksApart'
    <3>1. CASE Read(s, BUFSIZ)
      BY <2>1, <3>1, ReadApart, StdioAssumption
    <3>2. CASE UNCHANGED <<disk, fds>>
      BY <2>2, <3>2
    <3> QED BY <2>6, <3>1, <3>2 DEF fgetc
  <2>7. CASE UNCHANGED vars
    BY <2>2, <2>7 DEF vars
  <2> QED BY <2>3, <2>4, <2>5, <2>6, <2>7 DEF Next
<1> QED BY <1>1, <1>2, TypeInvariance, PTL DEF Spec

-----------------------------------------------------------------------------
(* Contents                                                                 *)

\* The file has a block for each of its characters.
Solid(i) == \A k \in 0 .. NPointers - 1 : k * BLOCK_SIZE < i.size => i.bp[k] # 0

LEMMA DivMod ==
  ASSUME NEW p \in Nat
  PROVE  /\ p \div BLOCK_SIZE \in Nat /\ p % BLOCK_SIZE \in 0 .. BLOCK_SIZE - 1
         /\ p = BLOCK_SIZE * (p \div BLOCK_SIZE) + (p % BLOCK_SIZE)
         /\ (p \div BLOCK_SIZE) * BLOCK_SIZE <= p
BY ExtAssumption

LEMMA PlaceIn ==
  ASSUME NEW i \in Inode, NEW p \in Nat, p < NPointers * BLOCK_SIZE
  PROVE  /\ p \div BLOCK_SIZE \in 0 .. NPointers - 1
         /\ p % BLOCK_SIZE \in 0 .. BLOCK_SIZE - 1
         /\ i.bp[p \div BLOCK_SIZE] \in Blocks
         /\ DOMAIN i.bp = 0 .. NPointers - 1
<1>1. p \div BLOCK_SIZE \in 0 .. NPointers - 1
  BY InPointers
<1>2. p % BLOCK_SIZE \in 0 .. BLOCK_SIZE - 1
  BY DivMod
<1>3. i.bp \in [0 .. NPointers - 1 -> Blocks]
  BY DEF Inode
<1> QED BY <1>1, <1>2, <1>3

\* A character within the file lies in one of the file's blocks.
LEMMA PlaceSolid ==
  ASSUME NEW i \in Inode, Solid(i), Fits(i.size), NEW p \in Nat, p < i.size
  PROVE  i.bp[p \div BLOCK_SIZE] \in Pointers(i)
<1>1. i.size \in Nat /\ p < NPointers * BLOCK_SIZE
  <2>1. i.size \in Nat
    BY DEF Inode
  <2> QED BY <2>1, ExtAssumption DEF Fits
<1>2. p \div BLOCK_SIZE \in 0 .. NPointers - 1 /\ DOMAIN i.bp = 0 .. NPointers - 1
  BY <1>1, PlaceIn
<1>3. (p \div BLOCK_SIZE) * BLOCK_SIZE < i.size
  <2> DEFINE m == (p \div BLOCK_SIZE) * BLOCK_SIZE
  <2>1. m <= p /\ m \in Int
    BY DivMod, ExtAssumption
  <2> HIDE DEF m
  <2>2. m < i.size
    BY <1>1, <2>1
  <2> QED BY <2>2 DEF m
<1>4. i.bp[p \div BLOCK_SIZE] # 0
  BY <1>2, <1>3 DEF Solid
<1> QED BY <1>2, <1>4 DEF Pointers

\* Two characters of a file lie at two places.
LEMMA PlaceInjective ==
  ASSUME NEW i \in Inode, Solid(i), Once(i), Fits(i.size),
         NEW p \in Nat, NEW q \in Nat, p < i.size, q < i.size, Place(i, p) = Place(i, q)
  PROVE  p = q
<1>1. i.bp[p \div BLOCK_SIZE] = i.bp[q \div BLOCK_SIZE] /\ p % BLOCK_SIZE = q % BLOCK_SIZE
  BY DEF Place
<1>2. i.size \in Nat
  BY DEF Inode
<1>3. p < NPointers * BLOCK_SIZE /\ q < NPointers * BLOCK_SIZE
  BY <1>2, ExtAssumption DEF Fits
<1>4. /\ p \div BLOCK_SIZE \in DOMAIN i.bp /\ q \div BLOCK_SIZE \in DOMAIN i.bp
      /\ i.bp[p \div BLOCK_SIZE] # 0
  BY <1>3, PlaceIn, PlaceSolid DEF Pointers
<1>5. p \div BLOCK_SIZE = q \div BLOCK_SIZE
  BY <1>1, <1>4 DEF Once
<1> QED BY <1>1, <1>5, DivMod

LEMMA ContentIs ==
  ASSUME NEW d \in Disks, NEW i \in Inode, Fits(i.size)
  PROVE  /\ Content(i, d.blocks, 0, i.size) \in Seq(Char)
         /\ Len(Content(i, d.blocks, 0, i.size)) = i.size
         /\ \A k \in 1 .. i.size :
              Content(i, d.blocks, 0, i.size)[k] =
                d.blocks[i.bp[(k - 1) \div BLOCK_SIZE]][(k - 1) % BLOCK_SIZE]
<1> DEFINE c(k) == d.blocks[i.bp[(k - 1) \div BLOCK_SIZE]][(k - 1) % BLOCK_SIZE]
           n == i.size
<1>1. n \in Nat
  BY DEF Inode
<1>2. ASSUME NEW k \in 1 .. n PROVE c(k) \in Char
  <2>1. k - 1 \in Nat /\ k - 1 < NPointers * BLOCK_SIZE
    BY <1>1, ExtAssumption DEF Fits
  <2> DEFINE p == k - 1
  <2> HIDE DEF p
  <2>2. p \div BLOCK_SIZE \in 0 .. NPointers - 1 /\ p % BLOCK_SIZE \in 0 .. BLOCK_SIZE - 1
         /\ i.bp[p \div BLOCK_SIZE] \in Blocks
    BY <2>1, PlaceIn DEF p
  <2>3. d.blocks[i.bp[p \div BLOCK_SIZE]][p % BLOCK_SIZE] \in Char
    BY <2>2 DEF Disks
  <2> QED BY <2>3 DEF p
<1>3. ASSUME NEW k \in 1 .. n
      PROVE  d.blocks[Place(i, 0 + k - 1)[1]][Place(i, 0 + k - 1)[2]] = c(k)
  <2>1. 0 + k - 1 = k - 1
    BY <1>1
  <2> QED BY <2>1 DEF Place
<1>4. Content(i, d.blocks, 0, n) = [k \in 1 .. n |-> c(k)]
  BY <1>3 DEF Content
<1> HIDE DEF c, n
<1>5. [k \in 1 .. n |-> c(k)] \in Seq(Char) /\ Len([k \in 1 .. n |-> c(k)]) = n
  BY <1>1, <1>2
<1> QED BY <1>4, <1>5 DEF c, n

-----------------------------------------------------------------------------
(* What a write leaves                                                      *)

\* A file that shares no block with the one written contains what it did.
LEMMA OtherFileKept ==
  ASSUME NEW d \in Disks, NEW f \in Inums, NEW i \in Inode, NEW offset \in Nat,
         NEW buf \in Seq(Char), NEW w,
         Grew(d, f, i, offset + Len(buf), w), Stores(d, w, buf, offset),
         Fits(offset + Len(buf)),
         NEW j \in Inode, Solid(j), Fits(j.size), Pointers(w.inode) \intersect Pointers(j) = {}
  PROVE  Content(j, w.disk.blocks, 0, j.size) = Content(j, d.blocks, 0, j.size)
<1> DEFINE len == offset + Len(buf)
<1>1. w.inode \in Inode /\ w.disk \in Disks /\ len \in Nat /\ j.size \in Nat
  BY DEF Grew, Inode
<1>2. ASSUME NEW k \in 1 .. j.size
      PROVE  w.disk.blocks[j.bp[(k - 1) \div BLOCK_SIZE]][(k - 1) % BLOCK_SIZE]
               = d.blocks[j.bp[(k - 1) \div BLOCK_SIZE]][(k - 1) % BLOCK_SIZE]
  <2> DEFINE p == k - 1
             b == j.bp[p \div BLOCK_SIZE]
             o == p % BLOCK_SIZE
             at == {q \in offset .. offset + Len(buf) - 1 : Place(w.inode, q) = <<b, o>>}
  <2>1. p \in Nat /\ p < j.size
    BY <1>1
  <2> HIDE DEF p
  <2>2. b \in Pointers(j)
    BY <2>1, PlaceSolid
  <2>3. p < NPointers * BLOCK_SIZE
    BY <1>1, <2>1, ExtAssumption DEF Fits
  <2>4. b \in Blocks /\ o \in 0 .. BLOCK_SIZE - 1 /\ b # 0
    BY <2>1, <2>2, <2>3, PlaceIn DEF Pointers
  <2> HIDE DEF b, o
  <2>5. ASSUME NEW q \in offset .. offset + Len(buf) - 1, Place(w.inode, q) = <<b, o>>
        PROVE  FALSE
    <3>1. q \in Nat /\ q < NPointers * BLOCK_SIZE
      BY <1>1, ExtAssumption DEF Fits
    <3>2. q \div BLOCK_SIZE \in DOMAIN w.inode.bp
      BY <1>1, <3>1, PlaceIn
    <3>3. w.inode.bp[q \div BLOCK_SIZE] = b
      BY <2>5 DEF Place
    <3>4. b \in Pointers(w.inode)
      BY <2>4, <3>2, <3>3 DEF Pointers
    <3> QED BY <2>2, <3>4
  <2>6. at = {}
    BY <2>5
  <2>7. w.disk.blocks[b][o] = IF at = {} THEN d.blocks[b][o] ELSE buf[Max(at) - offset + 1]
    BY <2>4 DEF Stores
  <2> QED BY <2>6, <2>7 DEF b, o, p
<1> DEFINE new == Content(j, w.disk.blocks, 0, j.size)
           old == Content(j, d.blocks, 0, j.size)
<1>3. new \in Seq(Char) /\ old \in Seq(Char) /\ Len(new) = j.size /\ Len(old) = j.size
  BY <1>1, ContentIs
<1>4. \A k \in 1 .. j.size : new[k] = old[k]
  BY <1>1, <1>2, ContentIs
<1> HIDE DEF new, old
<1>5. new = old
  BY <1>3, <1>4, SeqEqual
<1> QED BY <1>5 DEF new, old

LEMMA Multiples ==
  ASSUME NEW k \in Int, NEW m \in Int, k * BLOCK_SIZE < m * BLOCK_SIZE
  PROVE  k <= m - 1 /\ k * BLOCK_SIZE <= m * BLOCK_SIZE - BLOCK_SIZE
<1> USE ExtAssumption
<1>1. ASSUME k >= m PROVE FALSE
  <2>1. (k - m) * BLOCK_SIZE >= 0
    BY <1>1
  <2> QED BY <2>1
<1>2. k <= m - 1
  BY <1>1
<1>3. (m - 1 - k) * BLOCK_SIZE >= 0
  BY <1>2
<1> QED BY <1>2, <1>3

\* The place behind the last block of a file of n characters.
LEMMA LastBlock ==
  ASSUME NEW n \in Nat
  PROVE  LET space == (BLOCK_SIZE - (n % BLOCK_SIZE)) % BLOCK_SIZE
             q == n \div BLOCK_SIZE
         IN  /\ space \in Nat
             /\ n % BLOCK_SIZE = 0 => n = q * BLOCK_SIZE /\ n + space = q * BLOCK_SIZE
             /\ n % BLOCK_SIZE # 0 => /\ q * BLOCK_SIZE < n /\ n + space = (q + 1) * BLOCK_SIZE
                                      /\ space # 0
<1> USE ExtAssumption
<1> DEFINE r == n % BLOCK_SIZE
           q == n \div BLOCK_SIZE
<1>1. n = BLOCK_SIZE * q + r /\ r \in 0 .. BLOCK_SIZE - 1 /\ q \in Nat
  BY DivMod
<1> HIDE DEF q
<1>2. CASE r = 0
  <2>1. (BLOCK_SIZE - r) % BLOCK_SIZE = 0
    BY <1>2
  <2> QED BY <1>1, <1>2, <2>1 DEF q
<1>3. CASE r # 0
  <2>1. BLOCK_SIZE - r \in 1 .. BLOCK_SIZE - 1
    BY <1>1, <1>3
  <2>2. (BLOCK_SIZE - r) % BLOCK_SIZE = BLOCK_SIZE - r
    <3> DEFINE x == BLOCK_SIZE - r
    <3> HIDE DEF x
    <3>1. x \in 1 .. BLOCK_SIZE - 1 
      BY <2>1 DEF x
    <3>2. x % BLOCK_SIZE = x
      BY <3>1
    <3> QED BY <3>2 DEF x
  <2> HIDE DEF r
  <2>3. BLOCK_SIZE * q + r + (BLOCK_SIZE - r) = (q + 1) * BLOCK_SIZE
    BY <1>1
  <2>4. q * BLOCK_SIZE < n
    BY <1>1, <1>3
  <2> QED BY <1>1, <1>3, <2>1, <2>2, <2>3, <2>4 DEF q, r
<1> QED BY <1>2, <1>3

\* A write of len characters in all that the driver can do to a file of i's size.
Within(i, offset, len) ==
  LET diff == len - i.size
      block_space == (BLOCK_SIZE - (i.size % BLOCK_SIZE)) % BLOCK_SIZE
  IN  offset <= i.size /\ ((diff <= block_space) \/ (block_space = 0 /\ diff <= BLOCK_SIZE))

\* The first n characters lie in the same blocks.
SameBlocks(i, j, n) ==
  \A p \in Nat : p < n => i.bp[p \div BLOCK_SIZE] = j.bp[p \div BLOCK_SIZE]

\* Such a write leaves no hole, and the blocks of what was in the file stay its blocks.
LEMMA GrownSolid ==
  ASSUME NEW d \in Disks, NEW f \in Inums, NEW i \in Inode, Solid(i), Fits(i.size),
         NEW offset \in Nat, NEW len \in Nat, Within(i, offset, len), 0 \in d.bitmap,
         NEW w, Grew(d, f, i, len, w)
  PROVE  Solid(w.inode) /\ SameBlocks(w.inode, i, offset)
<1> USE ExtAssumption
<1> DEFINE n == i.size
           diff == len - n
           space == (BLOCK_SIZE - (n % BLOCK_SIZE)) % BLOCK_SIZE
           q == n \div BLOCK_SIZE
<1>1. n \in Nat /\ q \in Nat /\ w.inode.size = len
  <2>1. n \in Nat
    BY DEF Inode
  <2>2. w.inode.size = len
    BY DEF Grew
  <2> HIDE DEF n
  <2> QED BY <2>1, <2>2
<1>2. /\ space \in Nat
      /\ n % BLOCK_SIZE = 0 => n = q * BLOCK_SIZE /\ n + space = q * BLOCK_SIZE
      /\ n % BLOCK_SIZE # 0 => /\ q * BLOCK_SIZE < n /\ n + space = (q + 1) * BLOCK_SIZE
                               /\ space # 0
  BY <1>1, LastBlock
<1>3. offset <= n /\ ((diff <= space) \/ (space = 0 /\ diff <= BLOCK_SIZE))
  BY DEF Within
<1>4. BlocksToAdd(i, len) = IF diff <= space THEN 0
                            ELSE (diff - space + BLOCK_SIZE - 1) \div BLOCK_SIZE
  BY DEF BlocksToAdd
<1> DEFINE bp == w.inode.bp
<1>5. /\ \/ BlocksToAdd(i, len) = 0 /\ bp = i.bp
         \/ /\ BlocksToAdd(i, len) # 0
            /\ \E v \in w.disk.bitmap \ d.bitmap : bp = [i.bp EXCEPT ![q] = v]
  BY DEF Grew
<1>6. i.bp \in [0 .. NPointers - 1 -> Blocks]
  BY DEF Inode
<1> HIDE DEF n, space, q, bp
<1>7. CASE diff <= space
  <2>1. bp = i.bp
    BY <1>4, <1>5, <1>7
  <2>2. ASSUME NEW k \in 0 .. NPointers - 1, k * BLOCK_SIZE < len PROVE bp[k] # 0
    <3>1. k * BLOCK_SIZE \in Int /\ k * BLOCK_SIZE < n + space
      BY <1>1, <1>2, <1>7, <2>2
    <3>2. CASE n % BLOCK_SIZE = 0
      <4>1. k * BLOCK_SIZE < n
        BY <1>1, <1>2, <3>1, <3>2
      <4> QED BY <2>1, <4>1 DEF Solid, n
    <3>3. CASE n % BLOCK_SIZE # 0
      <4>1. k <= (q + 1) - 1
        BY <1>1, <1>2, <3>1, <3>3, Multiples
      <4>2. k * BLOCK_SIZE <= q * BLOCK_SIZE
        <5>1. k * BLOCK_SIZE <= (q + 1) * BLOCK_SIZE - BLOCK_SIZE
          BY <1>1, <1>2, <3>1, <3>3, Multiples
        <5> QED BY <1>1, <5>1
      <4>3. k * BLOCK_SIZE < n
        BY <1>1, <1>2, <3>1, <3>3, <4>2
      <4> QED BY <2>1, <4>3 DEF Solid, n
    <3> QED BY <3>2, <3>3
  <2>3. SameBlocks(w.inode, i, offset)
    BY <2>1 DEF SameBlocks, bp
  <2> QED BY <1>1, <2>1, <2>2, <2>3 DEF Solid, bp
<1>8. CASE ~ (diff <= space)
  <2>1. space = 0 /\ diff <= BLOCK_SIZE /\ diff > 0
    BY <1>1, <1>3, <1>8
  <2>2. n = q * BLOCK_SIZE
    BY <1>2, <2>1
  <2>3. BlocksToAdd(i, len) # 0
    <3>1. diff - space + BLOCK_SIZE - 1 >= BLOCK_SIZE /\ diff \in Int
      BY <1>1, <2>1
    <3>2. (diff - space + BLOCK_SIZE - 1) \div BLOCK_SIZE # 0
      <4> DEFINE x == diff - space + BLOCK_SIZE - 1
      <4>1. x \in Nat /\ x >= BLOCK_SIZE
        BY <3>1, <2>1
      <4> HIDE DEF x
      <4>2. x = BLOCK_SIZE * (x \div BLOCK_SIZE) + (x % BLOCK_SIZE) /\ x % BLOCK_SIZE < BLOCK_SIZE
        BY <4>1, DivMod
      <4>3. x \div BLOCK_SIZE # 0
        BY <4>1, <4>2
      <4> QED BY <4>3 DEF x
    <3> QED BY <1>4, <1>8, <3>2
  <2>4. PICK v \in w.disk.bitmap \ d.bitmap : bp = [i.bp EXCEPT ![q] = v]
    BY <1>5, <2>3
  <2>5. \A k \in 0 .. NPointers - 1 : bp[k] = IF k = q THEN v ELSE i.bp[k]
    BY <1>6, <2>4
  <2>6. v # 0
    OBVIOUS
  <2>7. ASSUME NEW k \in 0 .. NPointers - 1, k * BLOCK_SIZE < len PROVE bp[k] # 0
    <3>1. CASE k = q
      BY <2>5, <2>6, <3>1
    <3>2. CASE k # q
      <4>1. k * BLOCK_SIZE < (q + 1) * BLOCK_SIZE
        BY <1>1, <2>1, <2>2, <2>7
      <4>2. k <= (q + 1) - 1
        BY <1>1, <4>1, Multiples
      <4>3. k < q
        BY <1>1, <3>2, <4>2
      <4>4. (q - k) * BLOCK_SIZE > 0
        BY <1>1, <4>3
      <4>5. k * BLOCK_SIZE < n
        BY <1>1, <2>2, <4>4
      <4> QED BY <2>5, <3>2, <4>5 DEF Solid, n
    <3> QED BY <3>1, <3>2
  <2>8. ASSUME NEW p \in Nat, p < offset PROVE bp[p \div BLOCK_SIZE] = i.bp[p \div BLOCK_SIZE]
    <3> DEFINE m == p \div BLOCK_SIZE
    <3>1. m \in Nat /\ m * BLOCK_SIZE <= p
      BY DivMod
    <3>2. p < n
      BY <1>1, <1>3, <2>8
    <3> HIDE DEF m
    <3>3. m * BLOCK_SIZE < q * BLOCK_SIZE
      BY <1>1, <2>2, <3>1, <3>2
    <3>4. m <= q - 1
      BY <1>1, <3>1, <3>3, Multiples
    <3>5. m \in 0 .. NPointers - 1
      <4>1. p < NPointers * BLOCK_SIZE
        BY <1>1, <3>2 DEF Fits, n
      <4> QED BY <4>1, InPointers DEF m
    <3>6. bp[m] = i.bp[m]
      BY <1>1, <2>5, <3>1, <3>4, <3>5
    <3> QED BY <3>6 DEF m
  <2>9. SameBlocks(w.inode, i, offset)
    BY <2>8 DEF SameBlocks, bp
  <2> QED BY <1>1, <2>7, <2>9 DEF Solid, bp
<1> QED BY <1>7, <1>8

\* And the file then contains what was in front of the offset, and what was written.
LEMMA WrittenFile ==
  ASSUME NEW d \in Disks, NEW f \in Inums, NEW i \in Inode, Solid(i), Fits(i.size),
         NEW offset \in Nat, NEW buf \in Seq(Char), Within(i, offset, offset + Len(buf)),
         0 \in d.bitmap, Fits(offset + Len(buf)),
         NEW w, Grew(d, f, i, offset + Len(buf), w), Stores(d, w, buf, offset), Once(w.inode)
  PROVE  /\ Solid(w.inode)
         /\ Content(w.inode, w.disk.blocks, 0, w.inode.size) =
              SubSeq(Content(i, d.blocks, 0, i.size), 1, offset) \o buf
<1> USE ExtAssumption
<1> DEFINE len == offset + Len(buf)
           old == Content(i, d.blocks, 0, i.size)
           new == Content(w.inode, w.disk.blocks, 0, w.inode.size)
           made == SubSeq(old, 1, offset) \o buf
<1>1. /\ len \in Nat /\ w.inode \in Inode /\ w.disk \in Disks /\ w.inode.size = len
      /\ i.size \in Nat /\ offset <= i.size
  BY DEF Grew, Inode, Within
<1>2. Solid(w.inode) /\ SameBlocks(w.inode, i, offset)
  <2>1. Within(i, offset, len) /\ Grew(d, f, i, len, w)
    OBVIOUS
  <2>2. len \in Nat
    BY <1>1
  <2> HIDE DEF len
  <2> QED BY <2>1, <2>2, GrownSolid
<1>3. /\ old \in Seq(Char) /\ Len(old) = i.size
      /\ \A k \in 1 .. i.size :
           old[k] = d.blocks[i.bp[(k - 1) \div BLOCK_SIZE]][(k - 1) % BLOCK_SIZE]
  BY ContentIs
<1>4. /\ new \in Seq(Char) /\ Len(new) = len
      /\ \A k \in 1 .. len :
           new[k] = w.disk.blocks[w.inode.bp[(k - 1) \div BLOCK_SIZE]][(k - 1) % BLOCK_SIZE]
  <2>1. Fits(w.inode.size)
    BY <1>1
  <2>2. /\ new \in Seq(Char) /\ Len(new) = w.inode.size
        /\ \A k \in 1 .. w.inode.size :
             new[k] = w.disk.blocks[w.inode.bp[(k - 1) \div BLOCK_SIZE]][(k - 1) % BLOCK_SIZE]
    BY <1>1, <2>1, ContentIs
  <2> HIDE DEF new
  <2> QED BY <1>1, <2>2
<1> HIDE DEF new, old
<1>5. ASSUME NEW k \in 1 .. len
      PROVE  new[k] = IF k <= offset THEN old[k] ELSE buf[k - offset]
  <2> DEFINE p == k - 1
             b == w.inode.bp[p \div BLOCK_SIZE]
             o == p % BLOCK_SIZE
             at == {q \in offset .. offset + Len(buf) - 1 : Place(w.inode, q) = <<b, o>>}
  <2>1. p \in Nat /\ p < len /\ p < NPointers * BLOCK_SIZE
    BY <1>1 DEF Fits
  <2>2. /\ b \in Blocks /\ o \in 0 .. BLOCK_SIZE - 1
    BY <1>1, <2>1, PlaceIn
  <2>3. Place(w.inode, p) = <<b, o>>
    BY DEF Place
  <2>4. ASSUME NEW q \in offset .. offset + Len(buf) - 1, Place(w.inode, q) = <<b, o>> PROVE q = p
    <3>1. q \in Nat /\ q < w.inode.size /\ p < w.inode.size /\ Fits(w.inode.size)
      BY <1>1, <2>1
    <3>2. Place(w.inode, q) = Place(w.inode, p)
      BY <2>3, <2>4
    <3> HIDE DEF p
    <3> QED BY <1>1, <1>2, <2>1, <3>1, <3>2, PlaceInjective
  <2>5. w.disk.blocks[b][o] = IF at = {} THEN d.blocks[b][o] ELSE buf[Max(at) - offset + 1]
    BY <2>2 DEF Stores
  <2>6. new[k] = w.disk.blocks[b][o]
    BY <1>4
  <2>7. CASE k <= offset
    <3>1. at = {}
      BY <1>1, <2>4, <2>7
    <3>2. b = i.bp[p \div BLOCK_SIZE]
      BY <1>1, <1>2, <2>1, <2>7 DEF SameBlocks
    <3>3. old[k] = d.blocks[b][o]
      BY <1>1, <1>3, <2>7, <3>2
    <3> HIDE DEF at
    <3> QED BY <2>5, <2>6, <2>7, <3>1, <3>3
  <2>8. CASE k > offset
    <3>1. p \in offset .. offset + Len(buf) - 1
      BY <1>1, <2>1, <2>8
    <3>2. at = {p}
      BY <2>3, <2>4, <3>1
    <3>3. Max(at) = p
      BY <2>1, <3>2 DEF Max
    <3>4. Max(at) - offset + 1 = k - offset
      BY <1>1, <3>3
    <3> HIDE DEF at
    <3> QED BY <1>1, <2>5, <2>6, <2>8, <3>2, <3>4
  <2> QED BY <1>1, <2>7, <2>8
<1>6. SubSeq(old, 1, offset) \in Seq(Char) /\ Len(SubSeq(old, 1, offset)) = offset
      /\ \A k \in 1 .. offset : SubSeq(old, 1, offset)[k] = old[k]
  BY <1>1, <1>3
<1>7. made \in Seq(Char) /\ Len(made) = len
      /\ \A k \in 1 .. len : made[k] = IF k <= offset THEN old[k] ELSE buf[k - offset]
  BY <1>1, <1>6, ConcatProperties
<1>8. new = made
  BY <1>4, <1>5, <1>7, SeqEqual
<1> QED BY <1>2, <1>8 DEF new, old

-----------------------------------------------------------------------------
(* Files read back                                                          *)

\* The block of the superblock is in use, and each file has a block for each of its characters.
Formatted ==
  \A d \in InitialDisks : 0 \in d.bitmap /\ \A f \in Inums : Solid(d.inodes[f])

Kept ==
  /\ 0 \in disk.bitmap
  /\ ought \in [Inums -> Seq(Char)] /\ tame \in [Inums -> BOOLEAN]
  /\ \A f \in Inums : tame[f] => Solid(disk.inodes[f]) /\ OnDisk(f) = ought[f]

\* A write is to one file, and what it does to it is what its reader should find.
LEMMA FlushKeeps ==
  ASSUME TypeInv, BlocksApart, BlocksApart', Kept,
         NEW s \in Streams, NEW buf \in Seq(Char), Flush(s, buf)
  PROVE  /\ Kept'
         /\ fds[s].inum \in Inums
         /\ \A g \in Inums \ {fds[s].inum} :
              disk'.inodes[g] = disk.inodes[g] /\ ought'[g] = ought[g] /\ tame'[g] = tame[g]
<1> DEFINE data == fds[s]
           i == data.inode
           offset == data.offset
           len == offset + Len(buf)
<1>1. FilesOK /\ FilesOK' /\ s \in Fds
  <2>1. FilesOK /\ s \in Fds
    BY DEF TypeInv, Streams, Fds
  <2> QED BY <2>1, WriteOK DEF Flush
<1>2. PICK f \in Inums : f = data.inum
  <2>1. data \in Opened
    BY <1>1 DEF FilesOK, Fds
  <2> QED BY <2>1 DEF Opened
<1>3. /\ data \in Opened /\ i \in Inode /\ offset \in Nat /\ len \in Nat
      /\ Fits(i.size) /\ disk \in Disks /\ disk' \in Disks
  <2>1. data \in Opened /\ Fits(data.inode.size) /\ disk \in Disks /\ disk' \in Disks
    BY <1>1 DEF FilesOK, Fds
  <2> QED BY <2>1 DEF Opened
<1>4. PICK w : /\ Grew(disk, f, i, len, w) /\ Stores(disk, w, buf, offset)
               /\ disk' = w.disk
               /\ fds' = [fds EXCEPT ![s] = [inum |-> f, inode |-> w.inode, offset |-> len]]
  BY <1>1, <1>2, WriteOK DEF Flush
<1>5. Fits(len)
  BY DEF Flush, Write
<1>6. /\ disk'.inodes[f] = w.inode
      /\ \A g \in Inums \ {f} : disk'.inodes[g] = disk.inodes[g]
      /\ w.inode \in Inode
  <2>1. disk'.inodes = [disk.inodes EXCEPT ![f] = w.inode] /\ w.inode \in Inode
    BY <1>4 DEF Grew
  <2>2. disk.inodes \in [Inums -> Inode]
    BY <1>3 DEF Disks
  <2> QED BY <1>3, <2>1, <2>2
<1>7. 0 \in disk'.bitmap
  BY <1>4 DEF Grew, Kept
<1>8. CanDo(s, Len(buf)) => i = disk.inodes[f] /\ Within(i, offset, len)
  <2> SUFFICES ASSUME CanDo(s, Len(buf)) PROVE i = disk.inodes[f] /\ Within(i, offset, len)
    OBVIOUS
  <2>1. i = disk.inodes[f]
    BY <1>2 DEF CanDo
  <2>2. offset <= i.size
    BY <1>2 DEF TypeInv, FilesOK, Streams, Fds
  <2>3. \/ len - i.size <= (BLOCK_SIZE - (i.size % BLOCK_SIZE)) % BLOCK_SIZE
        \/ /\ (BLOCK_SIZE - (i.size % BLOCK_SIZE)) % BLOCK_SIZE = 0
           /\ len - i.size <= BLOCK_SIZE
    <3> DEFINE space == (BLOCK_SIZE - (i.size % BLOCK_SIZE)) % BLOCK_SIZE
    <3>1. \/ offset + Len(buf) - i.size <= space
          \/ space = 0 /\ offset + Len(buf) - i.size <= BLOCK_SIZE
      BY DEF CanDo
    <3>2. offset + Len(buf) - i.size = len - i.size
      <4>1. i.size \in Nat
        BY <1>3 DEF Inode
      <4> HIDE DEF offset, i, data
      <4> QED BY <1>3, <4>1
    <3> HIDE DEF len
    <3> QED BY <3>1, <3>2
  <2> HIDE DEF len, offset, i, data
  <2> QED BY <2>1, <2>2, <2>3 DEF Within
<1> HIDE DEF len
<1>9. /\ ought' = [ought EXCEPT ![f] = IF tame[f] /\ CanDo(s, Len(buf))
                                       THEN SubSeq(ought[f], 1, offset) \o buf ELSE ought[f]]
      /\ tame' = [tame EXCEPT ![f] = tame[f] /\ CanDo(s, Len(buf))]
  BY <1>2 DEF Flush
<1>10. f = fds[s].inum
  BY <1>2
<1> HIDE DEF data, i, offset
<1>11. /\ ought'[f] = IF tame[f] /\ CanDo(s, Len(buf))
                     THEN SubSeq(ought[f], 1, offset) \o buf ELSE ought[f]
      /\ tame'[f] = (tame[f] /\ CanDo(s, Len(buf)))
      /\ \A g \in Inums \ {f} : ought'[g] = ought[g] /\ tame'[g] = tame[g]
      /\ DOMAIN ought' = Inums /\ DOMAIN tame' = Inums
  BY <1>3, <1>9 DEF Kept
<1>12. ASSUME tame[f], CanDo(s, Len(buf))
       PROVE  /\ Solid(disk'.inodes[f]) /\ OnDisk(f)' = SubSeq(ought[f], 1, offset) \o buf
              /\ SubSeq(ought[f], 1, offset) \o buf \in Seq(Char)
  <2>1. i = disk.inodes[f] /\ Within(i, offset, len) /\ Solid(i) /\ OnDisk(f) = ought[f]
    BY <1>3, <1>8, <1>12 DEF Kept
  <2>2. Once(w.inode)
    BY <1>3, <1>6 DEF BlocksApart, InodesOf
  <2>3. /\ Solid(w.inode)
        /\ Content(w.inode, w.disk.blocks, 0, w.inode.size) =
              SubSeq(Content(i, disk.blocks, 0, i.size), 1, offset) \o buf
    <3>1. 0 \in disk.bitmap
      BY DEF Kept
    <3>2. /\ Within(i, offset, offset + Len(buf)) /\ Fits(offset + Len(buf))
          /\ Grew(disk, f, i, offset + Len(buf), w)
      BY <1>4, <1>5, <2>1 DEF len
    <3> QED BY <1>3, <1>4, <2>1, <2>2, <3>1, <3>2, WrittenFile
  <2>4. OnDisk(f)' = Content(w.inode, w.disk.blocks, 0, w.inode.size)
    BY <1>4, <1>6 DEF OnDisk
  <2>5. OnDisk(f) = Content(i, disk.blocks, 0, i.size)
    BY <2>1 DEF OnDisk
  <2>6. w.disk \in Disks /\ Fits(w.inode.size)
    BY <1>3, <1>4, <1>5 DEF Grew
  <2>7. Content(w.inode, w.disk.blocks, 0, w.inode.size) \in Seq(Char)
    BY <1>6, <2>6, ContentIs
  <2> QED BY <1>6, <2>1, <2>3, <2>4, <2>5, <2>7
<1>13. ASSUME NEW g \in Inums \ {f}, tame[g]
       PROVE  Solid(disk'.inodes[g]) /\ OnDisk(g)' = ought[g]
  <2> DEFINE j == disk.inodes[g]
  <2>1. j \in Inode /\ Solid(j) /\ Fits(j.size) /\ OnDisk(g) = ought[g]
    BY <1>1, <1>3, <1>13 DEF FilesOK, Disks, Kept
  <2>2. Pointers(w.inode) \intersect Pointers(j) = {}
    <3>1. w.inode \in InodesOf(f)' /\ j \in InodesOf(g)'
      BY <1>6 DEF InodesOf
    <3> QED BY <1>3, <3>1 DEF BlocksApart
  <2>3. Content(j, w.disk.blocks, 0, j.size) = Content(j, disk.blocks, 0, j.size)
    <3> HIDE DEF j
    <3> QED BY <1>3, <1>4, <1>5, <2>1, <2>2, OtherFileKept DEF len
  <2> QED BY <1>4, <1>6, <2>1, <2>3 DEF OnDisk
<1>14. ought' \in [Inums -> Seq(Char)]
  BY <1>9, <1>11, <1>12, <1>3 DEF Kept
<1>15. tame' \in [Inums -> BOOLEAN]
  BY <1>9, <1>11, <1>3 DEF Kept
<1>16. ASSUME NEW g \in Inums, tame'[g] PROVE Solid(disk'.inodes[g]) /\ OnDisk(g)' = ought'[g]
  <2>1. CASE g = f
    BY <1>11, <1>12, <1>16, <2>1
  <2>2. CASE g # f
    BY <1>11, <1>13, <1>16, <2>2
  <2> QED BY <2>1, <2>2
<1>17. (\A g \in Inums : tame[g] => Solid(disk.inodes[g]) /\ OnDisk(g) = ought[g])'
  BY <1>16 DEF Solid
<1>18. Kept'
  BY <1>7, <1>14, <1>15, <1>17 DEF Kept
<1> QED BY <1>6, <1>11, <1>18, <1>10

LEMMA KeptStep ==
  ASSUME TypeInv, BlocksApart, BlocksApart', Kept, [Next]_vars
  PROVE  Kept'
<1>1. CASE UNCHANGED <<disk, ought, tame>>
  BY <1>1 DEF Kept, OnDisk, Solid
<1>2. ASSUME NEW f \in Inums, NEW mode \in {"r", "w"}, fopen(f, mode) PROVE Kept'
  BY <1>1, <1>2 DEF fopen, Open
<1>3. ASSUME NEW s \in Streams, NEW c \in Char, fputc(s, c) PROVE Kept'
  <2>1. CASE Flush(s, Append(streams[s].buf, c))
    <3>1. Append(streams[s].buf, c) \in Seq(Char)
      BY <1>3 DEF fputc, Writing, TypeInv, StreamOK
    <3> QED BY <2>1, <3>1, FlushKeeps
  <2> QED BY <1>1, <1>3, <2>1 DEF fputc
<1>4. ASSUME NEW s \in Streams, fflush(s) PROVE Kept'
  <2>1. streams[s].buf \in Seq(Char)
    BY <1>4 DEF fflush, Writing, TypeInv, StreamOK
  <2> QED BY <1>4, <2>1, FlushKeeps DEF fflush
<1>5. ASSUME NEW s \in Streams, fgetc(s) PROVE Kept'
  BY <1>1, <1>5 DEF fgetc
<1>6. CASE UNCHANGED vars
  BY <1>1, <1>6 DEF vars
<1> QED BY <1>2, <1>3, <1>4, <1>5, <1>6 DEF Next

LEMMA KeptInvariance ==
  ASSUME Guarded, Formatted
  PROVE  Spec => []Kept
<1>1. Init => Kept
  <2> SUFFICES ASSUME Init PROVE Kept
    OBVIOUS
  <2>1. disk \in InitialDisks
    BY DEF Init
  <2>2. \A f \in Inums : Fits(disk.inodes[f].size) /\ disk.inodes[f] \in Inode /\ disk \in Disks
    BY <2>1, DisksAssumption DEF Disks
  <2>3. \A f \in Inums : OnDisk(f) \in Seq(Char)
    BY <2>2, ContentIs DEF OnDisk
  <2>4. ought = [f \in Inums |-> OnDisk(f)] /\ tame = [f \in Inums |-> TRUE]
    BY DEF Init
  <2> QED BY <2>1, <2>3, <2>4 DEF Kept, Formatted
<1>2. TypeInv /\ BlocksApart /\ BlocksApart' /\ Kept /\ [Next]_vars => Kept'
  BY KeptStep
<1>3. Spec => []BlocksApart
  BY BlocksStayApart
<1> QED BY <1>1, <1>2, <1>3, TypeInvariance, PTL DEF Spec

\* On a disk as mke2fs makes it, a file that is written only in ways the driver can do contains
\* what was written, whatever is done to the other files (e2fs_write, iwrite).
THEOREM FilesReadBack ==
  ASSUME Guarded, Formatted
  PROVE  Spec => []ReadsBack
<1>1. Kept => ReadsBack
  BY DEF Kept, ReadsBack
<1> QED BY <1>1, KeptInvariance, PTL

-----------------------------------------------------------------------------
(* Readers                                                                  *)

\* What a reader of text has got, and what is in its buffer, when its offset is off: all in
\* front of the offset but what is still in the buffer, or all and EOF.
ReadSoFar(r, off, text) ==
  /\ off <= Len(text)
  /\ r.bufwp < r.bufrp => off = Len(text) /\ r.got = Append(text, EOF)
  /\ r.bufwp >= r.bufrp =>
       /\ r.bufwp <= off
       /\ r.got = SubSeq(text, 1, off - (r.bufwp - r.bufrp))
       /\ \A k \in 1 .. r.bufwp : r.buf[k] = text[off - r.bufwp + k]

ReaderOK(s) ==
  Reading(s) /\ streams[s].fresh /\ tame[fds[s].inum] =>
    /\ fds[s].inode = disk.inodes[fds[s].inum]
    /\ ReadSoFar(streams[s], fds[s].offset, ought[fds[s].inum])

ReadersOK == \A s \in Streams : ReaderOK(s)

\* A reader that has not found the end has got characters of the file and no EOF.
LEMMA NotEnded ==
  ASSUME NEW s \in Streams, streams[s] \in Stream, NEW off \in Nat, NEW text \in Seq(Char),
         ReadSoFar(streams[s], off, text), streams[s].bufwp >= streams[s].bufrp
  PROVE  /\ streams[s].got \in Seq(Char)
         /\ Len(streams[s].got) = off - (streams[s].bufwp - streams[s].bufrp)
         /\ ~Ended(s)
         /\ IsPrefix(streams[s].got, text)
<1> DEFINE r == streams[s]
           n == off - (r.bufwp - r.bufrp)
<1>1. /\ off <= Len(text) /\ r.bufwp <= off /\ r.got = SubSeq(text, 1, n)
      /\ r.bufwp \in Nat /\ r.bufrp \in Nat /\ r.bufwp >= r.bufrp
  BY DEF ReadSoFar, Stream
<1> HIDE DEF r
<1>2. n \in 0 .. Len(text)
  BY <1>1
<1> HIDE DEF n
<1>3. /\ SubSeq(text, 1, n) \in Seq(Char) /\ Len(SubSeq(text, 1, n)) = n
      /\ \A k \in 1 .. n : SubSeq(text, 1, n)[k] = text[k]
  BY <1>2
<1>4. r.got \in Seq(Char) /\ Len(r.got) = n
  BY <1>1, <1>3
<1>5. r.got # <<>> => r.got[Len(r.got)] \in Char
  BY <1>4
<1>6. ~Ended(s)
  BY <1>5, ExtAssumption DEF Ended, Last, r
<1>7. IsPrefix(r.got, text)
  <2>1. SubSeq(r.got, 1, n) = r.got
    BY <1>4, SubSeqFull
  <2> QED BY <1>1, <1>2, <1>4, <2>1 DEF IsPrefix
<1> QED BY <1>4, <1>6, <1>7 DEF r, n

\* One more character of what the buffer holds.
LEMMA BufferRead ==
  ASSUME NEW r \in Stream, NEW off \in Nat, NEW text \in Seq(Char), ReadSoFar(r, off, text),
         r.bufwp > r.bufrp, NEW h \in Stream, h.bufrp = r.bufrp + 1, h.bufwp = r.bufwp,
         h.buf = r.buf, h.got = Append(r.got, r.buf[r.bufrp + 1])
  PROVE  ReadSoFar(h, off, text)
<1> DEFINE n == off - (r.bufwp - r.bufrp)
<1>1. /\ r.bufwp \in Nat /\ r.bufrp \in Nat
  BY DEF Stream
<1>2. /\ off <= Len(text) /\ r.bufwp <= off /\ r.got = SubSeq(text, 1, n)
      /\ \A k \in 1 .. r.bufwp : r.buf[k] = text[off - r.bufwp + k]
  BY <1>1 DEF ReadSoFar
<1>3. n \in 0 .. Len(text) - 1 /\ off - r.bufwp + (r.bufrp + 1) = n + 1
  BY <1>1, <1>2
<1>4. r.buf[r.bufrp + 1] = text[n + 1]
  <2>1. r.bufrp + 1 \in 1 .. r.bufwp
    BY <1>1
  <2>2. r.buf[r.bufrp + 1] = text[off - r.bufwp + (r.bufrp + 1)]
    BY <1>2, <2>1
  <2> HIDE DEF n
  <2> QED BY <1>3, <2>2
<1>5. off - (h.bufwp - h.bufrp) = n + 1
  BY <1>1
<1> HIDE DEF n
<1>6. h.got = SubSeq(text, 1, n + 1)
  <2>1. SubSeq(text, 1, n + 1) = SubSeq(text, 1, n + 1 - 1) \o <<text[n + 1]>>
    BY <1>3, SubSeqRecursiveSecond
  <2>2. n + 1 - 1 = n
    BY <1>3
  <2>3. h.got = Append(SubSeq(text, 1, n), text[n + 1])
    BY <1>2, <1>4
  <2>4. SubSeq(text, 1, n) \in Seq(Char) /\ text[n + 1] \in Char
    BY <1>3
  <2>5. Append(SubSeq(text, 1, n), text[n + 1]) = SubSeq(text, 1, n) \o <<text[n + 1]>>
    BY <2>4, AppendIsConcat
  <2> QED BY <2>1, <2>2, <2>3, <2>5
<1>7. h.bufwp >= h.bufrp /\ h.bufwp <= off /\ off <= Len(text)
  BY <1>1, <1>2
<1>8. \A k \in 1 .. h.bufwp : h.buf[k] = text[off - h.bufwp + k]
  BY <1>2
<1>9. h.got = SubSeq(text, 1, off - (h.bufwp - h.bufrp))
  BY <1>5, <1>6
<1>10. ~ (h.bufwp < h.bufrp)
  BY <1>1
<1> QED BY <1>7, <1>8, <1>9, <1>10 DEF ReadSoFar

\* The first character of a buffer filled from the disk: the next n of the file, or EOF when
\* there is none.
LEMMA FilledRead ==
  ASSUME NEW r \in Stream, NEW off \in Nat, NEW text \in Seq(Char), ReadSoFar(r, off, text),
         r.bufwp = r.bufrp, NEW chars \in Seq(Char),
         Len(chars) = IF off + BUFSIZ > Len(text) THEN Len(text) - off ELSE BUFSIZ,
         \A k \in 1 .. Len(chars) : chars[k] = text[off + k],
         NEW h \in Stream, h.bufrp = 1, h.bufwp = Len(chars),
         h.buf = Filled(chars, BUFSIZ), h.got = Append(r.got, h.buf[1])
  PROVE  ReadSoFar(h, off + Len(chars), text)
<1> USE StdioAssumption
<1> DEFINE n == Len(chars)
<1>1. n \in Nat /\ chars \in [1 .. n -> Char] /\ Len(text) \in Nat
      /\ n = IF off + BUFSIZ > Len(text) THEN Len(text) - off ELSE BUFSIZ
  BY LenProperties
<1>2. h.bufwp = n /\ h.bufrp = 1 /\ Len(chars) = n /\ \A k \in 1 .. n : chars[k] = text[off + k]
  OBVIOUS
<1> HIDE DEF n
<1>3. off + n <= Len(text) /\ off <= Len(text) /\ r.got = SubSeq(text, 1, off)
  <2>1. r.bufwp \in Nat /\ r.bufrp \in Nat
    BY DEF Stream
  <2>2. off <= Len(text) /\ r.got = SubSeq(text, 1, off - (r.bufwp - r.bufrp))
    BY <2>1 DEF ReadSoFar
  <2>3. off - (r.bufwp - r.bufrp) = off
    BY <2>1
  <2> QED BY <1>1, <2>2, <2>3
<1>4. CASE n = 0
  <2>1. off = Len(text)
    BY <1>3, <1>4, <1>1
  <2>2. h.buf[1] = EOF
    <3>1. chars = <<>> /\ Len(chars) < BUFSIZ
      BY <1>4, <1>2, EmptySeq
    <3>2. h.buf = Append(<<>>, EOF)
      BY <3>1 DEF Filled
    <3> QED BY <3>2
  <2>3. h.got = Append(text, EOF)
    BY <1>3, <2>1, <2>2, SubSeqFull
  <2>4. off + n = off
    BY <1>4
  <2>5. ReadSoFar(h, off + n, text)
    BY <1>4, <1>2, <2>1, <2>3, <2>4 DEF ReadSoFar
  <2> QED BY <2>5 DEF n
<1>5. CASE n # 0
  <2>1. \A k \in 1 .. n : h.buf[k] = chars[k]
    <3>1. h.buf = chars \/ h.buf = Append(chars, EOF)
      BY DEF Filled
    <3>2. chars \in Seq(Char \union {EOF}) /\ EOF \in Char \union {EOF}
      OBVIOUS
    <3>3. \A k \in 1 .. Len(chars) : Append(chars, EOF)[k] = chars[k]
      BY <3>2, AppendProperties
    <3> QED BY <1>2, <3>1, <3>3
  <2>2. h.buf[1] = text[off + 1]
    BY <1>5, <1>1, <1>2, <2>1
  <2>3. h.got = SubSeq(text, 1, off + 1)
    <3>1. SubSeq(text, 1, off + 1) = SubSeq(text, 1, off + 1 - 1) \o <<text[off + 1]>>
      BY <1>3, <1>5, <1>1, SubSeqRecursiveSecond
    <3>2. off + 1 - 1 = off
      OBVIOUS
    <3>3. SubSeq(text, 1, off) \in Seq(Char) /\ text[off + 1] \in Char
      BY <1>3, <1>5, <1>1
    <3>4. Append(SubSeq(text, 1, off), text[off + 1]) = SubSeq(text, 1, off) \o <<text[off + 1]>>
      BY <3>3, AppendIsConcat
    <3> QED BY <1>3, <2>2, <3>1, <3>2, <3>4
  <2>4. (off + n) - (n - 1) = off + 1
    <3>1. \A a, b \in Nat : (a + b) - (b - 1) = a + 1
      OBVIOUS
    <3> QED BY <1>1, <3>1
  <2>5. \A k \in 1 .. n : h.buf[k] = text[(off + n) - n + k]
    <3>1. \A k \in 1 .. n : h.buf[k] = text[off + k]
      BY <1>2, <2>1
    <3>2. (off + n) - n = off
      BY <1>1
    <3> QED BY <3>1, <3>2
  <2>6. n >= 1 /\ n <= off + n /\ ~ (n < 1)
    BY <1>5, <1>1
  <2>7. ReadSoFar(h, off + n, text)
    BY <1>3, <1>2, <2>3, <2>4, <2>5, <2>6 DEF ReadSoFar
  <2> QED BY <2>7 DEF n
<1> QED BY <1>4, <1>5

\* While a file reads back, a reader through the inode on the disk is given what is in it.
LEMMA ReadCharsAre ==
  ASSUME FilesOK, Kept, NEW s \in Fds, tame[fds[s].inum],
         fds[s].inode = disk.inodes[fds[s].inum], fds[s].offset <= Len(ought[fds[s].inum])
  PROVE  LET off == fds[s].offset
             text == ought[fds[s].inum]
             chars == ReadChars(fds[s], BUFSIZ)
         IN  /\ off \in Nat /\ text \in Seq(Char) /\ chars \in Seq(Char)
             /\ Len(chars) = IF off + BUFSIZ > Len(text) THEN Len(text) - off ELSE BUFSIZ
             /\ Len(chars) = Clipped(fds[s], BUFSIZ)
             /\ \A k \in 1 .. Len(chars) : chars[k] = text[off + k]
<1> USE StdioAssumption
<1> DEFINE data == fds[s]
           i == data.inode
           off == data.offset
           text == ought[data.inum]
           chars == ReadChars(data, BUFSIZ)
           n == Clipped(data, BUFSIZ)
<1>1. /\ data \in Opened /\ data.inum \in Inums /\ i \in Inode /\ off \in Nat /\ Fits(i.size)
      /\ disk \in Disks
  <2>1. data \in Opened /\ Fits(data.inode.size) /\ disk \in Disks
    BY DEF FilesOK, Fds
  <2> QED BY <2>1 DEF Opened
<1>2. text \in Seq(Char) /\ text = Content(i, disk.blocks, 0, i.size)
  BY <1>1 DEF Kept, OnDisk
<1>3. /\ Len(text) = i.size
      /\ \A k \in 1 .. i.size :
           text[k] = disk.blocks[i.bp[(k - 1) \div BLOCK_SIZE]][(k - 1) % BLOCK_SIZE]
  <2> HIDE DEF text, i
  <2> QED BY <1>1, <1>2, ContentIs
<1>4. off <= i.size /\ i.size \in Nat
  BY <1>1, <1>3 DEF Inode
<1>5. n = (IF off + BUFSIZ > Len(text) THEN Len(text) - off ELSE BUFSIZ) /\ n \in Nat
       /\ off + n <= i.size
  <2>1. n = IF off + BUFSIZ > i.size THEN i.size - off ELSE BUFSIZ
    BY DEF Clipped
  <2> HIDE DEF n, text, i, off
  <2> QED BY <1>1, <1>3, <1>4, <2>1
<1>6. chars \in Seq(Char) /\ Len(chars) = n
  <2>1. n >= 0
    <3> HIDE DEF n
    <3> QED BY <1>5
  <2> QED BY <1>1, <2>1, CharsRead
<1>7. ASSUME NEW k \in 1 .. n PROVE chars[k] = text[off + k]
  <2>1. off + k \in 1 .. i.size /\ off + k - 1 = (off + k) - 1
    <3> HIDE DEF n, i, off
    <3>1. n \in Nat /\ off + n <= i.size /\ off \in Nat /\ i.size \in Nat
      BY <1>1, <1>4, <1>5
    <3>2. k \in Nat /\ k >= 1 /\ off + k <= i.size
      BY <3>1
    <3> QED BY <3>1, <3>2
  <2>2. chars[k] = disk.blocks[Place(i, off + k - 1)[1]][Place(i, off + k - 1)[2]]
    BY DEF ReadChars, Content
  <2>3. text[off + k] = disk.blocks[i.bp[(off + k - 1) \div BLOCK_SIZE]][(off + k - 1) % BLOCK_SIZE]
    <3> HIDE DEF n, i, off, text
    <3> QED BY <1>3, <2>1
  <2> QED BY <2>2, <2>3 DEF Place
<1> HIDE DEF n
<1> QED BY <1>1, <1>2, <1>5, <1>6, <1>7 DEF n

\* Nothing changes for a reader when its descriptor and its stream stay as they were, and so
\* does its file, or it is not one of a file that reads back any more.
LEMMA ReaderUndisturbed ==
  ASSUME NEW t \in Streams, ReaderOK(t), fds'[t] = fds[t], streams'[t] = streams[t],
         tame'[fds[t].inum] => /\ disk'.inodes[fds[t].inum] = disk.inodes[fds[t].inum]
                               /\ ought'[fds[t].inum] = ought[fds[t].inum]
                               /\ tame[fds[t].inum]
  PROVE  ReaderOK(t)'
BY DEF ReaderOK, Reading, ReadSoFar

LEMMA fopenReaders ==
  ASSUME TypeInv, Kept, ReadersOK, NEW f \in Inums, NEW mode \in {"r", "w"}, fopen(f, mode)
  PROVE  ReadersOK'
<1> DEFINE r == [mode |-> mode, buf |-> <<>>, bufrp |-> 0, bufwp |-> 0, got |-> <<>>,
                 fresh |-> TRUE, said |-> FALSE]
<1>1. /\ fds \in Seq(Opened) /\ streams \in Seq(Stream) /\ Len(streams) = Len(fds)
  BY DEF TypeInv, FilesOK
<1>2. PICK n \in Nat : n = Len(fds) + 1
  BY <1>1
<1> DEFINE data == [inum |-> f, inode |-> disk.inodes[f], offset |-> 0]
<1>3. fds' = Append(fds, data)
  BY DEF fopen, Open
<1>4. /\ streams' = Append(streams, r)
      /\ disk' = disk /\ ought' = ought /\ tame' = tame
  BY DEF fopen, Open
<1>5. data \in Opened
  <2>1. disk.inodes[f] \in Inode
    BY DEF TypeInv, FilesOK, Disks
  <2> QED BY <2>1 DEF Opened
<1>6. data.inum = f /\ data.inode = disk.inodes[f] /\ data.offset = 0
  OBVIOUS
<1> HIDE DEF r, data
<1>7. fds' = Append(fds, data)
  BY <1>3
<1>8. fds'[n] = data /\ \A t \in 1 .. Len(fds) : fds'[t] = fds[t]
  BY <1>1, <1>5, <1>7, <1>2
<1>9. /\ Streams = 1 .. Len(fds) /\ Streams' = 1 .. n
      /\ streams'[n] = r /\ \A t \in 1 .. Len(fds) : streams'[t] = streams[t]
  BY <1>1, <1>4, <1>2 DEF Streams
<1>10. ASSUME NEW t \in Streams PROVE ReaderOK(t)'
  <2>1. fds'[t] = fds[t] /\ streams'[t] = streams[t] /\ ReaderOK(t)
    BY <1>8, <1>9 DEF ReadersOK
  <2> QED BY <1>4, <2>1, ReaderUndisturbed
<1>11. ReadSoFar(r, data.offset, ought[f])
  <2>1. ought[f] \in Seq(Char)
    BY DEF Kept
  <2>2. data.offset = 0
    BY <1>6
  <2>3. r.bufwp = 0 /\ r.bufrp = 0 /\ r.got = <<>>
    BY DEF r
  <2>4. SubSeq(ought[f], 1, 0) = <<>>
    BY SubSeqEmpty
  <2> QED BY <2>1, <2>2, <2>3, <2>4 DEF ReadSoFar
<1>12. ReaderOK(n)'
  <2> SUFFICES ASSUME streams'[n].fresh
               PROVE  /\ fds'[n].inode = disk'.inodes[fds'[n].inum]
                      /\ ReadSoFar(streams'[n], fds'[n].offset, ought'[fds'[n].inum])
    BY DEF ReaderOK, ReadSoFar
  <2> QED BY <1>4, <1>6, <1>8, <1>9, <1>11
<1>13. ASSUME NEW t \in Streams' PROVE ReaderOK(t)'
  <2>1. CASE t = n
    BY <1>12, <2>1
  <2>2. CASE t # n
    <3>1. t \in Streams
      BY <1>1, <1>9, <1>2, <2>2
    <3> QED BY <1>10, <3>1
  <2> QED BY <2>1, <2>2
<1> QED BY <1>13 DEF ReadersOK

LEMMA FlushReaders ==
  ASSUME TypeInv, BlocksApart, BlocksApart', Kept, ReadersOK,
         NEW s \in Streams, Writing(s), NEW buf \in Seq(Char), Flush(s, buf)
  PROVE  ReadersOK'
<1>1. \A g \in Inums \ {fds[s].inum} :
        disk'.inodes[g] = disk.inodes[g] /\ ought'[g] = ought[g] /\ tame'[g] = tame[g]
  BY FlushKeeps
<1>2. streams \in Seq(Stream) /\ fds \in Seq(Opened) /\ Streams = 1 .. Len(fds)
  BY DEF TypeInv, FilesOK, Streams
<1>3. PICK v : fds' = [fds EXCEPT ![s] = v]
  BY DEF Flush, Write
<1>4. streams' = [t \in Streams |->
         IF t = s THEN [streams[t] EXCEPT !.buf = <<>>]
         ELSE IF fds[t].inum = fds[s].inum
              THEN [streams[t] EXCEPT !.fresh = FALSE] ELSE streams[t]]
  BY DEF Flush
<1>5. Streams' = Streams
  BY <1>4 DEF Streams
<1>6. ASSUME NEW t \in Streams PROVE ReaderOK(t)'
  <2>1. streams[t] \in Stream /\ fds[t] \in Opened /\ fds[t].inum \in Inums
    <3>1. streams[t] \in Stream /\ fds[t] \in Opened
      BY <1>2 DEF TypeInv, StreamOK
    <3> QED BY <3>1 DEF Opened
  <2>2. CASE t = s
    <3>1. streams'[t] = [streams[t] EXCEPT !.buf = <<>>]
      BY <1>4, <2>2
    <3>2. streams'[t].mode = "w"
      BY <2>1, <2>2, <3>1 DEF Writing, Stream
    <3> QED BY <3>2 DEF ReaderOK, Reading
  <2>3. CASE t # s /\ fds[t].inum = fds[s].inum
    <3>1. streams'[t] = [streams[t] EXCEPT !.fresh = FALSE]
      BY <1>4, <2>3
    <3>2. ~streams'[t].fresh
      BY <2>1, <3>1 DEF Stream
    <3> QED BY <3>2 DEF ReaderOK
  <2>4. CASE t # s /\ fds[t].inum # fds[s].inum
    <3>1. streams'[t] = streams[t] /\ fds'[t] = fds[t]
      BY <1>2, <1>3, <1>4, <2>4
    <3>2. ReaderOK(t)
      BY DEF ReadersOK
    <3> QED BY <1>1, <2>1, <2>4, <3>1, <3>2, ReaderUndisturbed
  <2> QED BY <2>2, <2>3, <2>4
<1>7. ASSUME NEW t \in Streams' PROVE ReaderOK(t)'
  BY <1>5, <1>6
<1> QED BY <1>7 DEF ReadersOK

\* Only stream s changes, and neither do files.
LEMMA OneReader ==
  ASSUME TypeInv, ReadersOK, NEW s \in Streams, UNCHANGED <<disk, ought, tame>>,
         NEW v, fds' = [fds EXCEPT ![s] = v], NEW h, streams' = [streams EXCEPT ![s] = h],
         ReaderOK(s)'
  PROVE  ReadersOK'
<1>1. Streams' = Streams /\ Streams = 1 .. Len(fds) /\ fds \in Seq(Opened)
  BY DEF Streams, TypeInv, FilesOK
<1>2. ASSUME NEW t \in Streams, t # s PROVE ReaderOK(t)'
  <2>1. fds'[t] = fds[t] /\ streams'[t] = streams[t] /\ ReaderOK(t)
    BY <1>1, <1>2 DEF ReadersOK, Streams
  <2> QED BY <2>1, ReaderUndisturbed
<1>3. ASSUME NEW t \in Streams' PROVE ReaderOK(t)'
  BY <1>1, <1>2
<1> QED BY <1>3 DEF ReadersOK

LEMMA fgetcReaders ==
  ASSUME TypeInv, Kept, ReadersOK, NEW s \in Streams, fgetc(s)
  PROVE  ReadersOK'
<1> DEFINE r == streams[s]
           off == fds[s].offset
           text == ought[fds[s].inum]
           chars == ReadChars(fds[s], BUFSIZ)
           buf == Filled(chars, BUFSIZ)
<1>1. /\ r \in Stream /\ r.mode = "r" /\ s \in Fds /\ FilesOK /\ s \in DOMAIN streams
      /\ streams \in Seq(Stream) /\ fds \in Seq(Opened) /\ DOMAIN fds = DOMAIN streams
  BY DEF TypeInv, StreamOK, fgetc, Reading, Streams, Fds, FilesOK
<1>2. UNCHANGED <<disk, ought, tame>>
  BY DEF fgetc
<1>3. fds[s] \in Opened /\ fds[s].inum \in Inums /\ off \in Nat /\ text \in Seq(Char)
  <2>1. fds[s] \in Opened
    BY <1>1 DEF Fds
  <2> QED BY <2>1 DEF Opened, Kept
<1>4. fds = [fds EXCEPT ![s] = fds[s]]
  BY <1>1
<1>5. CASE /\ r.bufwp > r.bufrp
           /\ streams' = [streams EXCEPT ![s] =
                             [r EXCEPT !.bufrp = @ + 1, !.got = Got(s, r.buf[r.bufrp + 1])]]
           /\ UNCHANGED fds
  <2> DEFINE h == [[r EXCEPT !.bufrp = r.bufrp + 1] EXCEPT !.got = Got(s, r.buf[r.bufrp + 1])]
  <2>1. streams' = [streams EXCEPT ![s] = h]
    BY <1>5
  <2>2. streams'[s] = h
    BY <1>1, <2>1
  <2>3. /\ h.mode = r.mode /\ h.fresh = r.fresh /\ h.buf = r.buf /\ h.bufwp = r.bufwp
        /\ h.bufrp = r.bufrp + 1 /\ h.got = Got(s, r.buf[r.bufrp + 1])
    <3> HIDE DEF r
    <3> QED BY <1>1 DEF Stream
  <2>4. h \in Stream
    <3>1. TypeInv'
      BY fgetcOK
    <3>2. s \in Streams'
      BY <1>1, <2>1 DEF Streams
    <3> HIDE DEF h
    <3> QED BY <2>2, <3>1, <3>2 DEF TypeInv, StreamOK
  <2>5. ASSUME r.fresh, tame[fds[s].inum] PROVE ReadSoFar(h, off, text)
    <3>1. ReadSoFar(r, off, text)
      BY <2>5, <1>1 DEF ReadersOK, ReaderOK, Reading
    <3>2. ~Ended(s)
      <4>1. r.bufwp >= r.bufrp
        BY <1>1, <1>5 DEF Stream
      <4> HIDE DEF off, text
      <4> QED BY <1>1, <1>3, <3>1, <4>1, NotEnded
    <3>3. h.got = Append(r.got, r.buf[r.bufrp + 1])
      BY <2>3, <3>2 DEF Got
    <3> HIDE DEF h, r, off, text
    <3> QED BY <1>1, <1>3, <1>5, <2>3, <2>4, <3>1, <3>3, BufferRead
  <2>6. ReaderOK(s)'
    <3> SUFFICES ASSUME streams'[s].fresh, tame'[fds'[s].inum]
                 PROVE  /\ fds'[s].inode = disk'.inodes[fds'[s].inum]
                        /\ ReadSoFar(streams'[s], fds'[s].offset, ought'[fds'[s].inum])
      BY DEF ReaderOK, ReadSoFar
    <3>1. r.fresh /\ tame[fds[s].inum]
      <4> HIDE DEF h
      <4> QED BY <1>2, <1>5, <2>2, <2>3
    <3>2. fds[s].inode = disk.inodes[fds[s].inum]
      BY <1>1, <3>1 DEF ReadersOK, ReaderOK, Reading
    <3>3. ReadSoFar(h, off, text)
      BY <2>5, <3>1
    <3> HIDE DEF h
    <3> QED BY <1>2, <1>5, <2>2, <3>2, <3>3
  <2> HIDE DEF h
  <2> QED BY <1>2, <1>4, <1>5, <2>1, <2>6, OneReader
<1>6. CASE /\ r.bufwp = r.bufrp
           /\ Read(s, BUFSIZ)
           /\ streams' = [streams EXCEPT ![s] =
                            [mode |-> "r", buf |-> buf, bufrp |-> 1, bufwp |-> Len(chars),
                             got |-> Got(s, buf[1]), fresh |-> r.fresh, said |-> r.said]]
  <2> DEFINE h == [mode |-> "r", buf |-> buf, bufrp |-> 1, bufwp |-> Len(chars),
                   got |-> Got(s, buf[1]), fresh |-> r.fresh, said |-> r.said]
             n == Clipped(fds[s], BUFSIZ)
  <2>1. streams' = [streams EXCEPT ![s] = h]
    BY <1>6
  <2>2. fds' = [fds EXCEPT ![s] = [inum |-> fds[s].inum, inode |-> fds[s].inode, offset |-> off + n]]
    <3>1. fds' = [fds EXCEPT ![s].offset = fds[s].offset + n]
      BY <1>6 DEF Read
    <3>2. fds \in Seq(Opened) /\ s \in 1 .. Len(fds)
      BY <1>1 DEF Fds
    <3>3. [fds EXCEPT ![s].offset = off + n] =
            [fds EXCEPT ![s] = [inum |-> fds[s].inum, inode |-> fds[s].inode, offset |-> off + n]]
      <4> HIDE DEF off, n
      <4> QED BY <3>2, OffsetOnly
    <3> HIDE DEF n
    <3> QED BY <3>1, <3>3
  <2>3. /\ streams'[s] = h
        /\ fds'[s] = [inum |-> fds[s].inum, inode |-> fds[s].inode, offset |-> off + n]
    BY <1>1, <2>1, <2>2
  <2>4. h \in Stream
    <3>1. TypeInv'
      BY fgetcOK
    <3>2. s \in Streams'
      BY <1>1, <2>1 DEF Streams
    <3> HIDE DEF h
    <3> QED BY <2>3, <3>1, <3>2 DEF TypeInv, StreamOK
  <2>5. /\ h.fresh = r.fresh /\ h.buf = buf /\ h.bufwp = Len(chars)
        /\ h.bufrp = 1 /\ h.got = Got(s, buf[1])
    OBVIOUS
  <2>6. ASSUME r.fresh, tame[fds[s].inum] PROVE ReadSoFar(h, off + n, text)
    <3>1. ReadSoFar(r, off, text) /\ fds[s].inode = disk.inodes[fds[s].inum]
      BY <2>6, <1>1 DEF ReadersOK, ReaderOK, Reading
    <3>2. ~Ended(s)
      <4>1. r.bufwp >= r.bufrp
        BY <1>1, <1>6 DEF Stream
      <4> HIDE DEF off, text
      <4> QED BY <1>1, <1>3, <3>1, <4>1, NotEnded
    <3>3. h.got = Append(r.got, h.buf[1])
      BY <2>5, <3>2 DEF Got
    <3>4. /\ chars \in Seq(Char) /\ Len(chars) = n
          /\ Len(chars) = IF off + BUFSIZ > Len(text) THEN Len(text) - off ELSE BUFSIZ
          /\ \A k \in 1 .. Len(chars) : chars[k] = text[off + k]
      BY <1>1, <2>6, <3>1, ReadCharsAre DEF ReadSoFar
    <3>5. h.buf = Filled(chars, BUFSIZ)
      BY <2>5
    <3> HIDE DEF h, r, off, text, chars, buf, n
    <3>6. ReadSoFar(h, off + Len(chars), text)
      BY <1>1, <1>3, <1>6, <2>4, <2>5, <3>1, <3>3, <3>4, <3>5, FilledRead
    <3> QED BY <3>4, <3>6
  <2>7. ReaderOK(s)'
    <3> SUFFICES ASSUME streams'[s].fresh, tame'[fds'[s].inum]
                 PROVE  /\ fds'[s].inode = disk'.inodes[fds'[s].inum]
                        /\ ReadSoFar(streams'[s], fds'[s].offset, ought'[fds'[s].inum])
      BY DEF ReaderOK, ReadSoFar
    <3>1. /\ fds'[s].inum = fds[s].inum /\ fds'[s].inode = fds[s].inode
          /\ fds'[s].offset = off + n
      BY <2>3
    <3> HIDE DEF h, n
    <3>2. r.fresh /\ tame[fds[s].inum]
      BY <1>2, <2>3, <2>5, <3>1
    <3>3. fds[s].inode = disk.inodes[fds[s].inum]
      BY <1>1, <3>2 DEF ReadersOK, ReaderOK, Reading
    <3>4. ReadSoFar(h, off + n, text)
      BY <2>6, <3>2
    <3> QED BY <1>2, <2>3, <3>1, <3>3, <3>4
  <2> HIDE DEF h, n
  <2> QED BY <1>2, <2>1, <2>2, <2>7, OneReader
<1>7. CASE /\ streams' = [streams EXCEPT ![s].said = TRUE]
           /\ UNCHANGED fds
  <2> DEFINE h == [r EXCEPT !.said = TRUE]
  <2>1. streams' = [streams EXCEPT ![s] = h]
    BY <1>7
  <2>2. streams'[s] = h
    BY <1>1, <2>1
  <2>3. /\ h.fresh = r.fresh /\ h.bufwp = r.bufwp /\ h.bufrp = r.bufrp /\ h.got = r.got
        /\ h.buf = r.buf
    <3> HIDE DEF r
    <3> QED BY <1>1 DEF Stream
  <2> HIDE DEF h
  <2>4. ReaderOK(s)'
    <3> SUFFICES ASSUME streams'[s].fresh, tame'[fds'[s].inum]
                 PROVE  /\ fds'[s].inode = disk'.inodes[fds'[s].inum]
                        /\ ReadSoFar(streams'[s], fds'[s].offset, ought'[fds'[s].inum])
      BY DEF ReaderOK, ReadSoFar
    <3>1. r.fresh /\ tame[fds[s].inum]
      BY <1>2, <1>7, <2>2, <2>3
    <3>2. fds[s].inode = disk.inodes[fds[s].inum] /\ ReadSoFar(r, off, text)
      BY <1>1, <3>1 DEF ReadersOK, ReaderOK, Reading
    <3>3. ReadSoFar(h, off, text)
      BY <2>3, <3>2 DEF ReadSoFar
    <3> QED BY <1>2, <1>7, <2>2, <3>2, <3>3
  <2> QED BY <1>2, <1>4, <1>7, <2>1, <2>4, OneReader
<1> QED
  BY <1>5, <1>6, <1>7 DEF fgetc

LEMMA ReadersStep ==
  ASSUME TypeInv, BlocksApart, BlocksApart', Kept, ReadersOK, [Next]_vars
  PROVE  ReadersOK'
<1>1. ASSUME NEW f \in Inums, NEW mode \in {"r", "w"}, fopen(f, mode) PROVE ReadersOK'
  BY <1>1, fopenReaders
<1>2. ASSUME NEW s \in Streams, NEW c \in Char, fputc(s, c) PROVE ReadersOK'
  <2> DEFINE buf == Append(streams[s].buf, c)
  <2>1. Writing(s) /\ buf \in Seq(Char)
    BY <1>2 DEF fputc, Writing, TypeInv, StreamOK
  <2>2. CASE Flush(s, buf)
    BY <2>1, <2>2, FlushReaders
  <2>3. CASE streams' = [streams EXCEPT ![s].buf = buf] /\ UNCHANGED <<disk, fds, ought, tame>>
    <3> DEFINE h == [streams[s] EXCEPT !.buf = buf]
    <3> HIDE DEF buf
    <3>1. streams' = [streams EXCEPT ![s] = h]
      BY <2>3
    <3>2. s \in DOMAIN streams /\ streams[s] \in Stream /\ fds \in Seq(Opened)
          /\ fds = [fds EXCEPT ![s] = fds[s]]
      BY DEF TypeInv, StreamOK, Streams, FilesOK
    <3>3. streams'[s].mode = "w"
      BY <2>1, <3>1, <3>2 DEF Writing, Stream
    <3>4. ReaderOK(s)'
      BY <3>3 DEF ReaderOK, Reading
    <3> HIDE DEF h
    <3> QED BY <2>3, <3>1, <3>2, <3>4, OneReader
  <2> QED BY <1>2, <2>2, <2>3 DEF fputc
<1>3. ASSUME NEW s \in Streams, fflush(s) PROVE ReadersOK'
  <2>1. Writing(s) /\ streams[s].buf \in Seq(Char) /\ Flush(s, streams[s].buf)
    BY <1>3 DEF fflush, Writing, TypeInv, StreamOK
  <2> QED BY <2>1, FlushReaders
<1>4. ASSUME NEW s \in Streams, fgetc(s) PROVE ReadersOK'
  BY <1>4, fgetcReaders
<1>5. CASE UNCHANGED vars
  BY <1>5 DEF vars, ReadersOK, ReaderOK, Reading, ReadSoFar, Streams
<1> QED BY <1>1, <1>2, <1>3, <1>4, <1>5 DEF Next

\* A program that reads a file while nobody writes it gets what was written,
\* and EOF behind it, whatever is done to the other files (fgetc, e2fs_read, iread).
THEOREM ReadersGetFiles ==
  ASSUME Guarded, Formatted
  PROVE  Spec => []ReaderGetsFile
<1>1. Init => ReadersOK
  BY DEF Init, ReadersOK, Streams
<1>2. TypeInv /\ BlocksApart /\ BlocksApart' /\ Kept /\ ReadersOK /\ [Next]_vars => ReadersOK'
  BY ReadersStep
<1>3. TypeInv /\ Kept /\ ReadersOK => ReaderGetsFile
  <2> SUFFICES ASSUME TypeInv, Kept, ReadersOK, NEW s \in Streams,
                      Reading(s), streams[s].fresh, tame[fds[s].inum]
               PROVE  IF Ended(s) THEN streams[s].got = Append(ought[fds[s].inum], EOF)
                      ELSE IsPrefix(streams[s].got, ought[fds[s].inum])
    BY DEF ReaderGetsFile
  <2> DEFINE r == streams[s]
             off == fds[s].offset
             text == ought[fds[s].inum]
  <2>1. ReadSoFar(r, off, text)
    BY DEF ReadersOK, ReaderOK
  <2>2. r \in Stream /\ fds[s] \in Opened
    BY DEF TypeInv, StreamOK, Streams, FilesOK
  <2>3. off \in Nat /\ text \in Seq(Char)
    BY <2>2 DEF Opened, Kept
  <2> HIDE DEF off, text
  <2>4. CASE r.bufwp < r.bufrp
    <3>1. r.got = Append(text, EOF)
      BY <2>1, <2>4 DEF ReadSoFar
    <3>2. text \in Seq(Char \union {EOF}) /\ EOF \in Char \union {EOF}
      BY <2>3
    <3>3. r.got # <<>> /\ r.got[Len(r.got)] = EOF
      BY <3>1, <3>2
    <3> QED BY <3>1, <3>3 DEF Ended, Last, text
  <2>5. CASE r.bufwp >= r.bufrp
    <3>1. ~Ended(s) /\ IsPrefix(r.got, text)
      BY <2>1, <2>2, <2>3, <2>5, NotEnded
    <3> QED BY <3>1 DEF text
  <2> QED BY <2>2, <2>4, <2>5 DEF Stream
<1>4. Spec => []BlocksApart
  BY BlocksStayApart
<1> QED BY <1>1, <1>2, <1>3, <1>4, TypeInvariance, KeptInvariance, PTL DEF Spec
=============================================================================
