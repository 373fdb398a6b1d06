------------------------------- MODULE Ext2fs -------------------------------
(***************************************************************************)
(* Files on an ext2 disk as src/fs/ext2fs.c reads and writes them, and the *)
(* open files of fs/fs.c.  One system call runs at a time: the windows     *)
(* that disk accesses open are not used by a second caller of the driver.  *)
(* The disk has blocks of 1 KB, as the driver's buffers do, and one group. *)
(***************************************************************************)
EXTENDS Integers, Sequences, FiniteSetsExt

CONSTANTS
  BLOCK_SIZE,      \* characters in a block
  NBits,           \* bits of the block bitmap: the blocks of the group
  NPointers,       \* direct pointers of an inode, i_bp0
  Inums,           \* the inodes of the files
  Char,            \* characters in files; 255, which ends one for its reader, is none
  EOF,             \* the character 255, which as a char is -1
  MaxOpen          \* bound: descriptors in use

VARIABLES
  disk,    \* [inodes, blocks, bitmap]
  fds      \* the open files, with struct e2fs_data; nothing closes one

ASSUME ExtAssumption ==
  /\ BLOCK_SIZE \in Nat \ {0} /\ NBits \in Nat \ {0} /\ NPointers \in Nat \ {0}
  /\ MaxOpen \in Nat /\ EOF \notin Char

Bits == 0 .. NBits - 1
Blocks == 0 .. NBits

\* With blocks of 1 KB bit 0 stands for block 1, s_first_data_block.
BlockOf(b) == b + 1

Inode == [size : Nat, bp : [0 .. NPointers - 1 -> Blocks]]
Disks == [inodes : [Inums -> Inode], blocks : [Blocks -> [0 .. BLOCK_SIZE - 1 -> Char]],
          bitmap : SUBSET Bits]
Fds == 1 .. Len(fds)

Place(i, p) == <<i.bp[p \div BLOCK_SIZE], p % BLOCK_SIZE>>
Fits(len) == len <= NPointers * BLOCK_SIZE

\* What a file contains, read through inode i.
Content(i, blocks, from, n) ==
  [k \in 1 .. n |-> blocks[Place(i, from + k - 1)[1]][Place(i, from + k - 1)[2]]]
OnDisk(f) == Content(disk.inodes[f], disk.blocks, 0, disk.inodes[f].size)

\* Block 0 is the boot block: a pointer of 0 is to none.
Pointers(i) == {i.bp[k] : k \in DOMAIN i.bp} \ {0}
Once(i) == \A k, l \in DOMAIN i.bp : k # l /\ i.bp[k] # 0 => i.bp[k] # i.bp[l]

-----------------------------------------------------------------------------
(* Growth                                                                   *)

FreeBits(d) == Bits \ d.bitmap
FreeBlocks(d) == {BlockOf(b) : b \in FreeBits(d)}

\* The first n free bits, as n calls of allocate_block find and mark them.
FirstFree(d, n) ==
  {b \in FreeBits(d) : Cardinality({c \in FreeBits(d) : c < b}) < n}

\* Mutant: a full block counts as an empty one.
BlocksToAddNoWrap(i, len) ==
  LET diff == len - i.size
      block_space == BLOCK_SIZE - (i.size % BLOCK_SIZE)
  IN  IF diff <= block_space THEN 0
      ELSE (diff - block_space + BLOCK_SIZE - 1) \div BLOCK_SIZE

\* The blocks guarantee_inode_size adds for a file to have len characters.
BlocksToAdd(i, len) ==
  LET diff == len - i.size
      block_space == (BLOCK_SIZE - (i.size % BLOCK_SIZE)) % BLOCK_SIZE
  IN  IF diff <= block_space THEN 0
      ELSE (diff - block_space + BLOCK_SIZE - 1) \div BLOCK_SIZE

\* Mutant: a block taken is not marked.
Unmarked(d, new) == d.bitmap

Marked(d, new) == d.bitmap \union new

\* add_block_to_inode puts all of them at the place of the old size, the last one stays.
\* The number of the bit is taken for that of the block.
guarantee_inode_size(d, f, i, len) ==
  LET n == BlocksToAdd(i, len)
      new == FirstFree(d, n)
      grown == IF n = 0 THEN i ELSE [i EXCEPT !.bp[i.size \div BLOCK_SIZE] = Max(new)]
      inode == [grown EXCEPT !.size = len]
  IN  [disk |-> [d EXCEPT !.bitmap = Marked(d, new), !.inodes[f] = inode], inode |-> inode]

\* iwrite: after growing, block by block; where two are the same block the later counts.
iwrite(d, f, i, buf, offset) ==
  LET g == guarantee_inode_size(d, f, i, offset + Len(buf))
      at(b, o) == {p \in offset .. offset + Len(buf) - 1 : Place(g.inode, p) = <<b, o>>}
      stored == [b \in Blocks |-> [o \in 0 .. BLOCK_SIZE - 1 |->
                   IF at(b, o) = {} THEN d.blocks[b][o] ELSE buf[Max(at(b, o)) - offset + 1]]]
  IN  [g EXCEPT !.disk.blocks = stored]

-----------------------------------------------------------------------------
(* System calls                                                             *)

\* ext2fs_open copies the inode; the offset is 0, as malloc leaves all it hands out.
Open(f) ==
  /\ Len(fds) < MaxOpen
  /\ fds' = Append(fds, [inum |-> f, inode |-> disk.inodes[f], offset |-> 0])
  /\ UNCHANGED disk

\* e2fs_write: the file ends where the write does.
Write(fd, buf) ==
  LET data == fds[fd]
      len == data.offset + Len(buf)
      w == iwrite(disk, data.inum, data.inode, buf, data.offset)
  IN  /\ Fits(len) /\ data.offset < NPointers * BLOCK_SIZE
      /\ BlocksToAdd(data.inode, len) <= Cardinality(FreeBits(disk))
      /\ disk' = w.disk
      /\ fds' = [fds EXCEPT ![fd] = [inum |-> data.inum, inode |-> w.inode, offset |-> len]]

\* Mutant: the place of the last character is taken for the size.
ClippedShort(data, count) ==
  IF data.offset + count > data.inode.size
  THEN Max({data.inode.size - 1 - data.offset, 0}) ELSE count

\* e2fs_read: iread clips the count at the size of the inode it is given.
Clipped(data, count) ==
  IF data.offset + count > data.inode.size THEN data.inode.size - data.offset ELSE count

ReadChars(data, count) ==
  Content(data.inode, disk.blocks, data.offset, Clipped(data, count))

\* Mutant: a read of nothing leaves the buffer as it is, with whatever character.
FilledUnended(chars, count) ==
  IF chars = <<>> THEN <<CHOOSE c \in Char : TRUE>> ELSE IF Len(chars) < count THEN Append(chars, EOF) ELSE chars

\* e2fs_read puts the character 255 behind less than it was asked for.
Filled(chars, count) == IF Len(chars) < count THEN Append(chars, EOF) ELSE chars

Read(fd, count) ==
  /\ fds' = [fds EXCEPT ![fd].offset = @ + Clipped(fds[fd], count)]
  /\ UNCHANGED disk
=============================================================================
