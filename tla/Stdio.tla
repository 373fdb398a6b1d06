------------------------------- MODULE Stdio -------------------------------
(***************************************************************************)
(* Streams of libc/src/stdio.c on files of Ext2fs, used as filetest.c and  *)
(* cat.c use them: a stream is either written, with fputc and fflush, or   *)
(* read, with fgetc.  The modes given to fopen do nothing in the code; here *)
(* they name the use.                                                      *)
(***************************************************************************)
EXTENDS Ext2fs, SequencesExt

CONSTANTS
  InitialDisks,  \* the disks the machine may boot from
  BUFSIZ,        \* characters of a stream's buffer, as many as a block has
  Newline,       \* '\n'
  MaxPut         \* bound: characters put

ASSUME StdioAssumption ==
  /\ BUFSIZ \in Nat \ {0} /\ Newline \in Char

\* A disk to boot from is one mke2fs makes: no block belongs to two files.
ASSUME DisksAssumption ==
  \A d \in InitialDisks :
    /\ d \in Disks
    /\ \A f \in Inums : Fits(d.inodes[f].size) /\ Once(d.inodes[f])
    /\ \A f, g \in Inums : f # g => Pointers(d.inodes[f]) \intersect Pointers(d.inodes[g]) = {}

VARIABLES
  streams,  \* FILE of each descriptor, and for a reader what it got, whether the file
            \* is as it was when opened, and whether fgetc has complained
  puts,     \* characters put
  ought,    \* per file, what its writers have made it: each write the driver can do ends
             \* the file
  tame      \* per file, whether every write was of a kind the driver can do

files == <<disk, fds>>
vars == <<disk, fds, streams, puts, ought, tame>>

Streams == DOMAIN streams
Writing(s) == streams[s].mode = "w"
Reading(s) == streams[s].mode = "r"
Ended(s) == streams[s].got # <<>> /\ Last(streams[s].got) = EOF

\* The writes ext2fs.c can do: through an inode nobody else has changed since the file was
\* opened, and either within the last block or, when that is full, by at most one more.
CanDo(fd, n) ==
  LET data == fds[fd]
      i == data.inode
      diff == data.offset + n - i.size
      block_space == (BLOCK_SIZE - (i.size % BLOCK_SIZE)) % BLOCK_SIZE
  IN  /\ i = disk.inodes[data.inum]
      /\ (diff <= block_space) \/ (block_space = 0 /\ diff <= BLOCK_SIZE)

-----------------------------------------------------------------------------
Init ==
  /\ disk \in InitialDisks
  /\ fds = <<>>
  /\ streams = <<>>
  /\ puts = 0
  /\ ought = [f \in Inums |-> OnDisk(f)]
  /\ tame = [f \in Inums |-> TRUE]

fopen(f, mode) ==
  /\ Open(f)
  /\ streams' = Append(streams,
       [mode |-> mode, buf |-> <<>>, bufrp |-> 0, bufwp |-> 0, got |-> <<>>,
        fresh |-> TRUE, said |-> FALSE])
  /\ UNCHANGED <<puts, ought, tame>>

\* The system call of fputc and fflush, on what is then in the buffer.
Flush(s, buf) ==
  LET f == fds[s].inum
  IN  /\ Write(s, buf)
      /\ ought' = [ought EXCEPT ![f] =
                      IF tame[f] /\ CanDo(s, Len(buf)) THEN SubSeq(@, 1, fds[s].offset) \o buf ELSE @]
      /\ tame' = [tame EXCEPT ![f] = @ /\ CanDo(s, Len(buf))]
      /\ streams' = [t \in Streams |->
           IF t = s THEN [streams[t] EXCEPT !.buf = <<>>]
           ELSE IF fds[t].inum = f THEN [streams[t] EXCEPT !.fresh = FALSE] ELSE streams[t]]

FullOver(buf) == Len(buf) > BUFSIZ

\* The buffer is flushed when it has no place left.
Full(buf) == Len(buf) >= BUFSIZ

fputc(s, c) ==
  LET buf == Append(streams[s].buf, c)
  IN  /\ Writing(s) /\ puts < MaxPut
      /\ puts' = puts + 1
      /\ \/ /\ c = Newline \/ Full(buf)
            /\ Flush(s, buf)
         \/ /\ c # Newline /\ ~Full(buf)
            /\ streams' = [streams EXCEPT ![s].buf = buf]
            /\ UNCHANGED <<disk, fds, ought, tame>>

fflush(s) ==
  /\ Writing(s)
  /\ Flush(s, streams[s].buf)
  /\ UNCHANGED puts

\* What fgetc returns is kept up to the first EOF.
Got(s, c) == IF Ended(s) THEN streams[s].got ELSE Append(streams[s].got, c)

fgetc(s) ==
  /\ Reading(s)
  /\ UNCHANGED <<disk, puts, ought, tame>>
  /\ LET r == streams[s]
         chars == ReadChars(fds[s], BUFSIZ)
         buf == Filled(chars, BUFSIZ)
     IN  \/ /\ r.bufwp > r.bufrp
            /\ streams' = [streams EXCEPT ![s] =
                 [r EXCEPT !.bufrp = @ + 1, !.got = Got(s, r.buf[r.bufrp + 1])]]
            /\ UNCHANGED fds
         \/ /\ r.bufwp = r.bufrp
            /\ Read(s, BUFSIZ)
            /\ streams' = [streams EXCEPT ![s] =
                 [mode |-> "r", buf |-> buf, bufrp |-> 1, bufwp |-> Len(chars),
                  got |-> Got(s, buf[1]), fresh |-> r.fresh, said |-> r.said]]
         \/ /\ r.bufwp < r.bufrp
            /\ streams' = [streams EXCEPT ![s].said = TRUE]
            /\ UNCHANGED fds

Next ==
  \/ \E f \in Inums, mode \in {"r", "w"} : fopen(f, mode)
  \/ \E s \in Streams, c \in Char : fputc(s, c)
  \/ \E s \in Streams : fflush(s)
  \/ \E s \in Streams : fgetc(s)

Spec == Init /\ [][Next]_vars

\* A program that reads calls fgetc again until it has EOF (filetest.c, cat.c).
FairSpec == Spec /\ \A s \in 1 .. MaxOpen : WF_vars(s \in Streams /\ fgetc(s))

-----------------------------------------------------------------------------
\* The state is of its type: sizes fit the pointers, no descriptor lies behind the end of the
\* file as it knows it, where the copy of iread would have a negative length, a buffer holds
\* less than BUFSIZ characters between calls, and a stream belongs to each descriptor.
FilesTypeOK ==
  /\ disk \in Disks
  /\ \A f \in Inums : Fits(disk.inodes[f].size)
  /\ \A x \in Fds : fds[x].offset \in 0 .. fds[x].inode.size
  /\ Streams = Fds
  /\ \A s \in Streams : Writing(s) => Len(streams[s].buf) < BUFSIZ

\* A file written only in ways the driver can do contains what was written, whatever is
\* done to the other files, also the ways it cannot (ext2fs.c, guarantee_inode_size).
ReadsBack == \A f \in Inums : tame[f] => OnDisk(f) = ought[f]

\* No block belongs to two files, on the disk or in the copies descriptors keep, or to
\* one file twice: growing never gives a block away again.  For this the bit with a block's
\* number has to be marked, the one of the block behind it (allocate_block).
InodesOf(f) == {disk.inodes[f]} \union {fds[x].inode : x \in {y \in Fds : fds[y].inum = f}}
BlocksApart ==
  \A f \in Inums : \A i \in InodesOf(f) :
    /\ Once(i)
    /\ Pointers(i) \subseteq disk.bitmap
    /\ \A g \in Inums \ {f} : \A j \in InodesOf(g) : Pointers(i) \intersect Pointers(j) = {}

\* A program that reads a file while nobody writes it gets what was written and then EOF,
\* never a character too many or too few (fgetc, e2fs_read).
ReaderGetsFile ==
  \A s \in Streams :
    LET f == fds[s].inum
    IN  Reading(s) /\ streams[s].fresh /\ tame[f] =>
          IF Ended(s) THEN streams[s].got = Append(ought[f], EOF)
          ELSE IsPrefix(streams[s].got, ought[f])

\* Every reading loop sees EOF, whatever is written meanwhile.
ReadLoopEnds ==
  \A s \in 1 .. MaxOpen : (s \in Streams /\ Reading(s)) ~> (s \in Streams /\ Ended(s))

\* fgetc never finds its read position behind its write position (stdio.c:66).
NeverSaid == \A s \in Streams : ~streams[s].said

\* The block the driver gives a file is a free one (ext2fs.c:352).
FirstFreeBlockFree ==
  [][\A f \in Inums : Pointers(disk'.inodes[f]) \ Pointers(disk.inodes[f]) \subseteq FreeBlocks(disk)]_vars
=============================================================================
