# os_4 in TLA+

os_4 is a small 32-bit x86 kernel with its boot loader, a C library and a few
programs. This directory holds TLA+ models of its core, the TLC
configurations that check them on small instances, and TLAPS proofs about them
for instances of any size. Paths below are relative to the repository.

## The system

One CPU. A boot loader loads the kernel (`src/src/kernel.c`), which starts paging,
reads `boot/init.exe` from an ext2 disk, makes it process 1 and raises a first,
fake, timer interrupt. From then on everything happens in interrupt handlers: the
timer preempts, the keyboard fills a ring, `int 0x80` is a system call. Gates clear
IF, so a handler runs to its end, except where it opens a window itself: the
`sti` of `devfs_read`, and the `sti` in `load_idt` that every disk access
executes when it returns from real mode. All the concurrency of the kernel comes from these
windows and from where the timer finds the user programs.

| component | source | state | operations | what makes it correct |
|---|---|---|---|---|
| process table, scheduler | `mt.c`, `timer.c` | `ptab`, `cur_ctx`, `mt_enabled` | `new_process`, `fork`, `switch_ctx`, `proc_exit`, `clear_wait`, tick | registers, kernel stacks and page tables never mix; somebody runs if anybody can; nobody starves; a parent learns of its own children |
| system calls | `syscall.c` | none of its own | exit, fork, read, write, open, close, waitpid, execve, brk, setpgid, setsid | each leaves the caller as it promises |
| interrupts | `idt.c`, `idt.nasm`, `pic.c`, `gdt.c` | IDT, PIC masks, TSS | entry, `handle_irq`, `check_pic_reset`, `set_kernel_stack` | a frame is restored to what was interrupted |
| keyboard | `keyboard.c` | `kbd_state`, ring `kbdbuf` with `kbwritep`, `kbreadp` | `keyboard_intr` | no stuck modifier, keys in order |
| devfs | `fs/devfs.c` | the reader's locals | open, close, read, write | a read returns the edited line |
| kernel heap | `malloc.c` | list of headers, `malloc_end` | `malloc_a`, `free` | blocks do not overlap and are as long as asked; `free` frees what it is given |
| paging | `paging.c` | `pagedir`, page tables, frame bitmap | `nonid_page`, `mapped_page`, `id_page`, `unmap_page`, `get_page_block` | a frame has one owner; fork copies |
| file layer | `fs/fs.c` | `fds` of each process | open, close, read, write | a descriptor means one open file |
| ext2 | `fs/ext2fs.c` (`ext2.c` at boot and in execve) | superblock, bitmaps, inodes, one block buffer | open, close, read, write | a file reads back what was written |
| disk, real mode | `disk.c`, `real.c`, `real.nasm` | `rmregs`, `rmsector`, `vbeinfo` | `read_sector`, `write_sector`, `bios_intr` | a caller gets its own sector |
| terminal | `vgatext.c`, `vt100sg.pl` | `term`, cursor, automaton state and parameters | `vga_putchar`, `vga_scroll`, `vga_redraw` | the screen keeps the text in its colours, a redraw shows it |
| C library | `libc/src` | stdio buffers, user heap, `cur_brk` | fgetc, fputc, fflush, malloc, free, sbrk | characters arrive once and in order |
| init, shell | `init/init.c`, `coreutils/sh.c` | program counters, `shell` | start, read, run, wait, exit | a shell is restarted when it has exited, a prompt comes after its command |
| documentation search | `doc/html/search/search.js` | text, timers, popup, section menu, focus; open rows of the page in the frame | keys, clicks, `OnSearchFieldChange`, `Search`, `OnSelectItem`, `Nav`, `NavChild`, `createResults` | what the popup shows is the answer to what is in the field; the keyboard never leaves what is displayed |
| boot loader, image | `boot2.c`, `bootloader.nasm`, `mkimg.c` | the image | load, write | every byte of the kernel lands where it belongs |

How they meet: the timer and the system calls both go through `switch_ctx`, which
replaces the interrupted frame in place; the handlers change `ptab` before
they call it. `fork` and `execve` copy memory through the page directory
that the running process also uses. `keyboard_intr` and `devfs_read` share the
ring. The kernel's messages, the echo of keys and the writes of programs go to one terminal, whose
cursor the timer blinks. Every process, page table, stack and descriptor lives in the kernel heap. The
file layer and `execve` share one real-mode transfer buffer. A program's streams reach a
file through its descriptor, which holds a copy of the inode, and the driver's
one block buffer. Beside the kernel, and touching none of it, the repository ships
its Doxygen pages in `doc/html`, whose search is a program of its own: it shares a field,
a popup and a frame with the browser, which calls it back with keys, focus, timers and loaded
pages.

What is hard: ticks inside system calls; a process that exits, is waited for and
has its slot reused, in any order; state that survives a switch (page directory,
TSS, saved frames); several readers of one ring; index and length arithmetic at
the ends of rings, blocks, pages and files; copies of an inode that another descriptor has
outdated; timers and pages that come late; nobody being runnable. `PROJECT.json` lists
each of these under "hazards" with its line, and the properties that watch it or
the module of the plan that will. Left aside: graphics, logging, string
helpers, the compiled-out `async.c`, and the unused `async_old`, `libc/old` and `init_old.c`.

## The modules

| module | models | how |
|---|---|---|
| `Mt` | process table, scheduler, tick, fork, waitpid, exit, read, execve | one action per system call or interrupt; calls with a window are two |
| `ProcSched` | what the scheduler promises | abstract: ready, blocked, running |
| `Userland` | init, shell, commands on `Mt` | a program counter per process; each program step is an `Mt` action or an assignment |
| `Keyboard` | `keyboard_intr`, `devfs_read` | one action per scan code, one per access of a reader to the shared indices |
| `LineEditor` | what a read of the keyboard promises | abstract: the line so far |
| `KMalloc` | `malloc_a`, `free` and one client of theirs | the list of headers as a sequence, addresses as numbers |
| `Frames` | `paging.c`, and the memory side of `new_process`, `fork`, `brk`, `execve`, `proc_exit` | one action per system call; fork page by page |
| `AddressSpaces` | what paging promises to programs | abstract: a private memory per process |
| `Ext2fs` | `fs/ext2fs.c` and the descriptors of `fs/fs.c` | operators for growth and transfer, one action per system call |
| `Stdio` | `fopen`, `fputc`, `fflush`, `fgetc` on `Ext2fs` | one action per call; a file's promised contents beside it |
| `Terminal` | `vgatext.c` with the automaton of `vt100_state.txt`, its printers and the blinking cursor | one action per character, by whom it is printed |
| `Paper` | what a terminal promises | abstract: lines of marks in their colours |
| `DocSearch` | the documentation search | one action per event of the browser |
| `MtProofs`, `UserlandProofs`, `KeyboardProofs`, `KMallocProofs`, `FramesProofs`, `StdioProofs`, `TerminalProofs`, `DocSearchProofs` | theorems about the module each is named after | TLAPS |
| `MCMt`, `MCKeyboard`, `MCKMalloc`, `MCFrames`, `MCStdio`, `MCTerminal`, `MCDocSearch` | instances for TLC | constants in the `.cfg` files |

**Mt.** `ptab` is a function from slots to process records or `Null`; slot 0, the boot
context, is left out, and `cur_ctx = 0` stands for it. A process has an
incarnation number, never reused, that stands for the addresses of its stack and
tables; `own` in a frame says whose registers they are, which is what
`OwnContext` compares. `pagedir` says, for each directory entry, whose table it
points at. `SwitchCtx` is `switch_ctx` as a whole: save, choose, load, set
the kernel stack; and its early return, with nobody runnable. `SysEnter`
and `SysReturn` or `SysExecLoad` are the two ends of a call that opens a window
(read and execve; an open or a write on ext2 looks the same from here), and `Tick` may
come in between. Left out: what a process does that has exited with nobody to
switch to and whose `ptab` slot is null; the nesting of frames on kernel
stacks; a full table; `waitcnt`, `waitpid`, `waitflags`, `pgid` and `sid`, which are never
read; brk, setpgid, setsid, open, close and write.

**Userland.** `pc` follows each program from one system call to the next.
`born_by` remembers who forked whom, so that `ppid`, a slot number, can be
compared with it.

**Keyboard.** Each key put into the ring is numbered. The reader's `kbdbuf[kbreadp++]`
is a load and a store, the wrap a test and a store, as the unoptimized build has
them (`src/src/CMakeLists.txt:13` has no `-O`). Six keys stand for all: two shifts that
share a bit, control, a letter control turns into an end of file, backspace and enter.

**KMalloc.** A block is a header (`HDR` words), an extent of `length` and the pointer the
client got. The header records that pointer, as the code's does. `struck` collects the
words `align_address` writes when it is called on a header instead of a block;
exploration stops (`Sound`) once a block is too short or a header has been
struck, because the list walks then read overwritten memory. Left out: the mapping of
new pages and the re-entry of `malloc_a` it can cause; addresses that wrap.

**Frames.** A page table is named by what its 4 MB are for (stack and heap, the window of fork,
code), a page is a table and a slot, and frame 0 stands for everything the kernel
keeps; `get_mapping` reads an entry with frame 0 as unmapped. `marked` is the bitmap. Programs and
the kernel's `memcpy` reach memory through `Translate`, that is through the page directory, whatever it
names at that moment: this is where fork could go wrong, since it shares each table of the
parent with the child (`ForkTable`), installs the child's over the parent's, and then copies
page by page through its window (`ForkPage`), with the parent still on the CPU. fork runs
with interrupts off, so nothing else happens between its steps. The stack's and the heap's
pages share a table, as in the code. Left out: what the kernel maps for itself; the coarser levels of the
bitmap, which nothing reads; accesses to unmapped pages, for which there is no handler; running out of
frames, for which the code has no answer; sections of a program that share a page or do not begin on one.

`usys_brk` tests nothing when it shrinks (`src/src/syscall.c:102-106`), and neither does `SysBrkShrink`. The page of the old break goes
whole, the part of it below the new break too; a page that is not mapped, as the one of the
first break is not, makes `unmap_page` clear the mark of frame 0 (`src/src/paging.c:256`), and the
next `brk`, `execve` or `fork` of any process is granted that frame. A page in frame 0 counts as not got: the
kernel too reads its entry as none, and marks frame 0 again when fork shares an entry of 0. What a store
to such a page would do to the kernel's first page is left out. `Tame` says which shrinks do neither, and `strays` counts those
that do: no action reads it, `HeapMapped` speaks of the time before the first, and ownership, bitmap,
refinement and fork are claimed after strays as well (no program of the repository shrinks at all).

The stack frames `new_process` gives a child of fork are lost as soon as the parent's table is shared,
and no exit gives a frame back: the model keeps them marked, as the code does.
`fork` leaves the child's `brk` where `new_process` put it, not where its parent's is. So a child of
a parent that has given back some of the heap it started with believes to have those pages, and no
`brk` of its own maps them: `HeapMapped` speaks of the heap above the first break. (It said all of the
heap until its proof failed at fork; the run has no page below the first break and could not show it,
and with `HeapPages = 2` TLC finds such a child.)

**Ext2fs.** The disk is its inodes, its blocks and one bitmap. Blocks have 1 KB, the only size
that fits the driver's buffers and its place of the group descriptors (`read_bgd`), so bit `b` of the
bitmap stands for block `b + 1` (`BlockOf`); `allocate_block` takes the number of the bit for that of
the block, and so does `FirstFree`. `guarantee_inode_size` is translated as it is:
`add_block_to_inode` looks at a size that does not move on, so that of several new blocks
all but the last are lost, and one added to a partial block takes its pointer; a write
inside a file ends it. A descriptor holds a copy of the inode, which another
descriptor may outdate, and an offset. `ext2fs_open` does not set the offset, which is 0 because the kernel's `malloc`
clears what it hands out (`src/src/malloc.c:63-65`). From there it never passes the size in the copy, as `FilesTypeOK`
says: `iread`, which would take a read from behind the end for a copy of negative length, is
never asked for one. One system call is taken
at a time, so the block buffer needs no variable. Left out: names and directories (`Open`
takes an inode that exists; for one that does not, `new_file` returns the sum of two pointers), a full disk
(the -1 of `allocate_block` is used as a block number), copies of descriptors after `fork`, `close`, which
no program calls, the 257th descriptor that `_fs_getid` would hand out, more than one
group, and a disk smaller than a group, of which `get_first_free_block` searches nothing.

**Stdio.** A stream is a buffer with two positions. Programs use it as `filetest.c`
and `cat.c` do, either for writing or for reading, and several streams may be open on one file.
`got` is what a reader has had up to its first EOF, `ought` what the writers of a file have made
of it, each write ending the file, and `tame` whether all of these were writes the driver can do
(`CanDo`); none of the three is read by an action. The mode given to `fopen` does
nothing, and neither does `init_stdio` here, which opens the terminal's two streams.

**Terminal.** `scr` is what C keeps in `term`, `cx`, `cy` and `cs`, and `shown`, which stands for the pixels:
a character and two colours per cell. `term` has one row more than the window, under it, and the code does reach it: a
newline on the last row redraws, cursor included, before the row is clamped. The functions are operators from
screen to screen, composed as the code calls them, so that `PutChar` is all of `vga_putchar`.
`Own` and `Anywhere` are the rows of `vt100_state.txt` as `vt100sg.pl` reads them (the first row holds in every
state that does not say otherwise); of the actions `vga_putchar` knows four. All who print have
interrupts off but for the windows of the disk: the timer comes between two characters of the
kernel, never of a write. `lost` remembers a wrap on the last row and is read by a property only.
An index outside `console_colors` is the colour -1. Left out: the serial port; the characters of the status line;
`vga_setwin`, `vga_set_color` and `vga_addch`; parameters beyond the last, which would be written behind
`vt100_params`, and parameters that grow without end: `PutChar` does not take the ';' or the digit that would lead
there, which the code does (`src/src/vgatext.c:381-385`), so that the position and the parameters stay in their
bounds by `NParams` and `MaxParam` and `TypeOK` claims nothing of the code about them.

**DocSearch.** The user leaves one of `Texts` in the field, or presses a key that `search.js`
knows; a key goes down and comes up, and in between the focus may have moved, so that another
element gets its second half. `box` is a `SearchBox` with the elements it changes; `strays` are
search timers that `keyTimeout` no longer names, since `Search` forgets a timer that
`OnSelectItem` did not wait for. `req` is the location given to the frame, which loads when it
pleases; a location given before replaces one that has not loaded. A results
page has a row per symbol, rows with several results have children, and its search displays the
rows whose encoded name begins with the encoded query. `unseen` remembers what
has changed since the box last looked, and nothing reads it but a property.
Left out: positions and widths, the mark in the menu, `lastResultsPage`, which nothing reads,
repeated `keypress` events of browsers that send no `keydown` for them, surrogate pairs, several hide
timers of the menu, which do what one does.

## What TLC checks

Instances are as small as the interesting cases allow.

| run | bounds | shows |
|---|---|---|
| `mt` | 3 slots, 5 processes created | types; `WorkConserving`, `OwnContext`, `OwnAddressSpace`, `WaiterStoppedInCall`; `SavedFrameStable`; `Mt` implements `ProcSched`; `RunnableRuns`: no runnable process starves |
| `userland` | 5 slots, 6 processes created | exit never returns; only a parent is told; the prompt follows the command |
| `userland_shell` | 4 slots, 5 processes created | **violated**: init reports the exit of a shell that still exists |
| `keyboard` | ring of 3 slots, buffer of 2, 5 keys | no stuck modifier; keys in order, losses in whole laps; a typed line ends the read; `Keyboard` implements `LineEditor` |
| `frames` | 3 processes, 8 frames, of which 7 once a break has moved and 6 after a stray shrink, 1 stray, tables of 3 slots, pages of 3 addresses, 2 values | a frame has one owner and is marked; before any stray the heap between the first break and the present one is mapped; `Frames` implements `AddressSpaces`; fork spares its caller |
| `kmalloc` | header 6 words, page 8 words, requests of 1, 7 and 8 words, 5 blocks | order, separation of clients, exact `free`, and when a fresh block is too short |
| `kmalloc_stack` | requests of 1 and 8 words, 5 blocks | **violated**: exit frees a pointer that belongs to no block |
| `files` | blocks and buffers of 2 characters, 7 blocks, 3 pointers, an empty file and one of 3 characters, 2 descriptors, 6 characters put | files keep their blocks to themselves; what was written reads back; a reader gets the file, then EOF; reading loops end |
| `stdio_eof` | the same, 2 characters put | **violated**: `fgetc` can find its read position behind its write position |
| `ext2_alloc` | the same disk without a block in front of the free ones, 2 characters put | **violated**: the block given to a file is not free |
| `terminal` | 2 rows of 2, a letter, a digit, newline, backspace and escape sequences of one parameter, 0 or 1, that the letter ends | types, and with them the cursor in the window; the next redraw shows the page unless a line was wrapped on the last row; `Terminal` implements `Paper` |
| `docsearch` | 4 symbols with capitals, an encoded character and children, in 2 sections; 3 texts; 1 stray timer | a results page is exact; the focus is displayed; a settled popup answers the field; Up takes back Down |

Why the bounds are enough. Five processes in three slots: slots are reused while
old frames, tables and parents still refer to them, two processes besides the running one can be in
any combination of waiting and preempted, and the search wraps; what is checked of the kernel, but for
liveness, is proved for any number of slots. Six
processes in five slots let init lose a shell, start another and have commands of both
about. Five keys in a ring of three: it fills, overruns and wraps on both
sides, and a buffer of two fills, empties and is backspaced at both ends.
A page of 8 words and a header of 6 give headers at every distance from a page
boundary, above and below a header's length, and five blocks give fresh blocks,
reuse in the middle and reuse of the last. Eight frames are enough for a fork
of a process that has executed a program or moved its break, for a fork of the child, and
for three processes at once; the heap of a new process has no page there (`HeapPages = 0`), so
that its break begins, as in the code, inside a page that is not mapped, one page behind the
stack; the proofs take any number. A page of three addresses has two breaks behind its start, as a shrink
needs to take a page away that it leaves the break in; where the code has 1024 of 4096 behind a page's start, this has 1 of 3.
The constraint `Bounded` cuts what multiplies without being new: a second stray, and frames beyond
`HeapFrames` and `StrayFrames`. Within it, each found with an invariant that denies it: a mapped page below the break is lost, a
page that was never mapped frees frame 0, and `brk`, `execve` and `fork` are then granted it; a process
that has a heap, or has strayed, forks. The exploration ends at the first state beyond, whose invariants are still checked;
the proofs have neither.
Two rows of two characters have a row that scrolls and one that does not, cells left and right of the cursor,
wraps on either row, and a backspace at both ends of a row. Sequences set the attribute bold
there and no colour, as the looks of four cells are too many to enumerate with two colours: that marks keep the colours they
were printed with is what `TerminalKeepsText` proves, for all of them.
Blocks of two characters and files of up to three give every position of a size in its block, growth by
none, one and two blocks, reads that are exact, short and empty, and a writer that ends a file
in front of what its reader has read; two descriptors are a writer with a reader, two writers or two readers, of one file or two, and with six
characters put both files outgrow their first blocks. The three texts are none, one that has results, and one
with capitals, spaces around it and an encoded character; the rows that match are, in turn, all rows of a
page, one in the middle, and none. `NFrames` ends a run by exhaustion, `CodePages` bounds a program. `MaxBorn`, `MaxTyped`, `MaxSlot`,
`MaxBlocks`, `MaxOpen`, `MaxPut`, `MaxTimers` and `MaxStrays` bound counters that grow; nothing else is cut.

Deadlock is checked in every run but the two of `KMalloc`, which stop on purpose where
`Sound` no longer holds.

**Fairness.** `Mt!FairSpec` asks only that the timer ticks: the PIT runs at 100 Hz
(`src/src/kernel.c:44`), and all code the kernel returns to runs with IF set. No program
is assumed to do anything. `Keyboard!FairSpec` asks that a process inside `devfs_read` goes on
executing, which is `RunnableRuns`: it is never suspended there and interrupts
are on. Nobody is assumed to type, or to read. `Stdio!FairSpec` asks that a program that reads a
stream calls `fgetc` again, as the loops of `filetest.c:22` and `cat.c:6` do, whatever others write
to the file meanwhile. `Terminal` and `DocSearch` assume nothing: nobody need print or redraw, timers and pages may be late for ever.

### What the violated runs show

`userland_shell`: `usys_waitpid` suspends its caller even if the child it waits for
has already exited (`src/src/syscall.c:48-51`). In the trace a command ends while init, which
has started the shell, has not yet reached its own `waitpid`. The shell waits for the command it has
missed, then init waits: nobody is runnable, and `switch_ctx` returns (`src/src/mt.c:162`) into init
as if a child had exited. init prints "Shell exited, restarting" (`src/src/init/init.c:32`) and
starts a second shell beside the first. When it is the shell that waits last, the
same return wakes it by luck, and the missed exit does no harm.

`kmalloc_stack`: `new_process` keeps the end of the kernel stack, `proc_exit` frees
that end (`src/src/mt.c:54`, `:200`). No header records it: `free` logs and writes
through the null pointer, and 64 KB are lost at every exit.

`stdio_eof`: at the end of an ext2 file a read returns 0 and puts the character 255 in the buffer
(`src/src/fs/ext2fs.c:418`). `fgetc` sets `bufwp` to 0 and `bufrp` to 1 and returns it, which is how a
loop sees EOF. If the stream is read again, `bufwp < bufrp` and `fgetc` takes the branch that "can't
happen" (`src/libc/src/stdio.c:66`), for good: it returns 0, which is not EOF. A short read ends with 255 too, but
that character is never returned. The keyboard never returns 0 characters, so this is about files.

`ext2_alloc`: `get_first_free_block` returns the number of a clear bit as that of a block, and
bit 0 stands for block 1 (`src/src/fs/ext2fs.c:159`). A file that grows takes the last block in use before the
free ones, and marks the bit of the next. In `files` a reserved block lies there, as after `mke2fs`
alone the block before the free ones is lost+found's; on a disk whose last block in use is a file's, the
driver writes into that file, as in this trace. Every further
block is one whose bit was set with the block before, and no file has it: `BlocksStayApart` below.

Two further observations made with the models are not runs, as nothing in the
repository contradicts them. With two readers of the keyboard,
`kbreadp` can step over the wrap of the other reader and leave the ring, after which keys are
read from behind it. And with the real sizes (24-byte headers, 4096-byte
pages) `malloc_a` does return short blocks: the very first one, the page directory,
and most page tables, all of which use only the first 4 KB of the 16 KB they ask
for, and, after some forks and exits, kernel stacks, which use their far end.

Nor are these, of the terminal. `vga_scroll` clears the mark of every cell it moves, having
drawn it only if its character differs from the one that takes its place (`src/src/vgatext.c:258`, `:271`).
When a newline scrolls that does no harm, as it redraws first. A line that wraps on the last row does not, and the rows
above may not have been drawn yet: a cell with the same character in both is then never drawn. A program that
writes 256 equal letters at the bottom of the screen sees it, and this is why `RedrawShowsPage` has its exception.
A cell that scrolls onto an equal character keeps, on the display, the colours that
stood there. An escape sequence that is broken off leaves its parameters to the next, as no row of
`vt100_state.txt` says "clear". A tab, which `src/src/vgatext.h:13` counts among the specials, prints the
font's glyph 9.

Nor are these, of the documentation search. Closing the popup, or leaving the field, does not stop a
search timer that is pending: half a second later the popup is back, with the results for an empty
field or for the label "Search" in it. Shift and Down stop the timer, and the text typed last is not searched. In the menu Down
moves one section too far, where `Search` throws. `Nav` looks for the children of the row before
and not of the row it has found (`search.js:606`): right only because the rows that match are
next to each other on a sorted page (`RowsTogether`, which holds of the 35 pages of the repository).
`NamesAssumption` is the other fact about those pages the model takes from them: a symbol is on the page of the first character
of its name, in lower case, under the id `convertToId` makes of the name, as all 240 rows are.

## What is proved

With TLAPS, for all values of the constants that satisfy the modules' assumptions
(bounds are positive, `Null` is no value of the model, `MEM` is a field of the header, the
stack and heap of a new process fit in one table and in the frames there are, the pages of the
documentation are sorted, each symbol on the page of its first character with its name's id, `hex` writes "_" and two
digits for a character, "_" too, and different ones for different characters, lower case is one character for one, and
the user can empty the field).

`MtProofs` proves `Spec => []IInv` (`Invariance`). The four safety properties need
each other and one fact more, `Bootstrapped`: no switch returns to slot 0, and a process
inside read or execve has its slot. `WorkConserving` is what makes fork's switch
a real one, so that the child's tables never stay in the directory
under the parent (`OwnAddressSpace`); `OwnAddressSpace` holds because a
process that keeps the CPU keeps its tables installed, and one that gets it has
them loaded; `WaiterStoppedInCall` keeps `clear_wait` from
changing a frame anybody could be preempted with. The argument is one lemma per
kind of step: `SwitchCtx` from any table that the handler may leave behind, then
one step per system call. `TypeOK`, `WorkConserving`, `OwnContext`,
`OwnAddressSpace` and `WaiterStoppedInCall` follow; `SavedFrameStable` is proved as an
action property from the same invariant; and `KernelImplementsSched` proves the refinement
`Spec => Sched!Spec`: initial states map to initial states, and every
step to an abstract step or a stutter.

`UserlandProofs` proves `USpec => []UInv`. That every step of a program is one of the kernel
(`ProgramsRunOnKernel`) gives it all of `MtProofs`, and is not enough: whether a switch finds
somebody to run depends on what the others are doing. `Families` says who there is: init in slot 1 for good, shells whose
parent is init, and for each shell at most one command, which can always run, while the shell awaits it or is about
to; and, where a slot number stands for a parent, that the slot still holds that parent. `ShellOff` adds that a shell
suspended until its command ends does not have the CPU. With these a process that exits is never the
last that can run (`ExitNeverReturns`): its shell has been woken, or init can run, or a
shell's exit wakes init. `NoStrangersExit` and `CommandDoneAtPrompt` are read off them.

`KeyboardProofs` proves `Spec => []KbdInv` for any number of readers. The state of the modifiers alone says too
little: `HeldBehindState` adds that every bit set has a key behind it that is down, which is why the
last one to come up leaves none (`NoStuckModifier`); `RoomLeft` bounds what the types leave open, a slot for the
next key and one for the end of a line. `OnlyWholeLapsLost` is a theorem for one reader (`OneReader`),
as the model has two step over each other: key `n` goes to slot `(n - 1) % Ring`, each slot holds the newest of
its keys, and the reader's index is that of the last key it took, modulo the ring; so what it finds there is the next key or one
whole laps later. `KeyboardImplementsLineEditor` needs only that a line has room, and holds for any number of readers.

`KMallocProofs` proves `Spec => []KIInv`. Types alone are not inductive: a length
stays a natural number only because what is reused was longer than what is asked for, and the order of
extents (`InOrder`) only because a fresh block starts at the end of the last and a reused one
never grows. `BlocksKept` adds that the arena's own header stays and that
what was freed was long enough for its client. `LiveApart` follows by arithmetic
on two blocks in order; `FreesItsOwn` needs `InOrder` to show that the pointer
recorded in one header lies in that block's extent and so in no other's.
`ShortBlocks` is `FreshShortOnlyIfTooClose` for every page and header size: what is missing up to a page
boundary from an address some way up is the same less that way, or a page more where it is too little
(`PadFurther`), so that a room measured at the last header suffices but in the second case.

`FramesProofs` proves `Spec => []FInv`. `OneOwner` and `MappedMarked` need each other: a
frame is granted because it is not marked, so it has no owner yet; a frame is given
back by its only owner. Both depend on fork, during which they hold for all but the
pages that are shared and not copied yet, so `CopyProgress` says how far fork has come: what lies
in tables up to the present one is a copy or still shared, what lies beyond is
empty but for the stack of `new_process`, and the directory names the child's table
where the parent's page is read. `TablesInPlace` says that the
window is closed between two pages and that a running process has its own tables
registered. That the mark of frame 0 can be cleared does no harm to these, as an entry that says frame 0
is none, but it would where fork needs a frame to copy into: `KernelMarked` says that frame 0 is marked
before the first stray, and at every fork, as `new_process` takes the lowest frame for the stack it
makes first (`GrantTakesZero`). `FramesHeapMapped` is about the time before the first stray and adds one fact, that a child
under construction has the first break: a break that grows visits every page from its old place to its new one
(`GrowCovers`), and gets a frame for it that is not frame 0; one that shrinks tamely takes none below its new place
(`TameSpares`). Neither is true after a stray, and the theorem says nothing of it. `FramesImplementAddressSpaces` uses the same invariant for
`Spec => Seen!Spec`: a store reaches one page of one process because its frame has one owner,
`ForkBegin`, `ForkTable` and `ForkPage` are stutters because only free
frames and the child change, and `ForkEnd` is the abstract fork because `CopyProgress` has
then reached every page. `ForkLeavesParent` follows from the same facts about `ForkPage`.

`StdioProofs` proves types, `BlocksApart` and what follows from it. With the number of a bit taken for a block's, that no two files
ever share a block is no consequence of the bitmap alone: a block that is given away may be
in use. It holds if it holds at the start that behind every block of a file lies one that is
marked (`Guarded`, the hypothesis of `BlocksStayApart`). What makes it inductive is that
both are kept for the inode copies of descriptors as well as for the disk: bit `b` is handed out
only when it is clear, so no file has block `b`, as a block of a file has its own number marked,
and marking it makes both facts true of the block just given. Guardedness is a fact about the disk the
machine boots from, which `ext2_alloc` shows to be needed.

From `BlocksApart` follow `FilesReadBack` and `ReadersGetFiles`, on disks that are `Formatted` as well: the bit
of the superblock is marked (a file given bit 0 would be given block 0) and no file has a hole. The disk of the run `files` is
`Guarded` and `Formatted`. `Kept`, that a tame file has a block for each of its characters and contains what it ought
to, is inductive: a write reaches only places in the blocks of the file written, which no other file has
(`OtherFileKept`), and there each character lies at a place of its own (`PlaceInjective`), so what was in front of the
offset stays and what is behind it is the buffer (`WrittenFile`). `GrownSolid` is the arithmetic of `guarantee_inode_size`:
a write `CanDo` allows adds at most the block behind the last one. `ReadersOK` says of a reader at any moment
what it has got and what its buffer holds, in terms of the file and its offset (`ReadSoFar`); `BufferRead` and `FilledRead` are
the two ways `fgetc` moves on. That 255 is no character of a file (`ExtAssumption`) is a limit of `fgetc`, which returns it
for EOF.

`TerminalProofs` proves `Spec => []PageInv`: a screen is whole, its cursor in the window, and the next redraw shows
the page. The last is inductive by itself, once it is said of what the display *will* have after the next redraw
(`Will`) instead of what it has: marking a cell, drawing it and clearing its mark then change nothing, and only what stores
a character or moves the cursor has to be argued about. On the last row a newline redraws before it scrolls, so that what
is drawn is what will be; a wrap does not, hence `lost`. Each function of `vgatext.c` has one lemma that says
what screen it makes, cell by cell, one about the page and one about the text; `WrittenText` puts them together, and
`TerminalKeepsText` is the refinement `Spec => Sheet!Spec`: a printed character is `Put`, `NewLine` or
`Erase`, a clear `Clear`, and blinking, redrawing and escape sequences do not touch the text.
`TerminalTypes` is the rest of `TypeOK`: colours are in the table or -1, whatever parameters an escape sequence has. `Dispatch`
folds `Sgr` over them, and a fold is not for the provers to unfold; but `FoldLeft` is the last value of *some* function that
satisfies its recurrence, and that one exists, for if not there is a least length for which it does not, and
none is least (`MinOf`). That all its values are pens goes the same way, by the first that is not.

`DocSearchProofs` proves `Spec => []DSInv`. The types and `FocusDisplayed` need each other: Left and Right
open and close the row that has the focus, so the set of open rows stays among the rows of the page because the focus is
on one of them. `PopupAnswers` carries what must survive between a change and the search for it: the
page in the frame, or on its way there, is for the value last searched (`Asked`) and, unless the
menu has moved without a search, for the section selected (`InSection`); and that value is the
text's, unless a key has not been seen yet, a timer is set, or the section does not exist (`OfText`).
`SettledAnswersField` follows when nothing is on its way. `UpUndoesDown` needs one assumption on the data,
`RowsTogether`: without it `Nav` would look for the children of a row that is hidden.

`ResultsAreExact` has an invariant of its own: the frame only ever gets pages that `PageFor` chose for a section there is
and a text without leading spaces (`ChosenInv`). It is inductive beside `DSInv`, and what such a page shows is a matter of
`convertToId`, which joins the codes of a text one by one. No code begins another (`CodesDiffer`), so one encoded text begins
another exactly when the text does (`EncodedPrefix`): where two texts first differ, or one ends, so do their encodings,
the codes before being the same (`PartsAgree`). `FlattenSeq` too is recursive, and is opened by least
counterexamples like the fold above. With that the rows shown are those whose name begins with the query
(`RowMatches`), and one that does begins with its first character, whose page this is: no other page of the section has any.

Only model-checked: liveness (`RunnableRuns`, `LineEndsRead`, `ReadLoopEnds`), which needs ENABLED and fairness.

## Not modelled

The nesting of interrupted frames on kernel stacks (`src/src/mt.c:177`) and the shared transfer buffer
of the disk (`src/src/disk.c:30`): both are about two processes inside the driver, which `Ext2fs` leaves out. The
heap of a program (`stdlib.c`: its end is computed in units of four bytes, and its
walk trusts what lies behind the last header), strings, graphics, logging. The boot loader, `mkimg.c` and the
reader of `ext2.c`: sequential, without state of their own. `async.c` is compiled out. Of the documentation,
`dynsections.js` folds sections with no state but the page's, and `jquery.js` is vendored.

## Plan

Done: `Mt` with `ProcSched`, `Userland`, `Keyboard` with `LineEditor`, `KMalloc`, `Frames` with `AddressSpaces`,
`Ext2fs` and `Stdio`, `Terminal` with `Paper`, `DocSearch`, and the proofs of each.

Worth adding, in this order: `KStack`, the kernel stacks of preempted system calls, with 60-byte
frames and 68-byte copies; `DiskWindow`, the shared transfer buffer with two readers; descriptors after
`fork`.
