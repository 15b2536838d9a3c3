# lytlnyblOS in TLA+

lytlnyblOS is a 32-bit x86 teaching kernel: a boot loader, a preemptive round-robin
kernel with user programs in address spaces of their own, a heap in the kernel and one in
the C library, a block file system on an ATA disk, and a shell. This directory models it,
checks the models with TLC and proves part of what they say with TLAPS. All paths below
are relative to `src/lytlnybl/`. The guide (`src/guide`) is the book that explains the
system; it serves as the statement of intent where code and intent disagree.

## 1. The system

| Part | State | Operations | Works with |
|---|---|---|---|
| Processes (`tasks/procman.c`, `scheduler.c`, `context.c`) | list of `process_t`, `current_process`, `next_pid`, tick count of the slice, `tss.esp0` | `create_process`, `destroy_process`, `get_next_process`, `schedule`, `context_switch` | called by every handler; allocates from the kernel heap, loads CR3 |
| Loader (`tasks/loader.c`) | none | `load_program` | file manager, frames, page tables, processes |
| System calls, exceptions (`kernel/interrupts.c`, `.asm`) | trap frames | `syscall_handler`, `isr_handler`, `irq_handler` | all parts |
| Interrupts (`kernel/interrupts.c`, `.asm`) | IDT, the two interrupt controllers, the interrupt flag, the words the stubs push | `idt_init`, `pic_remap`, the stubs, `pic_send_eoi` | every handler runs inside them; a switch replaces the frame they return through |
| Timer (`kernel/drivers/timer.c`) | tick counter | handler; `timer_wait_ms` | wakes sleepers, calls `schedule` |
| Keyboard (`kernel/drivers/keyboard.c`) | modifier keys, the reader's buffer | handler, two keymaps | echoes on the terminal, wakes readers |
| Terminal (`kernel/drivers/vga_text.c`) | text cells, row, column | `writestring`, `writeline`, `backspace`, scrolling | printed on by `kernel_main`, system calls and the echo |
| Frames (`memory/pmm.c`) | bitmap | `init_pmm`, `alloc_frame` (`free_frame` has no caller) | page tables, heaps, loader |
| Page tables (`memory/vmm.c`) | tables in frames, CR3, TLB | `map_page`, `unmap_page`, `get_physical_address`, `set_cr3` | edited at their physical addresses |
| Kernel heap (`memory/heap.c`) | list of block headers, `heap_end` | `kmalloc`, `kfree`, `expand_heap` | frames, page tables |
| User heap (`user/libc/memory.c`) | the same, per program | `malloc`, `free`, `realloc` | `SBRK` |
| File system (`filesystem/fs.c`) | on disk: superblock, bitmap, inodes, directory blocks | allocate, free, read and write blocks, inodes and entries | ATA transfers, each of which can fail |
| File manager (`filesystem/fs_manager.c`) | 16 open files, shared by all | reading of paths; open, close, read, write, touch, mkdir, rm, ls | file system |
| mkfs (`tools/mkfs.c`, on the host) | the disk image | format, `install_directory`, `install_file` | writes what the file system reads, with code of its own |
| Shell and libc (`user/`) | the input array, open descriptors | prompt, read, the tokenizer, seven commands | system calls only |
| ATA (`kernel/drivers/ata.c`) | ports | sector transfers | |
| Boot loader | | | runs before the kernel |

Handlers run behind interrupt gates: a system call, an interrupt or an exception is not
interrupted. `kernel_main` is: it goes on with interrupts enabled as process 1, loading
the shell while the timer may take the processor away. What is hard to get right:

* **order in a switch** - `current_process`, states, CR3, `esp0` and the stack under the
  handler change one after the other, and the process that ends is freed while the
  kernel still stands on its stack;
* **who is woken by what** - timer, key, child's exit and fault all act on states that
  other parts set;
* **one screen for three writers** - `kernel_main` prints with interrupts on, system calls
  with them off, and the keyboard echoes; position and cursor are read and written apart;
* **two programs that must agree on a disk** - `mkfs` and `fs.c` compute places, allocate
  and link entries separately, and `fs_manager.c` reads paths by two different rules;
* **shared tables** - each directory copies the kernel's entries once, tables are edited
  from whatever address space is loaded, and the TLB is flushed by a rule that looks at
  a variable nobody updates;
* **an operation on disk is many transfers**, any of which may fail or be the last;
* **arithmetic at the edges** of blocks, pages, headers and 32-bit numbers;
* **memory that runs out**, since frames are never returned;
* **what is not asked**: whether a file that is written is a file, whether an inode has a
  place in the table, whether there is a slot for the next word.

`PROJECT.json` lists each such place ("hazards") with the properties that would notice.

## 2. Modules

| Module | What it is | State and actions |
|---|---|---|
| `Procman` | processes, scheduler, switch, timer, keyboard, process system calls, `kernel_main` | one variable per kernel variable, `proc` for the fields of `process_t`; one action per handler or system call, each with the `context_switch` it ends in; `boot_*` are the steps of `kernel_main` |
| `ProcmanFairness` | `Procman` with a history of who was dispatched past whom | `passed` |
| `ProcmanProofs` | proofs about `Procman`: scheduling; who waits for whom, on which stack, and for how many turns | |
| `Interrupts` | gates, stubs, controllers and the interrupt flag | `enabled`, `raised`, `served`, and `frames`, the handlers entered and not left; operators that enter and leave a handler |
| `Terminal`, `Text`, `Keyboard` | the text screen; C strings and the shell's tokenizer; scan codes to characters, echo, and the read they serve | pure operators over a terminal, a string, a keyboard state |
| `Console`, `ConsoleMC` | the composition of the four above: `kernel_main` and the test process printing, the shell's loop over system calls, keys, ticks and drive interrupts at any moment | `shell`, `reading` and `call` for the shell, its pending read and the system call in progress; `terminal`, `shift`, `ps2`; `typed` and `echo` are history; an action per interrupt, system call and step of the shell |
| `ConsoleProofs` | proofs about `Console`: handlers, types, what is printed, echoed and executed | |
| `Paging` | frames, tables, TLB and the address spaces made from them | `memory` is what the table in each frame holds; `cached` is everything the TLB may hold; `stray` records an access that missed its frame. Operators `map_page`, `create_uprocess`, ... take and return the machine; the actions are the calls that use them. `loading` is `load_program` as `kernel_main` calls it, one page a step; `raced` is history |
| `PagingProofs` | proofs about `Paging`, as long as frames of the identity mapping last | |
| `HeapBlocks` | the block list both heaps use | pure operators |
| `KernelHeap`, `UserHeap` | the two heaps | `kmalloc`, `kfree`; `malloc`, `free`, `realloc` over `sbrk`; `wrapped` is history |
| `Allocator` | what a heap promises: regions that never overlap or move | abstract |
| `HeapBlocksProofs`, `KernelHeapProofs`, `UserHeapProofs` | lemmas about the list, proofs about the heaps | |
| `FileSystem` | the disk, operation by operation, transfer by transfer | `disk`; an operation is the set of its outcomes over every failure its transfers may have; `clean` and `kept` are history |
| `Layout` | where `fs_format`, `mkfs` and the reading of an inode put the table and the data | constants |
| `DiskImage` | `mkfs` from formatting to the last file of `rootfs`, and the boot from its image into `FileSystem` | `mkfs`: the directories being installed; one action per thing installed |
| `Paths`, `FileSystemMC` | `fs_resolve_path` and `split_path` on every path up to a length | pure operators |
| `FileTree` | what the file system promises: a tree that changes in one place | abstract |
| `FileSystemProofs` | proofs about `FileSystem`, `DiskImage`, `Paths` and `Layout` | |
| `OpenFiles`, `OpenFilesMC` | descriptors, offsets, and the block arithmetic of reading and writing | |
| `ByteFiles` | what programs are promised: files are byte sequences | abstract |
| `OpenFilesProofs` | proofs about `OpenFiles` | |

`FileSystem` implements `FileTree` (`Atomic`), `OpenFiles` implements `ByteFiles`
(`ReadsSeeWrites`), both heaps implement `Allocator` (`KeepsRegionsApart`); `DiskImage`
goes through `FileSystem`'s states, so `Atomic` is checked from every image on. Definitions
whose names end in `_Something` and whose comment says "Broken variant" or "Mutant" are
not part of a model: each is a plausible bug, and swapping it in makes TLC refute the
property it is paired with in `PROJECT.json`.

### What the abstractions leave to each other

* `Procman` treats the load of a program as frames without contents and kernel stacks as
  numbers, handed out first-fit as `find_free_block` does; `Paging` has the frames and
  leaves open who runs next; `KernelHeap` has the bytes.
* Fields `create_process` does not assign keep what memory held. `UninitSizes` is `{0}`:
  fresh RAM is zero under QEMU, and the bytes at that offset of a block used before are
  those of an earlier `process_t` whose size was reset. `UninitPids` contains a live pid,
  since the old pids do remain.
* `create_process` appends to the list with one pointer store, so its interruptible call
  from `kernel_main` is one step; the loop that maps code after it is one step per page,
  in `Procman` and in `Paging`. Under FS_RUN interrupts are off, and all of it is one step.
* A stack is a number in `Procman`: what it holds is left out, and so is `load_context`'s
  write of `user_esp` and `ss` (`context.c:44`). On a switch from a kernel process to a
  program the frame has no such words, and the two go over what the kernel process's stack
  holds above it.
* `Console` has one program besides the two kernel processes, the shell or what it runs, since the
  parent of a running program is blocked (`ParentWaits` of `Procman`); `Procman` has the
  processes and reduces a key to character, Backspace or Enter.
* A switch in `Console` changes `current` and keeps the frame: all frames it could be
  replaced by were saved with interrupts on, or made by `create_process` that way
  (`EFLAGS` 0x202).
* In `Console` the IDT and the vectors of the lines are those the code sets up, and
  text is written a character at a time, so an interrupt comes between two characters
  wherever the flag allows it. Colours and the hardware cursor are left out.
* `FileSystem` has the bytes of files only where they are taken for something else: what a
  write to a directory spells (`Contents`), and the inodes a path through a file may lead
  to (`Bytes` of `Paths`). Both are arbitrary in the proofs. `OpenFiles` has no failing
  transfers and one directory.
  Programs run one at a time and system calls are not interrupted, so operations on the
  disk do not overlap; `kernel_main` makes its own before it loads the shell.
* In `Paging` frame 0 stands for NULL, as it does in the code, and everything stops at
  the first stray access: nothing after it means anything.

### Where the models stop

Some legal sequences of calls leave the program where nothing can be promised. The models
take the step that leads there; a history variable says so, and the properties are about
what comes before. Each such step is a finding of section 6.

* `kept` of `FileSystem`: **a write to a directory**, which neither `fs_open` nor `fs_write`
  refuses and the shell's `write /` performs (finding 8); **an operation on an inode no
  directory leads to**, which a path through the bytes of a file can name, as
  `fs_resolve_path` looks at no type, and a descriptor that outlives its name; **an
  allocation past the table**, when all its inodes are taken, by the kernel
  (`AllocatesBeyond`) or by `mkfs` (`install_beyond`), which is written over data blocks
  (finding 6). What is written in these steps is in the next state, and `DirectoryMaps` is
  about that state; after it nothing is followed (`NotFollowed`).
* `raced` of `Paging`: a program got the processor while `kernel_main` was still mapping its
  code (finding 1). Here everything is followed on, up to a stray access.
* `wrapped` of `UserHeap`: an expansion shorter than a header has wrapped the size of its
  block (finding 5).
* `shell.pc = "spilled"` of `Console`: more words than `tokenize_line` has slots for (finding
  9); `"lost"`: a line that fills the array and is followed by no NUL. The shell takes no
  step after them, everybody else does.

### Assumed of the environment

* In `OpenFiles` programs do not remove a file that is open, and open files only. The
  shell's `cat` and `write` open, use and close within one command; a directory they open
  without being stopped, and that is in `FileSystem`. `fs_rm` does not look at open
  descriptors; it is listed as a hazard.
* Paths contain a slash and are shorter than 256 characters (`Paths`), and the path of a
  program to load resolves (`Procman`, `Paging`); `load_program` does not look at a failed
  open, also listed.
* A disk transfer either does what it should or leaves the disk as it was. Transfers of
  the host under `mkfs` do not fail; running out of blocks, inodes or entries does, and the
  image it then leaves boots.
* `Console` is given what is typed as a set of sessions: the keys available, how many
  come, and how many may come ahead of a read. Its ASSUMEs say that the two arrays a read
  fills (50 and 128 bytes), and what one call of the driver prints (`Texts`), are no longer
  than the screen (2000 cells), and that the cursor's integers count to more than twice
  that. A text longer than the screen would scroll its own beginning away.

## 3. Runs

| Run | Question | Bounds, and why they suffice |
|---|---|---|
| `procman_safety` | Under every interleaving of ticks, keys, faults and calls: one process RUNNING, CR3, `esp0` and stacks always the right ones, blocked parents left alone, buffers respected | 5 pids: `kernel_main`, the test process, the shell and two children, so a child may itself run a program and stacks of the dead are handed out again. Ticks modulo 4, so wake times wrap |
| `procman_fairness` | Nobody is overtaken twice; READY and SLEEPING processes run | the same pids; one-page programs, reads of one character |
| `boot_race`, `orphaned_parent` | two promises of the guide (section 6) | 4 pids, enough for the shell and a child |
| `paging` | address spaces stay apart, the kernel's part of them the same in all; tables stay reachable; no stale TLB entry | 29-entry tables, 29 frames, 2 programs at a time: room for three loads, so frames follow a destroyed program's; the user heap crosses into a second table; programs of 0 and 2 pages, so the shell can run with none of its pages, or one, or both |
| `paging_exhausted` | the same without the bound on memory | 27 frames identity mapped of 32 |
| `file_system` | from every image `mkfs` can make: the disk after every sequence of operations, cut by a power failure anywhere; `mkfs` itself; both readings of every path | 3 blocks, 5 inodes with 4 places, 2 names, 1 entry per block, 2 blocks per inode: directories of two blocks, directories in directories, a full disk, full inode table and full directory all occur, for `mkfs` as well, and the fifth inode lies in the root directory's block. Bytes that become entries spell nothing, or either name for an inode in the middle; 116 539 states. Blocks of 5 with inodes of 2, so inodes do not fill their blocks, as 88 bytes do not fill 512; paths up to 5 characters, i.e. two names with doubled and trailing slashes, and names too long |
| `dangling_entry` | the same with one transfer reporting an error | as above |
| `open_files` | reads return what was written last, through any descriptor | blocks of 2 bytes, 2 per file and on disk, 2 descriptors, reads of 3 bytes: reads and writes start and end inside blocks, cross them, reach the longest file and run out of blocks |
| `kernel_heap` | blocks tile the heap, requests end, regions keep apart | headers of 2, pages of 8, 3 pages; requests of 1, 3, 7 and 10, i.e. exact fits, too small a rest to split, nearly a page, more than a page |
| `user_heap` | the same, and every block in mapped pages, until a size wraps | headers of 2, pages of 8, a heap of up to 21; requests of 1 (less than a header), 2 (a header), 3 and 7; numbers modulo 256 stand for 32-bit ones |
| `console` | handlers never nest and every interrupt is ended once; the screen shows what the pending read holds; the shell executes the line that was typed; a system call's output is on the screen as written | 3 rows of 4, so lines wrap, scroll and are erased across rows; a shell array of 6, two slots for words and lines of up to three of them, a file buffer of 2; keyboard, timer and drive, i.e. both controllers; ten sessions of up to 7 keys: every command, Backspace, Shift, Esc and Tab, extended codes, typing ahead of a read, and the test process printing while keys come; 5.0 million states |

Names are symmetric in the file runs. Bounds that appear in guards: `MaxPid` (no more
processes are created), `MaxEnd` (no longer heaps), `Room` in `Paging` (no call that could
take the last frames below the identity mapping's end, dropped with `MemoryLasts = FALSE`),
`Errors` and `PowerFails`. The superblock's counters are followed only until a transfer
fails, because nothing in the kernel decides by them.

Only `user_heap` has `CHECK_DEADLOCK FALSE`: a program with a size
that wrapped does nothing more there, since its next access may end it. Everywhere else
there is always a next step.

**Fairness.** The only fairness assumed is `WF_vars(timer_handler)`: the PIT raises its
interrupt periodically and no handler keeps interrupts off for ever (`NoSpin` is the part
of that which depends on the code). Programs need never do anything. The liveness
properties allow for the kernel having stopped (`halted`).

**Properties worth a comment.** `HandlersSerial` depends on every stub pushing its words
where `registers_t` expects them: the end of interrupt goes to the line the handler reads
from the stack, and the saved flag is the one `iret` loads. `EchoIsBuffer` relates screen
and buffer across rows: Backspace at the first column looks for a character in the row
above. `LineIsTyped` holds although READ writes no NUL, because the shell cuts the line at
the Enter it stored and clears what it used of the array; it leaves out what section 5
lists. `OutputIntact` is about handlers, and about texts without a newline and not the
digits of a number; what `kernel_main` and the test process print with interrupts on can be
overwritten by an echo, and is. `EchoIsBuffer` leaves out a line during which the test
process prints. `HandlersSerial` is about interrupts and system calls, and exceptions of
programs in their own code: an exception inside a system call, over a pointer the program
passed, nests in the code and is not modelled. `PathsAgree` says that what touch or mkdir makes is
what open and ls then find by the same path. `StackNotReused` is what makes it harmless
that a switch frees the stack it stands on. `Cr3MatchesCurrent` holds although the
keyboard handler always leaves `kernel_directory` loaded: no user process can be
interrupted by a key while another one reads, since a program's parent is blocked in RUN
and not in READ (`ParentWaits`). `TlbCurrent` holds although `current_directory` never
changes: the pages mapped without a flush were never mapped before, and a destroyed
program's are unmapped after CR3 was loaded. `KernelInEverySpace` holds because the kernel
heap's first table exists before the first directory is copied, and frames run out before
it is full.

## 4. Proofs

All theorems hold for every value of the constants the modules' ASSUMEs allow.

* `ProcmanProofs`: `TypeCorrect`, `OneRunningAlways`, `SchedulerNeverSpins`. The
  invariant is `IInv`: types, the list without repetitions whose pids lie below
  `next_pid` and start with the kernel's (which is never destroyed), the current process
  RUNNING and alone in that, and `kernel_main` waiting in no call, so that it is READY
  whenever it is not current - that is why `get_next_process` always finds somebody.
  `NextIsReady`, `UnlinkedOK` and `SwitchOK` say what the search, the removal and the
  switch do; there is one lemma per handler.
* `ProcmanProofs`, second part: `ReadsFit` (no key is stored past a reader's buffer),
  `TrapsLandOnOwnStack`, `StacksNotReused`, and, under the assumption `Cleared`
  (`UninitSizes = {0}`: a fresh `process_t` holds no pending read), `ParentsWait` and
  `Cr3FollowsCurrent`. The invariant `WInv` adds to `IInv` the owner of every kernel stack
  and the fact on which the last two rest and which is written nowhere: the user processes
  form a **chain**, each but the youngest blocked for the next. So no process reads while
  another user process runs, a key is delivered only while the kernel's process has the
  CPU, and the `kernel_directory` it leaves loaded is the right one.
  Last comes `NobodyOvertaken`, i.e. `BoundedOvertaking` for any number of processes.
  `FInv` orders the list by the distance from the current process: whoever got the CPU
  while `p` waited is gone, has it now, or is further away than `p`. The scheduler takes
  the nearest READY process (`NextIsNearest`), and neither an append nor an unlink changes
  an order (`AwayAppend`, `AwayUnlinked`). `StepShape` reduces every action to staying or
  switching.
* `HeapBlocksProofs`: what splitting, allocating, freeing with its merge, and growing do
  to a list of blocks that tiles a heap, and to the set of allocated regions.
* `KernelHeapProofs`: `TilingHolds` (`Tiling` is inductive), `RequestsEndHolds` (after the
  pages `expand_heap` adds, `find_free_block` succeeds, so `kmalloc`'s call of itself is
  the last), and the refinement `KeepsRegionsApartHolds`.
* `UserHeapProofs`: the same and `BlocksMappedHolds`, for requests of every size. The
  invariant `IInv` is `Sane` until a size wraps: it ties the three ends together, the
  library's, the kernel's and that of the mapped pages. `SaneStep` shows that each call
  keeps it unless its own expansion is shorter than a header and follows a block in use
  (`Wraps`), so that wrap is the one way in which blocks stop being mapped. `RequestsEnd` holds
  of the wrapping request as well: the size it makes is long enough for anything (`WrapRoom`).
* `ConsoleProofs`, first part: `HandlersSerialHolds`. What the processor and the stub push is read
  back by `registers_t` at the right places, for every ring, flag and vector (but 21 and 29, for
  which newer processors push a word the stubs do not expect; the kernel turns on nothing
  that raises them, and no action enters them); so each
  handler answers the line it was entered for, returns with the flag it was entered with,
  and nothing is entered while it runs. The other theorems about `Console` rest on it: see
  below.
* `OpenFilesProofs`: `FilesTyped`, `FilesAreBacked` and the refinement
  `ReadsSeeWhatWasWritten` of `ByteFiles`, for every block size, disk, file length, text
  and number of descriptors. The invariant `IInv` adds to types and `FilesBacked` that no
  two names have one inode (`OneName`), without which a write through one would reach the
  bytes of the other, and that a descriptor in use is at a place inside a file that has a
  name (`Placed`), without which a write could leave a gap of old bytes behind the end.
* `PagingProofs`: see below.
* `FileSystemProofs`: see below; and `TableApart` (inodes below `Capacity` lie before the
  data blocks, for every block and inode size) and `RootBlockHoldsInodes` (with the code's
  numbers inode 110 lies in the block of the root directory).

### The console

`ConsoleTypes`, `OutputStaysIntact`, `EchoStaysBuffer` and `LineStaysTyped` hold for every
screen, every length of the two arrays, every text and every session of keys. Nothing is
assumed but what section 2 says of sizes.

* **Types.** `Typed` says of each part what the others need of it: the cursor's row may
  for a moment lie outside the screen and its column wrap (`Screen`), a print in progress is
  inside its text (`PrintTyped`), a call is handled with interrupts off and belongs to the
  process that runs (`CallTyped`), and a pending read has room for one more character
  and its process is blocked (`ReadingTyped`). `TypeOK` is one consequence: no key is stored
  behind the reader's array. That the cursor is on the screen is not part of it.
* **Output.** `Intact`: the characters a call has printed stand behind the cell where it
  began, and the cursor behind them. Only the handler that prints writes cells while it
  does, because of `HandlersSerial`; `kernel_main`, which prints with interrupts on, is not
  part of the claim.
* **Echo.** `EchoInv`: the read's `n` characters stand in the `n` cells from the line's start
  on, modulo the screen's size, **with the cursor behind them** (`Stands`). The cursor is
  what makes it inductive: Backspace at the first column walks back over the row above, and
  has to end on the cell of the last character. It does, since that cell holds no blank;
  a blank there is erased together with what stands before it, which is the case
  `InStep` leaves out. The array is no longer than the screen, so the line never meets its
  own start.
* **The line.** `ReadInv` and `ShellInv` follow the line through the system call: what was
  typed is what the write command already had, followed by as many bytes of the array as
  the read has stored (`Joined`); an array that is still clean has a NUL in every place
  behind those and in none of them; and what the shell cuts off at the Enter is therefore
  the line. Last comes the tokenizer: it is a recursive function of the place in the
  line, and `TokensAreWords` proves, by induction from the line's end, that its words
  are all the maximal runs of non-blanks (`Spans`) and that they come in order. That is
  said of a line the tokenizer has slots for: the shell comes to the command with no other,
  and TLC refutes `WordsHaveSlots`, which would be that no other occurs (finding 9).

The loops of the driver and of C strings (the search for a NUL, the walk over blanks) are
unfolded in the same way as those of the file system: existence of the recursive function
first, then induction over its bound.

### The file system

`ImageTyped`, `BlocksStayExclusive`, `NamedOnce`, `CountKeepsItsDistance` and the
refinement `OnePlaceAtMost` (`Atomic`) hold of every number of blocks, inodes, names,
entries to a block and blocks to an inode, and for tables with and without room for all
inodes, the code's own (110 places, 128 inodes) among them; from every image `mkfs` makes
on. They say what holds **until the disk is not kept**: until a program writes to a
directory, an operation is made on an inode that no directory leads to, or an inode past the
table is taken (section 2). Nothing is assumed of what such bytes spell. All assume
`Reliable`: **no transfer reports an error** (`Errors = 0`), as in the run `file_system`;
the power may still go before any transfer. With an error allowed TLC refutes
`NoDanglingEntry` (finding 4), on which the rest depends. `ImageInOrder` proves the
invariant, `KeptInOrder`: the disk is in order while it is kept.

The properties speak of what paths lead to, and that is not inductive: after a loss of
power there are inodes in use that nothing names, whose blocks are marked or already
cleared. The invariant `DiskInOrder` is therefore about **some set `L` of inodes**, the
members: in use, the root among them, closed under the entries of their directories.
Members list only marked blocks, no block twice, and without a hole (`Listed`); every
member but the root is named at most once (`NamesOnce`), no directory has a name twice
(`NamesDiffer`), and only directories have entries (`OnlyDirectories`). What lies outside
`L` is lost and harmless. On the host, `Host` adds that members are behind `mkfs.next`,
that unmarked blocks are empty, and that paths lead to the directories being copied.

The argument:

1. Each operation of the code that can end early is described by what its outcomes say of
   the disk (`AllocBlock`, `FreeBlock`, `TransferIs`, ... - a value, a failure, or a disk
   without power). The loops over blocks and entries are recursive functions: that one
   with the recursion's value exists is proved by induction over its bound, after which it
   can be unfolded.
2. Seen from `L`, every outcome leaves the members as they are (`Unchanged`), adds one
   entry that names a new member (`Joined`), or takes one entry and its member away
   (`Removed`). The order of the code's writes decides which: an entry is written after
   the inode it names and removed before that inode is freed.
3. `Resolved` looks `NInodes - 1` levels deep. By the pigeonhole principle that is enough:
   a path to a member passes no inode twice, since each is named once (`ResolvedOnward`).
   So the paths after a step are those before, with one added or with one and everything
   below it removed (`TreeUnchanged`, `TreeJoined`, `TreeRemoved`), which are the steps of
   `FileTree`.

`PathsStayAgreed` states `PathsAgree` for **paths of every length**, with doubled and
trailing slashes and names too long. The walk of `fs_resolve_path` is a recursive function
of the place in the path (`Walk`); by induction over it, a prefix of the path is read the
same way whatever follows, and from the last slash on, where `split_path` cuts, the walk
only collects the characters of the last name. Where the walk goes through a file it reads
bytes as entries (`Bytes`, any), and both readings read the same. The invariant gives the
rest: a directory has no name twice, so what is entered under a name is what is found by it.

### Address spaces

`StaysTyped`, `StaysIsolated`, `KernelStaysShared`, `TablesStayReachable`,
`TlbStaysCurrent`, `HeapStaysMapped`, `StoresAlwaysReach` and the action property
`NothingMoves` hold for every number of frames and programs, every table size and every
memory map, **until a program runs whose code `kernel_main` is still mapping** (`raced`).
Until then only the kernel's processes run while the loader is at work. TLC refutes
`LoaderReaches`, which is `StoresReach` without that condition (finding 1). All assume
`MemoryLasts`: **no call starts with fewer frames left below the end of the identity mapping
than it may take**, as in the run `paging`; without it TLC refutes `StoresReach` (finding
3). The ASSUMEs ask of the constants what `mappings.h` and `init_pmm` give: the code ends
before the user heap begins (files have at most 20 blocks, 3 pages, and the two are 1536
pages apart), a table's worth of heap ends before the stack, the kernel heap begins where an
entry of a directory does, and four frames of the identity mapping are free at boot. "A
table's worth" is what makes `MemoryLasts` a bound on every region: each page takes a frame
of the identity mapping, which one table maps.

In the invariant `IInv` **every frame has one role**: some `R` makes each frame one
directory's table for one entry (`Tab`), one page of one directory (`Page`), a directory
(`Dir`), NULL or the kernel's image (`Other`), or nobody's (`Free`); a frame not in the bitmap
is free (`Reserved`). `Spaces` says that directories and tables agree with `R`:

* each directory has the kernel's entries, which are those of the identity table and of the
  kernel heap (`Shared`); the identity table lacks only directories that nobody uses any
  more, which `destroy_process` unmaps (`Identity`);
* every other table is one directory's and lies within the identity mapping, and each of
  its entries leads to the frame of that page, with the user bit of the directory
  (`OwnTables`).

`Sound` adds that the TLB agrees with the tables, and `Good` what the processes hold: one
directory each, stack and heap mapped as `process_t` counts them and nothing beside them but
code, and the kernel heap's pages up to its end, which together with the frames left fit
into its one table. That bound is why a directory copied at a program's creation still sees
every kernel page later. `Loader` says how far `kernel_main` has come: its program is the
only one, and has the pages before the next one. `Isolated` follows since a frame has one role; it is not inductive
itself, because it says nothing of where a store to a table goes.

The argument: a store through an identity mapped address reaches its frame (`Reached`), so
each page-table operation changes one table; giving a free frame a role disturbs no other
(`TableAdded`, `PageAdded`), and `Kept`, `Grows` and `Maps` carry the rest. The loops of
sbrk, `expand_heap` and `load_program` are recursive functions: `Series` proves, by
induction over their number, which pages are mapped and that at most one frame for each page
and each table is taken. One lemma per action (`BootStep`, `PageStep`, `RunStep`,
`SbrkStep`, `SwitchStep`, `ExitStep`) then shows `Good` and that nothing moved.

### Only model-checked

Liveness (`EveryReadyRuns`, `SleeperWakes`) is outside the prover's reach. Every invariant
and every other action property and refinement that a passing run checks is proved. What
the runs add to the proofs is that the assumptions can be met and the interesting states
reached.

One defect the runs could not show came up in a proof. The guards of three CASE expressions
(the delivery of a key in `Keyboard` and `Procman`, the opening of a file in `Console`)
overlapped. TLC takes the first that holds, as the code does, but in TLA+ the choice
is open, so the theorems would have been about an arbitrary one. They are nested
conditions now, in the order of the code.

## 5. Not modelled

* The boot loader: nothing it sets changes later.
* ATA port protocol: the driver polls without a limit; a transfer is done or reports an
  error. `kernel_main`'s tests of the drive and the file system before the shell; one of
  them (`kernel_main.c:78`) writes sector 50, which lies in the kernel's image on the disk.
* `fs_ls` beyond the path it reads, number formatting, memory and string copies, `test.c`.
* Colours and the blinking cursor.
* `src/blog_playground`: snapshots of earlier stages of the same kernel, four fifths of the
  repository's code. The modules map three fifths of the lines under `src/lytlnybl`.
  `src/guide`: text.
* Out-of-bounds reads and writes whose result depends on the kernel's memory layout: the
  descriptor -1 in `load_program`, paths without a slash in `split_path`, names over the
  size of their buffers.
* What follows after the steps section 2 lists under "Where the models stop". An exception
  inside a system call or an interrupt handler. What the stacks of processes hold.
* Three things `Console` models and its properties leave out. `pos` does not follow a
  newline inside a string (`vga_text.c:66`), so a text of two lines prints one over the
  other (`OutputIntact`). A first line on a stack that was not zero, or one that fills the
  array, is followed by what lies behind it, and trailing blanks count as a word
  (`shell.c:15`, `shell.c:161`; `LineIsTyped`). Keys typed before READ is called are echoed
  and lost (`EchoIsBuffer` speaks of pending reads).
* Descriptors of ended programs. Only `load_program`'s failure path leaks one, which
  nobody uses again.

## 6. Where code and intent part

Each has a run that finds it, or whose properties say where they end. For four of the latter
a definition states what the code does not keep, without the condition: `LoaderReaches`
(`Paging`), `ExpansionsMapped` (`UserHeap`), `DirectoryMaps` (`FileSystem`) and
`WordsHaveSlots` (`Console`). No run lists them; put in the place of the invariants of
`Paging.cfg`, `UserHeap.cfg`, `FileSystem.cfg` and `Console.cfg`, TLC refutes each.

1. `boot_race`: `load_program` lists the shell before mapping it; a tick in between ends
   with the kernel halted, while the guide says that a program's exception never does. In
   `Paging` the same is a store that misses: the shell that ran too early has been destroyed,
   and its directory taken out of the identity mapping, when the loader maps the next page
   into it (`LoaderReaches`; `vmm.c:37` again).
2. `orphaned_parent`: a child that faults leaves its parent BLOCKED for good.
3. `paging_exhausted`: frames are never freed; after enough programs (about 130 with the
   usual 4 MB mapping) a table or code frame lies above it, and the kernel, writing to that
   address from inside a system call, writes into the caller's own code. `vmm.c:37` states
   the requirement that is broken.
4. `dangling_entry`: an error after the entry was written leaves the name on a free inode;
   the next creation makes two names share it.
5. `user_heap`: `malloc` of fewer than 12 bytes, when it has to grow the heap behind a
   block in use, wraps the size of the new block. The shell asks for as little for each
   word it reads (`shell.c:182`). The properties hold until then; `ExpansionsMapped` does not.
6. `file_system`: `inode_blocks` divides the bytes of all inodes by the block size, but an
   inode does not cross blocks. 22 blocks are reserved where 26 are used: inodes 110 to 127
   overlay the first data blocks, the root directory's among them. The run has such a disk,
   and its properties hold until one of these inodes is taken; `RootBlockHoldsInodes` proves
   the overlap of the code's numbers.
7. `file_system`: `mkfs` looks for the block around the root inode without
   `FS_START_BLOCK`, and so copies bytes of the kernel into the inode table; and it
   allocates inodes without counting them. The image then has inodes that are neither
   free nor used, and `free_inodes` is off by a constant from boot on (`InodesCounted`
   states the constant).
8. `file_system`: `open` and `write` take a directory as they take a file, so `write /` in
   the shell puts text where the root's entries were; names then lead to inodes that are
   free, or to none, and what was there is lost. The guide calls a directory a mapping
   between a filename and its inode. The properties hold until then; `DirectoryMaps` does
   not.
9. `console`: `tokenize_line` has slots for nine words and stores as many as there are,
   before anybody looks at the count; its comment speaks of a limit of 8.
   `LineIsTyped` is about the lines that fit; `WordsHaveSlots` fails.

## 7. Plan

Written in this order: `Procman` (everything else runs inside its steps), the heaps with
their proofs, `FileSystem` and `OpenFiles`, `Paging`; then `Console` with the modules under
it, `DiskImage`, `Layout` and `Paths`, and the proofs about `Procman`, files, `Paging` and
`Console`. What is left:

1. `OpenFiles` without the assumption on open files: what a stale descriptor can reach, and
   descriptors of ended programs, composed with `Procman`'s processes.
2. The ATA ports: a drive that never answers, and the drive's interrupts while a
   transfer polls.
