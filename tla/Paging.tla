------------------------------- MODULE Paging -------------------------------
(* Physical frames (memory/pmm.c), page tables (memory/vmm.c) and the address  *)
(* spaces create_uprocess, load_program, sbrk, expand_heap and destroy_process *)
(* build from them.  A virtual address is its page number.  The kernel reaches *)
(* a directory or a table at the virtual address equal to its physical one, so *)
(* every access to one is checked against the tables the processor is using.   *)
(* Who runs next is left open here; Procman decides it.                        *)
EXTENDS Integers, FiniteSets, FiniteSetsExt

CONSTANTS
  NFrames,        \* total_frames
  Usable,         \* the frames of the firmware's usable regions
  Held,           \* kernel, bitmap, boot loader and video frames
  TableSize,      \* entries of a table or a directory, 1024
  USER_CODE_BASE, USER_HEAP_START, USER_VGA, USER_STACK, HEAP_START,
  Programs,       \* user processes alive at the same time, at most
  CodePages,      \* sizes of a program, in pages
  KernelGrowth,   \* pages one kmalloc of create_process may add
  HeapGrowth,     \* pages one sbrk may add
  MemoryLasts     \* no call once fewer frames than it may take are left below
                  \* the end of the identity mapping (a bound of the model)

Frames == 0 .. NFrames - 1

ASSUME PagingAssumption ==
  /\ NFrames \in Nat \ {0} /\ TableSize \in Nat \ {0} /\ TableSize <= NFrames
  /\ Usable \subseteq Frames /\ Held \subseteq Frames
  /\ {USER_CODE_BASE, USER_HEAP_START, USER_VGA, USER_STACK, HEAP_START} \subseteq Nat
  /\ TableSize <= USER_CODE_BASE /\ USER_CODE_BASE < USER_HEAP_START
  /\ USER_HEAP_START < USER_STACK /\ USER_STACK < HEAP_START
  /\ HEAP_START % TableSize = 0
  /\ CodePages \subseteq Nat /\ KernelGrowth \subseteq Nat /\ HeapGrowth \subseteq Nat
  /\ MemoryLasts \in BOOLEAN

(* The user's regions are further apart than a process can fill, all pages are *)
(* in reach of a directory, and init_pmm leaves the frames that init_vmm and   *)
(* init_heap take, all identity mapped.                                        *)
ASSUME RegionsAssumption ==
  /\ \A pages \in CodePages : USER_CODE_BASE + pages <= USER_HEAP_START
  /\ USER_HEAP_START + TableSize <= USER_STACK
  /\ TableSize <= USER_VGA /\ USER_VGA < HEAP_START /\ HEAP_START < TableSize * TableSize
  /\ Cardinality({f \in Usable \ (Held \cup {0}) : f < TableSize}) >= 4

VARIABLES
  bitmap,   \* the frames marked reserved
  memory,   \* per frame, the present entries of the table it holds
  cr3,      \* the directory the processor translates with
  cached,   \* the translations the TLB may hold
  stray,    \* an access to a frame missed it; nothing is modelled after that
  heapEnd,  \* heap_end, the page after the kernel heap
  process,  \* process_t of each program: its directory and heap_pages_allocated
  current,  \* current_process; Kernel for every kernel process
  loading,  \* load_program in kernel_main: the process it made, the next code
            \* page and how many are left
  raced     \* the processor was given to a program before all its code was
            \* there: a history variable, by which the claims are limited

vars == <<bitmap, memory, cr3, cached, stray, heapEnd, process, current, loading, raced>>

(* What the kernel code below works on: the machine without the processes. *)
Machine == [bitmap |-> bitmap, memory |-> memory, cr3 |-> cr3,
            cached |-> cached, stray |-> stray]

Become(m) == /\ bitmap' = m.bitmap /\ memory' = m.memory /\ cr3' = m.cr3
             /\ cached' = m.cached /\ stray' = m.stray

Kernel == "kernel"
ASSUME ProgramsAssumption == Kernel \notin Programs

NotLoading == [program |-> Kernel, directory |-> 0, next |-> 0, left |-> 0]

Dead == [alive |-> FALSE, page_directory |-> 0, heap_pages_allocated |-> 0]
Alive == {p \in Programs : process[p].alive}

-----------------------------------------------------------------------------
(* The walk the processor does. *)
NoEntries == <<>>
DirectoryIndex(v) == v \div TableSize
TableIndex(v) == v % TableSize
Entry(frame, user) == [frame |-> frame, user |-> user]

(* A table after one of its entries was written. *)
With(entries, i, entry) ==
  [j \in DOMAIN entries \cup {i} |-> IF j = i THEN entry ELSE entries[j]]

Table(mem, d, v) == mem[d][DirectoryIndex(v)].frame
Mapped(mem, d, v) == /\ DirectoryIndex(v) \in DOMAIN mem[d]
                     /\ TableIndex(v) \in DOMAIN mem[Table(mem, d, v)]
FrameOf(mem, d, v) == mem[Table(mem, d, v)][TableIndex(v)].frame
UserPage(mem, d, v) == /\ Mapped(mem, d, v)
                       /\ mem[d][DirectoryIndex(v)].user
                       /\ mem[Table(mem, d, v)][TableIndex(v)].user

MappedPages(mem, d) ==
  UNION {{i * TableSize + j : j \in DOMAIN mem[mem[d][i].frame]} : i \in DOMAIN mem[d]}
Translations(mem, d) == {<<v, FrameOf(mem, d, v)>> : v \in MappedPages(mem, d)}

(* Every instruction may bring a translation into the TLB. *)
Cache(m) == [m EXCEPT !.cached = @ \cup Translations(m.memory, m.cr3)]

(* An access of the kernel to frame f at the address f. *)
Reaches(m, f) == Mapped(m.memory, m.cr3, f) /\ FrameOf(m.memory, m.cr3, f) = f
Access(m, f) == [m EXCEPT !.stray = @ \/ ~Reaches(m, f)]
Store(m, f, entries) == [Access(m, f) EXCEPT !.memory[f] = entries]

set_cr3(m, d) == [m EXCEPT !.cr3 = d, !.cached = Translations(m.memory, d)]

kernel_directory == Min(Usable \ (Held \cup {0}))

(* Mutant: no mapping is flushed. *)
Flush_Never(m, d, v) == m

(* map_page and unmap_page flush when the directory is current_directory, and *)
(* nothing sets that variable after init_vmm.                                 *)
Flush(m, d, v) ==
  IF d = kernel_directory
  THEN [m EXCEPT !.cached = {c \in @ : c[1] # v}]
  ELSE m

-----------------------------------------------------------------------------
(* memory/pmm.c; frame 0 stands for NULL. *)
FirstFree(m) == IF Frames \subseteq m.bitmap THEN 0 ELSE Min(Frames \ m.bitmap)
alloc_frame(m) == [m EXCEPT !.bitmap = @ \cup {FirstFree(m)}]

(* memory/vmm.c *)
create_page_table(m, d, i, user) ==
  LET t == FirstFree(m)
      zeroed == Store(alloc_frame(m), t, NoEntries)
  IN Store(zeroed, d, With(zeroed.memory[d], i, Entry(t, user)))

(* Mutant: the directory entry is not looked at, each page gets a new table. *)
map_page_NewTable(m, d, v, f, user) ==
  LET i == DirectoryIndex(v)
      n == create_page_table(m, d, i, user)
      t == n.memory[d][i].frame
  IN Cache(Flush(Store(n, t, With(n.memory[t], TableIndex(v), Entry(f, user))), d, v))

map_page(m, d, v, f, user) ==
  LET i == DirectoryIndex(v)
      n == IF i \in DOMAIN m.memory[d] THEN Access(m, d)
           ELSE create_page_table(m, d, i, user)
      t == n.memory[d][i].frame
  IN Cache(Flush(Store(n, t, With(n.memory[t], TableIndex(v), Entry(f, user))), d, v))

(* A directory entry that is not present sends the write to frame 0, where *)
(* nothing this module follows is kept.                                    *)
unmap_page(m, d, v) ==
  LET t == Table(m.memory, d, v)
  IN IF DirectoryIndex(v) \notin DOMAIN m.memory[d]
     THEN Access(m, d)
     ELSE Flush(Store(Access(m, d), t, [j \in DOMAIN m.memory[t] \ {TableIndex(v)} |-> m.memory[t][j]]), d, v)

(* Zero stands for what it reads when the page is not there. *)
get_physical_address(m, d, v) ==
  IF Mapped(m.memory, d, v) THEN FrameOf(m.memory, d, v) ELSE 0

-----------------------------------------------------------------------------
MapFresh(m, d, v, user) == map_page(alloc_frame(m), d, v, FirstFree(m), user)

MapPages(m, d, first, n, user) ==
  LET done[i \in 0 .. n] ==
        IF i = 0 THEN m ELSE MapFresh(done[i - 1], d, first + i - 1, user)
  IN done[n]

(* memory/heap.c: the pages expand_heap adds, seen from this side. *)
expand_heap(m, n) == MapPages(m, kernel_directory, heapEnd, n, FALSE)

(* Mutant: the directory of the caller is copied, not the kernel's. *)
create_uprocess_OfCaller(m) ==
  LET d == FirstFree(m)
      zeroed == Store(alloc_frame(m), d, NoEntries)
      copied == Store(zeroed, d, zeroed.memory[m.cr3])
      stacked == MapFresh(copied, d, USER_STACK, TRUE)
  IN MapFresh(stacked, d, USER_HEAP_START, TRUE)

(* Mutant: only the identity mapping is copied. *)
create_uprocess_Identity(m) ==
  LET d == FirstFree(m)
      copied == Store(alloc_frame(m), d, With(NoEntries, 0, m.memory[kernel_directory][0]))
      stacked == MapFresh(copied, d, USER_STACK, TRUE)
  IN MapFresh(stacked, d, USER_HEAP_START, TRUE)

create_uprocess(m) ==
  LET d == FirstFree(m)
      zeroed == Store(alloc_frame(m), d, NoEntries)
      copied == Store(zeroed, d, zeroed.memory[kernel_directory])
      stacked == MapFresh(copied, d, USER_STACK, TRUE)
  IN MapFresh(stacked, d, USER_HEAP_START, TRUE)

LoadPage(m, d, v) ==
  map_page(Access(alloc_frame(m), FirstFree(m)), d, v, FirstFree(m), TRUE)

LoadPages(m, d, n) ==
  LET done[i \in 0 .. n] ==
        IF i = 0 THEN m ELSE LoadPage(done[i - 1], d, USER_CODE_BASE + i - 1)
  IN done[n]

(* Mutant: the frame of the directory is freed as well. *)
Unmapped_Freed(m, p) ==
  LET d == process[p].page_directory
      stack == unmap_page(m, d, USER_STACK)
      code == unmap_page(stack, d, USER_CODE_BASE)
      vga == unmap_page(code, d, USER_VGA)
  IN [unmap_page(vga, kernel_directory, d) EXCEPT !.bitmap = @ \ {d}]

(* Mutant: the directory goes first. *)
Unmapped_DirectoryFirst(m, p) ==
  LET d == process[p].page_directory
      own == unmap_page(m, kernel_directory, d)
      stack == unmap_page(own, d, USER_STACK)
      code == unmap_page(stack, d, USER_CODE_BASE)
  IN unmap_page(code, d, USER_VGA)

(* What destroy_process does to the address space of p. *)
Unmapped(m, p) ==
  LET d == process[p].page_directory
      stack == unmap_page(m, d, USER_STACK)
      code == unmap_page(stack, d, USER_CODE_BASE)
      vga == unmap_page(code, d, USER_VGA)
  IN unmap_page(vga, kernel_directory, d)

-----------------------------------------------------------------------------
init_pmm ==
  [bitmap |-> (Frames \ Usable) \cup Held \cup {0}, memory |-> [f \in Frames |-> NoEntries],
   cr3 |-> kernel_directory, cached |-> {}, stray |-> FALSE]

(* Paging is off here: the two tables are written where they are. *)
init_vmm ==
  LET one == alloc_frame(init_pmm)
      table == FirstFree(one)
      two == alloc_frame(one)
      identity == [i \in 0 .. TableSize - 1 |-> Entry(i, FALSE)]
      written == [two EXCEPT !.memory =
                    [@ EXCEPT ![kernel_directory] = With(NoEntries, 0, Entry(table, FALSE)),
                              ![table] = identity]]
  IN set_cr3(written, kernel_directory)

init_heap == MapFresh(init_vmm, kernel_directory, HEAP_START, FALSE)

-----------------------------------------------------------------------------
(* The frames a call may take, all below the end of the identity mapping. *)
Room(n) == MemoryLasts => Cardinality((0 .. TableSize - 1) \ bitmap) >= n

SwitchMachine(m, procs, p) ==
  set_cr3(m, IF p = Kernel THEN kernel_directory
             ELSE get_physical_address(m, kernel_directory, procs[p].page_directory))

(* context_switch: a tick, a yield, or a call that blocks. *)
context_switch(p) ==
  /\ p \in Alive \cup {Kernel}
  /\ Become(SwitchMachine(Machine, process, p))
  /\ current' = p
  /\ UNCHANGED <<heapEnd, process, loading>>

(* Mutant: current_process is not assigned. *)
sys_exit_SameCurrent(p) ==
  /\ current # Kernel
  /\ p \in (Alive \cup {Kernel}) \ {current}
  /\ Become(Unmapped(SwitchMachine(Machine, process, p), current))
  /\ process' = [process EXCEPT ![current] = Dead]
  /\ UNCHANGED <<heapEnd, current, loading>>

(* sys_exit, or isr_handler for a program that faults: context_switch loads *)
(* the next directory, then destroys the old process.                       *)
sys_exit(p) ==
  /\ current # Kernel
  /\ p \in (Alive \cup {Kernel}) \ {current}
  /\ Become(Unmapped(SwitchMachine(Machine, process, p), current))
  /\ process' = [process EXCEPT ![current] = Dead]
  /\ current' = p
  /\ UNCHANGED <<heapEnd, loading>>

(* load_program: the kernel heap may grow for process_t and its stack, then  *)
(* the address space is built and the code copied into it, page by page.     *)
Grown(growth) == expand_heap(Machine, growth)
Loaded(growth, pages) ==
  LoadPages(create_uprocess(Grown(growth)), FirstFree(Grown(growth)), pages)
Listed(p, growth) ==
  [process EXCEPT ![p] = [alive |-> TRUE, page_directory |-> FirstFree(Grown(growth)),
                          heap_pages_allocated |-> 1]]

(* kernel_main loads the shell with interrupts on: the process is listed, and *)
(* may be given the processor, before its code is there.                      *)
boot_load(p, growth, pages) ==
  /\ bitmap = init_heap.bitmap
  /\ Room(growth + 7)
  /\ Become(Loaded(growth, 0))
  /\ process' = Listed(p, growth)
  /\ heapEnd' = heapEnd + growth
  /\ loading' = IF pages = 0 THEN NotLoading
                ELSE [program |-> p, directory |-> FirstFree(Grown(growth)),
                      next |-> USER_CODE_BASE, left |-> pages]
  /\ UNCHANGED current

(* One turn of its loop, in the directory process_t had, destroyed or not. *)
boot_page ==
  /\ current = Kernel /\ loading.left > 0
  /\ Room(2)
  /\ Become(LoadPage(Machine, loading.directory, loading.next))
  /\ loading' = IF loading.left = 1 THEN NotLoading
                ELSE [loading EXCEPT !.next = @ + 1, !.left = @ - 1]
  /\ UNCHANGED <<heapEnd, process, current>>

(* FS_RUN, with interrupts off: the caller blocks, so another process goes on. *)
sys_run(p, growth, pages, next) ==
  /\ current # Kernel /\ p \notin Alive
  /\ Room(growth + pages + 7)
  /\ next \in (Alive \cup {Kernel, p}) \ {current}
  /\ process' = Listed(p, growth)
  /\ Become(SwitchMachine(Loaded(growth, pages), Listed(p, growth), next))
  /\ heapEnd' = heapEnd + growth
  /\ current' = next
  /\ UNCHANGED loading

(* Mutant: heap_pages_allocated is incremented before it is used. *)
sys_sbrk_PreIncrement(pages) ==
  /\ current # Kernel
  /\ Room(pages + 1)
  /\ LET self == process[current]
     IN Become(MapPages(Machine, self.page_directory,
                        USER_HEAP_START + self.heap_pages_allocated + 1, pages, TRUE))
  /\ process' = [process EXCEPT ![current].heap_pages_allocated = @ + pages]
  /\ UNCHANGED <<heapEnd, current, loading>>

sys_sbrk(pages) ==
  /\ current # Kernel
  /\ Room(pages + 1)
  /\ LET self == process[current]
     IN Become(MapPages(Machine, self.page_directory,
                        USER_HEAP_START + self.heap_pages_allocated, pages, TRUE))
  /\ process' = [process EXCEPT ![current].heap_pages_allocated = @ + pages]
  /\ UNCHANGED <<heapEnd, current, loading>>

-----------------------------------------------------------------------------
Init ==
  /\ bitmap = init_heap.bitmap /\ memory = init_heap.memory /\ cr3 = init_heap.cr3
  /\ cached = init_heap.cached /\ stray = init_heap.stray
  /\ heapEnd = HEAP_START + 1
  /\ process = [p \in Programs |-> Dead]
  /\ current = Kernel
  /\ loading = NotLoading
  /\ raced = FALSE

(* After an access that missed. *)
Astray == stray /\ UNCHANGED vars

Running ==
  /\ ~stray
  /\ \/ \E p \in Programs \cup {Kernel} : context_switch(p) \/ sys_exit(p)
     \/ \E p \in Programs, growth \in KernelGrowth, pages \in CodePages :
          \/ boot_load(p, growth, pages)
          \/ \E next \in Programs \cup {Kernel} : sys_run(p, growth, pages, next)
     \/ boot_page
     \/ \E pages \in HeapGrowth : sys_sbrk(pages)
  /\ raced' = (raced \/ (loading.left > 0 /\ current' = loading.program))

Next == Running \/ Astray

Spec == Init /\ [][Next]_vars
-----------------------------------------------------------------------------
UserPages(p) == LET d == process[p].page_directory
                IN {v \in MappedPages(memory, d) : UserPage(memory, d, v)}
UserFrame(p, v) == FrameOf(memory, process[p].page_directory, v)

TablesOf(d) == {d} \cup {memory[d][i].frame : i \in DOMAIN memory[d]}
Tables == TablesOf(kernel_directory)
          \cup UNION {TablesOf(process[p].page_directory) : p \in Alive}
KernelHeapFrames == {FrameOf(memory, kernel_directory, v) : v \in HEAP_START .. heapEnd - 1}

(* Every frame number, page number and table entry is in range. *)
TypeOK ==
  /\ raced \in BOOLEAN
  /\ ~raced =>
       /\ bitmap \subseteq Frames /\ cr3 \in Frames /\ stray \in BOOLEAN
       /\ \A f \in Frames : \A i \in DOMAIN memory[f] :
            i \in 0 .. TableSize - 1 /\ memory[f][i].frame \in Frames
       /\ heapEnd \in Nat /\ current \in Alive \cup {Kernel}
       /\ process \in [Programs -> [alive : BOOLEAN, page_directory : Frames,
                                    heap_pages_allocated : Nat]]
       /\ loading \in [program : Programs \cup {Kernel}, directory : Frames,
                        next : Nat, left : Nat]

(* A frame a program can touch backs one page of one program, holds no table *)
(* and no kernel memory, and is out of alloc_frame's reach.                  *)
Isolated ==
  ~raced => \A p \in Alive : \A v \in UserPages(p) :
    /\ UserFrame(p, v) \in bitmap \ (Held \cup Tables \cup KernelHeapFrames \cup {0})
    /\ \A q \in Alive : \A w \in UserPages(q) :
         UserFrame(p, v) = UserFrame(q, w) => p = q /\ v = w

(* Interrupts and system calls run in the address space of whatever program  *)
(* was going on, so the kernel's pages are the same in every one of them and *)
(* closed to the program, although the directories were copied at different  *)
(* times and the kernel heap has grown since.                                *)
KernelInEverySpace ==
  ~raced => \A p \in Alive : \A v \in MappedPages(memory, kernel_directory) :
    LET d == process[p].page_directory
    IN /\ Mapped(memory, d, v) /\ ~UserPage(memory, d, v)
       /\ FrameOf(memory, d, v) = FrameOf(memory, kernel_directory, v)

(* The directories and tables of the living can be edited and walked at their *)
(* own addresses: no destroy_process took one of them out of the identity     *)
(* mapping.                                                                   *)
TablesReachable ==
  ~raced => \A f \in Tables : /\ Mapped(memory, kernel_directory, f)
                              /\ FrameOf(memory, kernel_directory, f) = f

(* The TLB never holds a translation that the tables no longer say. *)
TlbCurrent == ~raced => cached \subseteq Translations(memory, cr3)

(* The stack and every heap page sbrk counted are there, for the program. *)
HeapMapped ==
  ~raced => \A p \in Alive :
    {USER_STACK} \cup USER_HEAP_START .. USER_HEAP_START + process[p].heap_pages_allocated - 1
      \subseteq UserPages(p)

(* Each access the kernel makes to a frame at its physical address meets that *)
(* frame (memory/vmm.c:37), unless a program ran before its code was there.   *)
StoresReach == stray => raced

(* Refuted, the same whatever ran: the loader maps the pages of the process it *)
(* made, which may have ended before.                                          *)
LoaderReaches == ~stray

(* What a program has mapped stays mapped to the same frame while it lives, *)
(* whatever it and the others do.                                           *)
MappingsStay ==
  [][~raced' => \A p \in Programs : process[p].alive /\ process'[p].alive =>
       \A v \in UserPages(p) : v \in UserPages(p)' /\ UserFrame(p, v)' = UserFrame(p, v)]_vars
=============================================================================
