------------------------------- MODULE UserHeap -------------------------------
(***************************************************************************)
(* malloc, free and realloc of the C library, over the system call SBRK: a *)
(* heap that grows by exactly the bytes asked for, and the kernel that     *)
(* maps the pages under it.                                                *)
(***************************************************************************)
EXTENDS HeapBlocks

CONSTANTS
  Page,            \* bytes in a page
  Word,            \* numbers are taken modulo this (2^32)
  MaxEnd,          \* bound: longer heaps are not explored
  Requests         \* sizes programs ask for

ASSUME UserHeapAssumption ==
  /\ Page \in Nat /\ Page > 2 * Header
  /\ MaxEnd \in Nat /\ Word \in Nat /\ Word > 3 * (MaxEnd + Page)
  /\ Requests \subseteq 1 .. MaxEnd

VARIABLES
  blocks,                \* <<>>: heap_start_head is NULL
  heap_end,              \* the library's
  user_heap_end,         \* the process's, in the kernel
  heap_pages_allocated,  \* pages of the heap that are mapped
  wrapped                \* history: an expansion was shorter than a header, and the
                         \* size of its block wrapped

vars == <<blocks, heap_end, user_heap_end, heap_pages_allocated, wrapped>>

\* create_uprocess maps the first page; the library's variables are zero.
Init ==
  /\ blocks = <<>> /\ heap_end = 0
  /\ user_heap_end = Page /\ heap_pages_allocated = 1
  /\ wrapped = FALSE

Heap == [blocks |-> blocks, end |-> heap_end, kernel |-> user_heap_end,
         pages |-> heap_pages_allocated]

init_heap(h) ==
  [blocks |-> <<[addr |-> 0, size |-> Page - Header, free |-> TRUE]>>, end |-> Page,
   kernel |-> h.kernel, pages |-> h.pages]

\* Broken variant: rounds the end down to whole pages.
PagesUnder_Down(end) == end \div Page

\* Pages that SBRK maps under a heap of this length: one more than is needed.
PagesUnder(end) == (end + Page) \div Page

\* SBRK: the increment, then map_page until the pages suffice.
sbrk(h, n) ==
  LET end == (h.kernel + n) % Word
  IN  [end |-> end, pages |-> IF PagesUnder(end) > h.pages THEN PagesUnder(end)
                              ELSE h.pages]

\* Broken variant: the new block starts at the new end.
expand_heap_NewEnd(h, n) ==
  LET last == Len(h.blocks)
      s    == sbrk(h, n)
      new  == [addr |-> s.end, size |-> (n - Header) % Word, free |-> TRUE]
  IN  [blocks |-> IF h.blocks[last].free
                  THEN [h.blocks EXCEPT ![last].size = @ + n]
                  ELSE Append(h.blocks, new),
       end |-> s.end, kernel |-> s.end, pages |-> s.pages]

\* The last block is longer by n when it is free, or else a block of n bytes,
\* its header among them, follows it: n - Header wraps for a small n.
expand_heap(h, n) ==
  LET last == Len(h.blocks)
      s    == sbrk(h, n)
      new  == [addr |-> h.end, size |-> (n - Header) % Word, free |-> TRUE]
  IN  [blocks |-> IF h.blocks[last].free
                  THEN [h.blocks EXCEPT ![last].size = @ + n]
                  ELSE Append(h.blocks, new),
       end |-> s.end, kernel |-> s.end, pages |-> s.pages]

\* malloc initialises the heap, and calls itself after each expansion.
Start == IF blocks = <<>> THEN init_heap(Heap) ELSE Heap

Roomy(n) ==
  LET h  == Start
      h1 == expand_heap(h, n)
      h2 == expand_heap(h1, n)
  IN  IF Fits(h.blocks, n) # {} THEN h
      ELSE IF Fits(h1.blocks, n) # {} THEN h1 ELSE h2

\* Only the first expansion can wrap: the second makes a free block longer.
Wraps(n) ==
  /\ Fits(Start.blocks, n) = {}
  /\ ~ Start.blocks[Len(Start.blocks)].free
  /\ n < Header

Grow(n) ==
  /\ Roomy(n).end <= MaxEnd
  /\ heap_end' = Roomy(n).end
  /\ user_heap_end' = Roomy(n).kernel
  /\ heap_pages_allocated' = Roomy(n).pages
  /\ wrapped' = Wraps(n)

malloc(n) ==
  /\ Grow(n)
  /\ blocks' = Allocated(Roomy(n).blocks, n)

free(i) ==
  /\ ~ blocks[i].free
  /\ blocks' = Freed(blocks, i)
  /\ UNCHANGED <<heap_end, user_heap_end, heap_pages_allocated, wrapped>>

At(l, a) == CHOOSE i \in DOMAIN l : l[i].addr = a

\* Broken variant: frees before it allocates.
Replaced_FreeFirst(i, n) == Allocated(Freed(Roomy(n).blocks, i), n)

\* realloc: a new block, the copy, and the old one is freed.
Replaced(i, n) ==
  LET l == Allocated(Roomy(n).blocks, n)
  IN  Freed(l, At(l, blocks[i].addr))

realloc(i, n) ==
  /\ ~ blocks[i].free
  /\ Grow(n)
  /\ blocks' = Replaced(i, n)

\* After a wrap nothing is modelled: the next headers and regions may lie outside
\* every mapped page, where the program's first access ends it.
Next ==
  /\ ~ wrapped
  /\ \/ \E n \in Requests : malloc(n)
     \/ \E i \in DOMAIN blocks : free(i)
     \/ \E i \in DOMAIN blocks, n \in Requests : realloc(i, n)

Spec == Init /\ [][Next]_vars

-----------------------------------------------------------------------------
(* Properties *)

\* Splitting, merging and growing neither lose a byte nor count one twice, and
\* library and kernel agree on the end, until a size wraps.
Tiling ==
  ~ wrapped /\ blocks # <<>> => heap_end = user_heap_end /\ Tiles(blocks, heap_end)

\* Refuted, by a wrap: every block of a heap grown by SBRK lies in pages the
\* kernel has mapped ("make sure enough pages are mapped to cover the new heap
\* size").
ExpansionsMapped ==
  \A i \in DOMAIN blocks :
    blocks[i].addr + Header + blocks[i].size <= heap_pages_allocated * Page

\* So it does until a size wraps.
BlocksMapped == ~ wrapped => ExpansionsMapped

\* Any request ends, the one whose expansion wraps too: after two expansions at
\* most a block is long enough.
RequestsEnd == ~ wrapped => \A n \in Requests : Fits(Roomy(n).blocks, n) # {}

Abstract == INSTANCE Allocator WITH regions <- Regions(blocks), end <- heap_end

\* Allocated regions are long enough, in the heap, and never overlap, until a
\* size wraps; realloc never gives the old region away before the new one is
\* there.
KeepsRegionsApart ==
  Abstract!Init /\ [][~ wrapped' => Abstract!Next]_<<Regions(blocks), heap_end>>
=============================================================================
