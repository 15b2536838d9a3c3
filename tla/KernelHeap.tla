------------------------------ MODULE KernelHeap ------------------------------
(***************************************************************************)
(* kmalloc and kfree: a heap that grows by whole pages.                    *)
(***************************************************************************)
EXTENDS HeapBlocks

CONSTANTS
  Page,            \* bytes in a page
  MaxEnd,          \* bound: longer heaps are not explored
  Requests         \* sizes the kernel asks for

ASSUME KernelHeapAssumption ==
  /\ Page \in Nat /\ Page > 2 * Header
  /\ MaxEnd \in Nat /\ Requests \subseteq Nat \ {0}

VARIABLES blocks, heap_end

vars == <<blocks, heap_end>>

init_heap ==
  /\ blocks = <<[addr |-> 0, size |-> Page - Header, free |-> TRUE]>>
  /\ heap_end = Page

\* Broken variant: rounds down.
Grown_Down(n) == (n \div Page) * Page

\* Whole pages that hold n bytes.
Grown(n) == ((n + Page - 1) \div Page) * Page

\* Broken variant: the new pages always become a block of their own size.
expand_heap_NoHeader(h, n) ==
  LET last == Len(h.blocks)
  IN  [blocks |-> IF h.blocks[last].free
                  THEN [h.blocks EXCEPT ![last].size = @ + Grown(n)]
                  ELSE Append(h.blocks, [addr |-> h.end, size |-> Grown(n),
                                         free |-> TRUE]),
       end |-> h.end + Grown(n)]

\* The pages needed for n bytes, one by one: they lengthen the last block when
\* it is free, or else the first of them starts a free block.
expand_heap(h, n) ==
  LET last == Len(h.blocks)
  IN  [blocks |-> IF h.blocks[last].free
                  THEN [h.blocks EXCEPT ![last].size = @ + Grown(n)]
                  ELSE Append(h.blocks, [addr |-> h.end, size |-> Grown(n) - Header,
                                         free |-> TRUE]),
       end |-> h.end + Grown(n)]

\* kmalloc calls itself after each expansion; two are always enough.
Roomy(n) ==
  LET h  == [blocks |-> blocks, end |-> heap_end]
      h1 == expand_heap(h, n)
      h2 == expand_heap(h1, n)
  IN  IF Fits(blocks, n) # {} THEN h
      ELSE IF Fits(h1.blocks, n) # {} THEN h1 ELSE h2

kmalloc(n) ==
  /\ Roomy(n).end <= MaxEnd
  /\ blocks' = Allocated(Roomy(n).blocks, n)
  /\ heap_end' = Roomy(n).end

\* kfree of a pointer kmalloc returned and nobody has freed.
kfree(i) ==
  /\ ~ blocks[i].free
  /\ blocks' = Freed(blocks, i)
  /\ UNCHANGED heap_end

Next ==
  \/ \E n \in Requests : kmalloc(n)
  \/ \E i \in DOMAIN blocks : kfree(i)

Spec == init_heap /\ [][Next]_vars

-----------------------------------------------------------------------------
(* Properties *)

\* Splitting, merging and growing neither lose a byte nor count one twice.
Tiling == Tiles(blocks, heap_end)

\* A request ends: after the expansions a block is long enough.
RequestsEnd == \A n \in Requests : Fits(Roomy(n).blocks, n) # {}

Abstract == INSTANCE Allocator WITH regions <- Regions(blocks), end <- heap_end

\* Allocated regions are long enough, in the heap, and never overlap or move.
KeepsRegionsApart == Abstract!Spec

=============================================================================
