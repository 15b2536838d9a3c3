--------------------------- MODULE KernelHeapProofs ---------------------------
(***************************************************************************)
(* Theorems about the kernel's heap, for every header and page size and    *)
(* all requests: the headers always tile the heap, and a request always    *)
(* finds a block after at most two expansions.                             *)
(***************************************************************************)
EXTENDS KernelHeap, HeapBlocksProofs

\* Whole pages hold what was asked for, and at least one page.
LEMMA GrownHolds ==
  ASSUME NEW n \in Nat \ {0}
  PROVE  Grown(n) \in Nat /\ Grown(n) >= n /\ Grown(n) >= Page
<1> DEFINE q == (n + Page - 1) \div Page
           r == (n + Page - 1) % Page
<1>1. Page \in Nat /\ Page > 0
  BY KernelHeapAssumption, HeaderAssumption
<1>2. /\ q \in Int /\ r \in 0 .. Page - 1
      /\ n + Page - 1 = Page * q + r
  BY <1>1
<1> HIDE DEF q, r
<1>3. Page * q >= n /\ Page * q \in Int
  BY <1>1, <1>2
<1>4. q >= 1
  <2>1. SUFFICES ASSUME q <= 0 PROVE FALSE
    BY <1>2
  <2>2. Page * q <= 0
    BY <1>1, <1>2, <2>1
  <2>3. QED
    BY <1>3, <2>2
<1>5. Page * q >= Page
  BY <1>1, <1>2, <1>4
<1>6. Grown(n) = Page * q
  BY <1>1, <1>2 DEF Grown, q
<1>7. QED
  BY <1>3, <1>5, <1>6

\* One expansion: the longer heap is tiled, and ends in a free block.
LEMMA Expansion ==
  ASSUME NEW h, Tiles(h.blocks, h.end), NEW n \in Nat \ {0}
  PROVE  LET e == expand_heap(h, n)
         IN  /\ Tiles(e.blocks, e.end)
             /\ e.blocks[Len(e.blocks)].free
             /\ h.blocks[Len(h.blocks)].free => e.blocks[Len(e.blocks)].size >= n
<1> DEFINE l == h.blocks
           b == [addr |-> h.end, size |-> Grown(n) - Header, free |-> TRUE]
           a == [l EXCEPT ![Len(l)].size = @ + Grown(n)]
<1>1. /\ l \in Seq(Block) /\ DOMAIN l = 1 .. Len(l) /\ Len(l) \in 1 .. Len(l)
      /\ l[Len(l)] \in Block /\ l[Len(l)].size \in Nat
  <2>1. l \in Seq(Block) /\ l # <<>>
    BY DEF Tiles
  <2>2. Len(l) \in 1 .. Len(l)
    BY <2>1
  <2>3. QED
    BY <2>1, <2>2, Numbers
<1>2. /\ Grown(n) \in Nat /\ Grown(n) >= n /\ Grown(n) - Header \in Nat
      /\ Grown(n) = Header + (Grown(n) - Header)
  BY GrownHolds, HeaderAssumption, KernelHeapAssumption
<1> HIDE DEF l
<1>3. Tiles(Append(l, b), h.end + Grown(n)) /\ Tiles(a, h.end + Grown(n))
  BY <1>2, GrownTiles DEF l
<1>4. CASE l[Len(l)].free
  <2>1. expand_heap(h, n) = [blocks |-> a, end |-> h.end + Grown(n)]
    BY <1>4 DEF expand_heap, l
  <2>2. Len(a) = Len(l) /\ a[Len(l)] = [l[Len(l)] EXCEPT !.size = @ + Grown(n)]
    BY <1>1
  <2>3. a[Len(l)].free /\ a[Len(l)].size = l[Len(l)].size + Grown(n)
    BY <1>1, <1>4, <2>2 DEF Block
  <2> HIDE DEF a
  <2>4. a[Len(l)].size >= n
    BY <1>1, <1>2, <2>3
  <2>5. expand_heap(h, n).blocks = a /\ expand_heap(h, n).end = h.end + Grown(n)
    BY <2>1
  <2>6. Len(a) = Len(l)
    BY <2>2
  <2>7. QED
    BY <1>3, <2>3, <2>4, <2>5, <2>6
<1>5. CASE ~ l[Len(l)].free
  <2>1. expand_heap(h, n) = [blocks |-> Append(l, b), end |-> h.end + Grown(n)]
    BY <1>5 DEF expand_heap, l
  <2>2. Len(Append(l, b)) = Len(l) + 1 /\ Append(l, b)[Len(l) + 1] = b
    BY <1>1
  <2>3. QED
    BY <1>3, <1>5, <2>1, <2>2 DEF l
<1>6. QED
  BY <1>4, <1>5

\* Two expansions are always enough, and leave the heap tiled.
LEMMA Room ==
  ASSUME Tiling, NEW n \in Nat \ {0}
  PROVE  Tiles(Roomy(n).blocks, Roomy(n).end) /\ Fits(Roomy(n).blocks, n) # {}
<1> DEFINE h  == [blocks |-> blocks, end |-> heap_end]
           h1 == expand_heap(h, n)
           h2 == expand_heap(h1, n)
<1>1. Tiles(h.blocks, h.end)
  BY DEF Tiling
<1>2. Tiles(h1.blocks, h1.end) /\ h1.blocks[Len(h1.blocks)].free
  <2> HIDE DEF h
  <2>1. QED
    BY <1>1, Expansion
<1>3. /\ Tiles(h2.blocks, h2.end) /\ h2.blocks[Len(h2.blocks)].free
      /\ h2.blocks[Len(h2.blocks)].size >= n
  <2> HIDE DEF h1
  <2>1. QED
    BY <1>2, Expansion
<1>4. Roomy(n) = IF Fits(blocks, n) # {} THEN h
                 ELSE IF Fits(h1.blocks, n) # {} THEN h1 ELSE h2
  BY DEF Roomy
<1> HIDE DEF h1, h2
<1>5. Fits(h2.blocks, n) # {}
  <2>1. Len(h2.blocks) \in DOMAIN h2.blocks
    <3>1. h2.blocks \in Seq(Block) /\ h2.blocks # <<>>
      BY <1>3 DEF Tiles
    <3>2. QED
      BY <3>1
  <2>2. QED
    BY <1>3, <2>1 DEF Fits
<1>6. QED
  BY <1>1, <1>2, <1>3, <1>4, <1>5

\* Splitting, merging and growing neither lose a byte nor count one twice,
\* whatever is allocated and freed in whatever order.
THEOREM TilingHolds == Spec => []Tiling
<1>1. init_heap => Tiling
  <2> SUFFICES ASSUME init_heap PROVE Tiling
    OBVIOUS
  <2>1. Page - Header \in Nat /\ Page = Header + (Page - Header)
    BY HeaderAssumption, KernelHeapAssumption
  <2>2. [addr |-> 0, size |-> Page - Header, free |-> TRUE] \in Block
    BY <2>1 DEF Block
  <2>3. QED
    BY <2>1, <2>2, HeaderAssumption DEF init_heap, Tiling, Tiles
<1>2. Tiling /\ [Next]_vars => Tiling'
  <2> SUFFICES ASSUME Tiling, [Next]_vars PROVE Tiling'
    OBVIOUS
  <2>1. ASSUME NEW n \in Requests, kmalloc(n) PROVE Tiling'
    <3>1. n \in Nat \ {0}
      BY KernelHeapAssumption
    <3>2. Tiles(Allocated(Roomy(n).blocks, n), Roomy(n).end)
      BY <3>1, Room, AllocatedTiles
    <3>3. QED
      BY <2>1, <3>2 DEF kmalloc, Tiling
  <2>2. ASSUME NEW i \in DOMAIN blocks, kfree(i) PROVE Tiling'
    BY <2>2, FreedTiles DEF kfree, Tiling
  <2>3. CASE UNCHANGED vars
    BY <2>3 DEF vars, Tiling
  <2>4. QED
    BY <2>1, <2>2, <2>3 DEF Next
<1>3. QED
  BY <1>1, <1>2, PTL DEF Spec

\* kmalloc's recursion ends: a request never needs a third expansion.
THEOREM RequestsEndHolds == Spec => []RequestsEnd
<1>1. Tiling => RequestsEnd
  BY Room, KernelHeapAssumption DEF RequestsEnd
<1>2. QED
  BY <1>1, TilingHolds, PTL

\* An expansion moves the end, and no region.
LEMMA ExpansionRegions ==
  ASSUME NEW h, Tiles(h.blocks, h.end), NEW n \in Nat \ {0}
  PROVE  /\ Regions(expand_heap(h, n).blocks) = Regions(h.blocks)
         /\ expand_heap(h, n).end >= h.end
<1>1. h.blocks \in Seq(Block) /\ h.blocks # <<>> /\ h.end \in Nat
  <2>1. h.blocks \in Seq(Block) /\ h.blocks # <<>>
    BY DEF Tiles
  <2>2. 1 \in DOMAIN h.blocks
    BY <2>1
  <2>3. QED
    BY <2>1, <2>2, Inside
<1>2. Grown(n) \in Nat
  BY GrownHolds
<1>3. expand_heap(h, n).end >= h.end
  BY <1>1, <1>2 DEF expand_heap
<1>4. Regions(expand_heap(h, n).blocks) = Regions(h.blocks)
  BY <1>1, GrownRegions DEF expand_heap
<1>5. QED
  BY <1>3, <1>4

\* Making room moves the end, and no region.
LEMMA RoomRegions ==
  ASSUME Tiling, NEW n \in Nat \ {0}
  PROVE  /\ Regions(Roomy(n).blocks) = Regions(blocks)
         /\ Roomy(n).end \in Nat /\ heap_end \in Nat /\ heap_end <= Roomy(n).end
<1> DEFINE h  == [blocks |-> blocks, end |-> heap_end]
           h1 == expand_heap(h, n)
           h2 == expand_heap(h1, n)
<1>1. Tiles(h.blocks, h.end) /\ h.blocks = blocks /\ h.end = heap_end
  BY DEF Tiling
<1> HIDE DEF h
<1>2. Tiles(h1.blocks, h1.end) /\ Regions(h1.blocks) = Regions(blocks) /\ h1.end >= h.end
  BY <1>1, Expansion, ExpansionRegions
<1> HIDE DEF h1
<1>3. Tiles(h2.blocks, h2.end) /\ Regions(h2.blocks) = Regions(blocks) /\ h2.end >= h1.end
  BY <1>2, Expansion, ExpansionRegions
<1>4. Roomy(n) = IF Fits(blocks, n) # {} THEN h
                 ELSE IF Fits(h1.blocks, n) # {} THEN h1 ELSE h2
  BY DEF Roomy, h, h1
<1> HIDE DEF h2
<1>5. ASSUME NEW l, NEW e, Tiles(l, e) PROVE e \in Nat
  <2>1. l \in Seq(Block) /\ l # <<>>
    BY <1>5 DEF Tiles
  <2>2. 1 \in DOMAIN l
    BY <2>1
  <2>3. QED
    BY <1>5, <2>2, Inside
<1>6. h.end \in Nat /\ h1.end \in Nat /\ h2.end \in Nat
  BY <1>1, <1>2, <1>3, <1>5
<1>7. QED
  BY <1>1, <1>2, <1>3, <1>4, <1>6

\* kmalloc and kfree implement the abstract allocator: regions that are long
\* enough, in the heap, and never overlap or move while they are allocated.
THEOREM KeepsRegionsApartHolds == Spec => KeepsRegionsApart
<1>1. init_heap => Abstract!Init
  <2> SUFFICES ASSUME init_heap PROVE Abstract!Init
    OBVIOUS
  <2>1. DOMAIN blocks = {1} /\ blocks[1].free
    BY DEF init_heap
  <2>2. Regions(blocks) = {}
    BY <2>1 DEF Regions
  <2>3. QED
    BY <2>2, KernelHeapAssumption DEF init_heap, Abstract!Init
<1>2. Tiling /\ [Next]_vars => [Abstract!Next]_<<Regions(blocks), heap_end>>
  <2> SUFFICES ASSUME Tiling, [Next]_vars
               PROVE  [Abstract!Next]_<<Regions(blocks), heap_end>>
    OBVIOUS
  <2>1. ASSUME NEW n \in Requests, kmalloc(n) PROVE Abstract!Allocate(n)
    <3>1. n \in Nat \ {0} /\ n \in Nat
      BY KernelHeapAssumption
    <3> DEFINE l == Roomy(n).blocks
    <3>2. Tiles(l, heap_end') /\ Fits(l, n) # {}
      BY <2>1, <3>1, Room DEF kmalloc
    <3>3. Regions(l) = Regions(blocks) /\ heap_end <= heap_end'
      BY <2>1, <3>1, RoomRegions DEF kmalloc
    <3>4. blocks' = Allocated(l, n)
      BY <2>1 DEF kmalloc
    <3> HIDE DEF l
    <3>5. PICK r \in [start : 0 .. heap_end', size : n .. heap_end'] :
            /\ r.start + r.size <= heap_end'
            /\ \A s \in Regions(l) :
                 r.start + r.size <= s.start \/ s.start + s.size <= r.start
            /\ Regions(Allocated(l, n)) = Regions(l) \cup {r}
      BY <3>1, <3>2, AllocatedRegions
    <3>6. (Regions(blocks))' = Regions(blocks) \cup {r}
      BY <3>3, <3>4, <3>5 DEF Regions
    <3>7. QED
      BY <3>3, <3>5, <3>6 DEF Abstract!Allocate, Abstract!Disjoint
  <2>2. ASSUME NEW i \in DOMAIN blocks, kfree(i) PROVE Abstract!Free
    <3>1. /\ Region(blocks[i]) \in Regions(blocks)
          /\ Regions(Freed(blocks, i)) = Regions(blocks) \ {Region(blocks[i])}
      BY <2>2, FreedRegions DEF kfree, Tiling
    <3>2. (Regions(blocks))' = Regions(blocks) \ {Region(blocks[i])} /\ heap_end' = heap_end
      BY <2>2, <3>1 DEF kfree, Regions
    <3>3. QED
      BY <3>1, <3>2 DEF Abstract!Free
  <2>3. CASE UNCHANGED vars
    BY <2>3 DEF vars, Regions
  <2>4. QED
    BY <2>1, <2>2, <2>3 DEF Next, Abstract!Next
<1>3. QED
  BY <1>1, <1>2, TilingHolds, PTL DEF Spec, KeepsRegionsApart, Abstract!Spec
=============================================================================
