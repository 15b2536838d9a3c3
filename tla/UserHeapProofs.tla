---------------------------- MODULE UserHeapProofs ----------------------------
(***************************************************************************)
(* Theorems about the C library's heap over SBRK, for every header and     *)
(* page size and every set of requests, those shorter than a header among  *)
(* them, until the size of a block wraps.                                  *)
(***************************************************************************)
EXTENDS UserHeap, HeapBlocksProofs

\* A heap whose blocks tile it, and whose pages are mapped.
Good(h) ==
  /\ Tiles(h.blocks, h.end) /\ h.kernel = h.end
  /\ h.pages \in Nat /\ h.end <= h.pages * Page

\* Before the first malloc only the kernel's side exists.
Sane ==
  /\ IF blocks = <<>>
     THEN heap_end = 0 /\ user_heap_end = Page /\ heap_pages_allocated = 1
     ELSE Good(Heap)
  /\ user_heap_end \in Nat /\ user_heap_end <= MaxEnd + Page

\* Nothing is said of a heap with a size that wrapped.
IInv == wrapped \in BOOLEAN /\ (~ wrapped => Sane)

\* SBRK maps enough pages.
LEMMA PagesCover ==
  ASSUME NEW e \in Nat
  PROVE  PagesUnder(e) \in Nat /\ e <= PagesUnder(e) * Page
<1> DEFINE q == (e + Page) \div Page
           r == (e + Page) % Page
<1>1. Page \in Nat /\ Page > 0
  BY UserHeapAssumption, HeaderAssumption
<1>2. q \in Int /\ r \in 0 .. Page - 1 /\ e + Page = Page * q + r
  BY <1>1
<1> HIDE DEF q, r
<1>3. e <= Page * q /\ Page * q \in Int
  BY <1>1, <1>2
<1>4. q >= 0
  <2>1. SUFFICES ASSUME q <= -1 PROVE FALSE
    BY <1>2
  <2>2. Page * q <= -1
    BY <1>1, <1>2, <2>1
  <2>3. QED
    BY <1>3, <2>2
<1>5. PagesUnder(e) = q /\ q * Page = Page * q
  BY <1>1, <1>2 DEF PagesUnder, q
<1>6. QED
  BY <1>2, <1>3, <1>4, <1>5

\* A block that an expansion adds is at least a header long.
Covers(h, n) == h.blocks[Len(h.blocks)].free \/ n >= Header

\* One expansion keeps the heap good, and leaves it with a free last block.
LEMMA Expansion ==
  ASSUME NEW h, Good(h), NEW n \in Nat, Covers(h, n), h.end + n < Word
  PROVE  LET e == expand_heap(h, n)
         IN  /\ Good(e) /\ e.end = h.end + n
             /\ e.blocks[Len(e.blocks)].free
             /\ h.blocks[Len(h.blocks)].free => e.blocks[Len(e.blocks)].size >= n
<1> DEFINE l == h.blocks
           b == [addr |-> h.end, size |-> (n - Header) % Word, free |-> TRUE]
           a == [l EXCEPT ![Len(l)].size = @ + n]
           e == expand_heap(h, n)
<1>1. /\ l \in Seq(Block) /\ DOMAIN l = 1 .. Len(l) /\ Len(l) \in 1 .. Len(l)
      /\ l[Len(l)] \in Block /\ l[Len(l)].size \in Nat
  <2>1. l \in Seq(Block) /\ l # <<>>
    BY DEF Good, Tiles
  <2>2. Len(l) \in 1 .. Len(l)
    BY <2>1
  <2>3. QED
    BY <2>1, <2>2, Numbers
<1>2. h.end \in Nat
  BY <1>1, Inside DEF Good
<1>3. /\ (n - Header) % Word \in Nat
      /\ ~ l[Len(l)].free => n = Header + ((n - Header) % Word)
  <2>1. Word \in Nat /\ Word > 0 /\ Header \in Nat /\ n < Word
    BY <1>2, HeaderAssumption, UserHeapAssumption
  <2>2. ~ l[Len(l)].free => n >= Header
    BY DEF Covers
  <2>3. (n - Header) % Word \in Nat
    BY <2>1
  <2>4. n >= Header => (n - Header) % Word = n - Header
    BY <2>1
  <2> HIDE DEF l
  <2>5. QED
    BY <2>1, <2>2, <2>3, <2>4
<1>4. (h.kernel + n) % Word = h.end + n
  BY <1>2, UserHeapAssumption DEF Good
<1>5. /\ e.end = h.end + n /\ e.kernel = h.end + n
      /\ e.pages = IF PagesUnder(h.end + n) > h.pages THEN PagesUnder(h.end + n) ELSE h.pages
      /\ e.blocks = IF l[Len(l)].free THEN a ELSE Append(l, b)
  BY <1>4 DEF expand_heap, sbrk
<1>6. (~ l[Len(l)].free => Tiles(Append(l, b), h.end + n)) /\ Tiles(a, h.end + n)
  <2> DEFINE s == (n - Header) % Word
  <2>1. s \in Nat /\ (~ l[Len(l)].free => n = Header + s)
    BY <1>3
  <2>2. Tiles(l, h.end)
    BY DEF Good
  <2>3. b = [addr |-> h.end, size |-> s, free |-> TRUE]
    OBVIOUS
  <2> HIDE DEF l, s, b
  <2>4. QED
    BY <2>1, <2>2, <2>3, GrownTiles
<1> HIDE DEF e
<1>7. e.pages \in Nat /\ e.end <= e.pages * Page
  <2>1. h.end + n \in Nat
    BY <1>2
  <2>2. PagesUnder(h.end + n) \in Nat /\ h.end + n <= PagesUnder(h.end + n) * Page
    BY <2>1, PagesCover
  <2>3. CASE PagesUnder(h.end + n) > h.pages
    BY <1>5, <2>2, <2>3
  <2>4. CASE ~ (PagesUnder(h.end + n) > h.pages)
    <3>1. h.pages \in Nat /\ PagesUnder(h.end + n) <= h.pages
      BY <2>2, <2>4 DEF Good
    <3>2. \A p, q \in Nat : p <= q => p * Page <= q * Page
      BY UserHeapAssumption
    <3>3. PagesUnder(h.end + n) * Page <= h.pages * Page
      BY <2>2, <3>1, <3>2
    <3>4. e.pages = h.pages /\ e.end = h.end + n
      BY <1>5, <2>4
    <3>5. PagesUnder(h.end + n) * Page \in Nat /\ h.pages * Page \in Nat
      BY <2>2, <3>1, UserHeapAssumption
    <3>6. QED
      BY <2>1, <2>2, <3>1, <3>3, <3>4, <3>5
  <2>5. QED
    BY <2>3, <2>4
<1>8. Good(e)
  BY <1>5, <1>6, <1>7 DEF Good
<1>9. CASE l[Len(l)].free
  <2>1. Len(a) = Len(l) /\ a[Len(l)] = [l[Len(l)] EXCEPT !.size = @ + n]
    BY <1>1
  <2>2. a[Len(l)].free /\ a[Len(l)].size = l[Len(l)].size + n
    BY <1>1, <1>9, <2>1 DEF Block
  <2>3. Len(a) = Len(l)
    BY <2>1
  <2> HIDE DEF a
  <2>4. a[Len(l)].size >= n
    BY <1>1, <2>2
  <2>5. e.blocks = a
    BY <1>5, <1>9
  <2>6. QED
    BY <1>5, <1>8, <2>2, <2>3, <2>4, <2>5 DEF e
<1>10. CASE ~ l[Len(l)].free
  <2>1. Len(Append(l, b)) = Len(l) + 1 /\ Append(l, b)[Len(l) + 1] = b
    BY <1>1
  <2>2. e.blocks = Append(l, b)
    BY <1>5, <1>10
  <2>3. e.blocks[Len(e.blocks)].free
    BY <2>1, <2>2
  <2>4. QED
    BY <1>5, <1>8, <1>10, <2>3 DEF e
<1>11. QED
  BY <1>9, <1>10

\* The first malloc finds the page that create_uprocess mapped.
LEMMA Started ==
  ASSUME Sane
  PROVE  Good(Start) /\ Start.end = user_heap_end
<1>1. CASE blocks = <<>>
  <2> DEFINE b == [addr |-> 0, size |-> Page - Header, free |-> TRUE]
  <2>1. Page \in Nat /\ Page - Header \in Nat /\ Page = Header + (Page - Header)
    BY HeaderAssumption, UserHeapAssumption
  <2>2. b \in Block /\ b.addr = 0 /\ b.size = Page - Header
    BY <2>1 DEF Block
  <2>3. Start = [blocks |-> <<b>>, end |-> Page, kernel |-> Page, pages |-> 1]
    BY <1>1 DEF Start, init_heap, Heap, Sane
  <2> HIDE DEF b
  <2>4. Tiles(<<b>>, Page)
    BY <2>1, <2>2, HeaderAssumption DEF Tiles
  <2>5. QED
    BY <1>1, <2>1, <2>3, <2>4 DEF Good, Sane
<1>2. CASE blocks # <<>>
  BY <1>2 DEF Start, Sane, Good, Heap
<1>3. QED
  BY <1>1, <1>2

\* Two expansions are always enough, and keep the heap good unless a size wraps.
LEMMA Room ==
  ASSUME Sane, NEW n \in Requests, ~ Wraps(n)
  PROVE  Good(Roomy(n)) /\ Fits(Roomy(n).blocks, n) # {}
<1> DEFINE h  == Start
           h1 == expand_heap(h, n)
           h2 == expand_heap(h1, n)
<1>1. n \in Nat /\ n <= MaxEnd
  BY UserHeapAssumption
<1>2. Good(h) /\ h.end \in Nat /\ h.end <= MaxEnd + Page
  BY Started DEF Sane
<1>3. h.end + n < Word /\ (h.end + n) + n < Word
  BY <1>1, <1>2, UserHeapAssumption
<1>10. Fits(h.blocks, n) = {} => Covers(h, n)
  BY <1>1, HeaderAssumption DEF Wraps, Covers
<1> HIDE DEF h
<1>4. ASSUME Fits(h.blocks, n) = {}
      PROVE  Good(h1) /\ h1.end = h.end + n /\ h1.blocks[Len(h1.blocks)].free
  BY <1>1, <1>2, <1>3, <1>4, <1>10, Expansion
<1> HIDE DEF h1
<1>6. ASSUME Fits(h.blocks, n) = {}
      PROVE  Good(h2) /\ h2.blocks[Len(h2.blocks)].free /\ h2.blocks[Len(h2.blocks)].size >= n
  <2>1. Good(h1) /\ h1.end + n < Word /\ h1.blocks[Len(h1.blocks)].free
    BY <1>3, <1>4, <1>6
  <2>2. Covers(h1, n)
    BY <2>1 DEF Covers
  <2>3. QED
    BY <1>1, <2>1, <2>2, Expansion
<1>7. Roomy(n) = IF Fits(h.blocks, n) # {} THEN h
                 ELSE IF Fits(h1.blocks, n) # {} THEN h1 ELSE h2
  BY DEF Roomy, Start, h, h1
<1> HIDE DEF h2
<1>8. ASSUME Fits(h.blocks, n) = {} PROVE Fits(h2.blocks, n) # {}
  <2>1. Len(h2.blocks) \in DOMAIN h2.blocks
    <3>1. h2.blocks \in Seq(Block) /\ h2.blocks # <<>>
      BY <1>6, <1>8 DEF Good, Tiles
    <3>2. QED
      BY <3>1
  <2>2. QED
    BY <1>6, <1>8, <2>1 DEF Fits
<1>9. QED
  BY <1>2, <1>4, <1>6, <1>7, <1>8

\* Expansion moves no header.
LEMMA ExpansionKeeps ==
  ASSUME NEW h, Good(h), NEW n, NEW i \in DOMAIN h.blocks
  PROVE  /\ i \in DOMAIN expand_heap(h, n).blocks
         /\ expand_heap(h, n).blocks[i].addr = h.blocks[i].addr
<1> DEFINE l == h.blocks
           a == [l EXCEPT ![Len(l)].size = @ + n]
           b == [addr |-> h.end, size |-> (n - Header) % Word, free |-> TRUE]
<1>1. /\ l \in Seq(Block) /\ DOMAIN l = 1 .. Len(l) /\ Len(l) \in Nat /\ i \in 1 .. Len(l)
      /\ \A k \in 1 .. Len(l) : l[k] \in Block
  BY Numbers DEF Good, Tiles
<1>2. expand_heap(h, n).blocks = IF l[Len(l)].free THEN a ELSE Append(l, b)
  BY DEF expand_heap
<1>3. i \in DOMAIN a /\ a[i].addr = l[i].addr
  BY <1>1 DEF Block
<1> HIDE DEF b
<1>4. i \in DOMAIN Append(l, b) /\ Append(l, b)[i] = l[i]
  BY <1>1
<1>5. QED
  BY <1>2, <1>3, <1>4

\* Nor do malloc's expansions.
LEMMA RoomyKeeps ==
  ASSUME Sane, NEW n \in Requests, ~ Wraps(n), NEW i \in DOMAIN blocks
  PROVE  \E k \in DOMAIN Roomy(n).blocks : Roomy(n).blocks[k].addr = blocks[i].addr
<1> DEFINE h1 == expand_heap(Heap, n)
           h2 == expand_heap(h1, n)
<1>1. blocks # <<>>
  OBVIOUS
<1>2. Good(Heap) /\ Heap.blocks = blocks
  BY <1>1 DEF Sane, Heap
<1>3. n \in Nat /\ Heap.end + n < Word
  BY <1>2, UserHeapAssumption DEF Sane, Good, Heap
<1>4. ASSUME Fits(blocks, n) = {} PROVE Good(h1)
  <2>1. Start = Heap
    BY <1>1 DEF Start
  <2>2. Covers(Heap, n)
    BY <1>2, <1>3, <1>4, <2>1, HeaderAssumption DEF Wraps, Covers
  <2>3. QED
    BY <1>2, <1>3, <2>2, Expansion
<1>5. i \in DOMAIN h1.blocks /\ h1.blocks[i].addr = blocks[i].addr
  BY <1>2, ExpansionKeeps
<1>6. Roomy(n) = IF Fits(blocks, n) # {} THEN Heap
                 ELSE IF Fits(h1.blocks, n) # {} THEN h1 ELSE h2
  BY <1>1 DEF Roomy, Start, Heap
<1> HIDE DEF h1
<1>7. ASSUME Fits(blocks, n) = {}
      PROVE  i \in DOMAIN h2.blocks /\ h2.blocks[i].addr = blocks[i].addr
  BY <1>4, <1>5, <1>7, ExpansionKeeps
<1>8. QED
  BY <1>2, <1>5, <1>6, <1>7

\* A request whose expansion wraps is placed in the block that seems so long.
LEMMA WrapRoom ==
  ASSUME Sane, NEW n \in Requests, Wraps(n)
  PROVE  Fits(Roomy(n).blocks, n) # {}
<1> DEFINE l == Start.blocks
           b == [addr |-> Start.end, size |-> (n - Header) % Word, free |-> TRUE]
           h1 == expand_heap(Start, n)
<1>1. n \in Nat /\ Word \in Nat /\ Header \in Nat /\ n < Header /\ Word > Header
  BY HeaderAssumption, UserHeapAssumption DEF Wraps
<1>2. (n - Header) % Word >= n
  <2>1. (n - Header) % Word = Word + (n - Header)
    BY <1>1
  <2>2. QED
    BY <1>1, <2>1
<1>3. l \in Seq(Block) /\ Fits(l, n) = {} /\ ~ l[Len(l)].free
  BY Started DEF Good, Tiles, Wraps
<1>4. h1.blocks = Append(l, b)
  BY <1>3 DEF expand_heap
<1>5. b.free /\ b.size >= n
  BY <1>2
<1>6. Roomy(n) = h1 \/ Fits(h1.blocks, n) = {}
  BY <1>3 DEF Roomy
<1> HIDE DEF l, b, h1
<1>7. Len(l) + 1 \in DOMAIN Append(l, b) /\ Append(l, b)[Len(l) + 1] = b
  BY <1>3
<1>8. Fits(h1.blocks, n) # {}
  BY <1>4, <1>5, <1>7 DEF Fits
<1>9. QED
  BY <1>6, <1>8

\* The allocation itself, whoever asks for it.
LEMMA Growth ==
  ASSUME Sane, NEW n \in Requests, ~ Wraps(n), Grow(n)
  PROVE  /\ Tiles(Roomy(n).blocks, heap_end') /\ Fits(Roomy(n).blocks, n) # {}
         /\ Tiles(Allocated(Roomy(n).blocks, n), heap_end')
         /\ user_heap_end' = heap_end' /\ heap_end' \in Nat /\ heap_end' <= MaxEnd + Page
         /\ heap_pages_allocated' \in Nat /\ heap_end' <= heap_pages_allocated' * Page
<1>1. n \in Nat /\ MaxEnd \in Nat /\ Page \in Nat
  BY UserHeapAssumption
<1>2. Good(Roomy(n)) /\ Fits(Roomy(n).blocks, n) # {}
  BY Room
<1>3. Tiles(Roomy(n).blocks, heap_end')
  BY <1>2 DEF Grow, Good
<1>4. Tiles(Allocated(Roomy(n).blocks, n), heap_end')
  BY <1>1, <1>2, <1>3, AllocatedTiles
<1>5. heap_end' \in Nat
  <2>1. Roomy(n).blocks \in Seq(Block) /\ Roomy(n).blocks # <<>>
    BY <1>3 DEF Tiles
  <2>2. 1 \in DOMAIN Roomy(n).blocks
    BY <2>1
  <2>3. QED
    BY <1>3, <2>2, Inside
<1>6. QED
  BY <1>1, <1>2, <1>3, <1>4, <1>5 DEF Grow, Good

\* A step that wraps no size keeps the heap sane.
LEMMA SaneStep ==
  ASSUME Sane, Next, ~ wrapped'
  PROVE  Sane'
<1>1. ASSUME NEW n \in Requests, malloc(n) PROVE Sane'
  <2>1. Grow(n) /\ blocks' = Allocated(Roomy(n).blocks, n) /\ ~ Wraps(n)
    BY <1>1 DEF malloc, Grow
  <2>2. Tiles(blocks', heap_end') /\ blocks' # <<>>
    BY <2>1, Growth DEF Tiles
  <2>3. QED
    BY <2>1, <2>2, Growth DEF Sane, Good, Heap
<1>2. ASSUME NEW i \in DOMAIN blocks, free(i) PROVE Sane'
  <2>1. blocks # <<>>
    OBVIOUS
  <2>2. Tiles(blocks, heap_end)
    BY <2>1 DEF Sane, Good, Heap
  <2>3. Tiles(blocks', heap_end) /\ blocks' # <<>>
    <3>1. Tiles(Freed(blocks, i), heap_end)
      BY <2>2, FreedTiles
    <3>2. blocks' = Freed(blocks, i)
      BY <1>2 DEF free
    <3>3. QED
      BY <3>1, <3>2 DEF Tiles
  <2>4. QED
    BY <1>2, <2>1, <2>3 DEF free, Sane, Good, Heap
<1>3. ASSUME NEW i \in DOMAIN blocks, NEW n \in Requests, realloc(i, n) PROVE Sane'
  <2> DEFINE l == Allocated(Roomy(n).blocks, n)
  <2>1. Grow(n) /\ blocks' = Freed(l, At(l, blocks[i].addr)) /\ ~ Wraps(n)
    BY <1>3 DEF realloc, Replaced, Grow
  <2>2. Tiles(l, heap_end')
    BY <2>1, Growth
  <2>3. At(l, blocks[i].addr) \in DOMAIN l
    <3>1. \E k \in DOMAIN l : l[k].addr = blocks[i].addr
      <4>1. n \in Nat
        BY UserHeapAssumption
      <4>2. \E k \in DOMAIN Roomy(n).blocks : Roomy(n).blocks[k].addr = blocks[i].addr
        BY <2>1, RoomyKeeps
      <4>3. QED
        BY <2>1, <4>1, <4>2, Growth, AllocatedKeeps
    <3> HIDE DEF l
    <3>2. QED
      BY <3>1 DEF At
  <2> HIDE DEF l
  <2>4. Tiles(blocks', heap_end') /\ blocks' # <<>>
    <3>1. Tiles(Freed(l, At(l, blocks[i].addr)), heap_end')
      BY <2>2, <2>3, FreedTiles
    <3>2. blocks' = Freed(l, At(l, blocks[i].addr))
      BY <2>1
    <3>3. QED
      BY <3>1, <3>2 DEF Tiles
  <2>5. QED
    BY <2>1, <2>4, Growth DEF Sane, Good, Heap
<1>4. QED
  BY <1>1, <1>2, <1>3 DEF Next

\* The inductive invariant.
LEMMA Invariance == Spec => []IInv
<1>1. Init => IInv
  <2>1. Init => Sane
    BY UserHeapAssumption, HeaderAssumption DEF Init, Sane
  <2>2. Init => wrapped \in BOOLEAN
    BY DEF Init
  <2>3. QED
    BY <2>1, <2>2 DEF IInv
<1>2. IInv /\ [Next]_vars => IInv'
  <2> SUFFICES ASSUME IInv, [Next]_vars PROVE IInv'
    OBVIOUS
  <2>1. CASE UNCHANGED vars
    BY <2>1 DEF vars, IInv, Sane, Good, Heap
  <2>2. CASE Next
    <3>1. Sane
      BY <2>2 DEF Next, IInv
    <3>2. wrapped' \in BOOLEAN
      <4>1. ASSUME NEW n \in Requests, Grow(n) PROVE wrapped' \in BOOLEAN
        <5>1. wrapped' = Wraps(n)
          BY <4>1 DEF Grow
        <5>2. Wraps(n) \in BOOLEAN
          BY DEF Wraps
        <5>3. QED
          BY <5>1, <5>2
      <4>2. \/ wrapped' = wrapped
            \/ \E n \in Requests : Grow(n)
        BY <2>2 DEF Next, malloc, free, realloc
      <4>3. QED
        BY <4>1, <4>2 DEF IInv
    <3>3. QED
      BY <2>2, <3>1, <3>2, SaneStep DEF IInv
  <2>3. QED
    BY <2>1, <2>2
<1>3. QED
  BY <1>1, <1>2, PTL DEF Spec

\* Splitting, merging and growing neither lose a byte nor count one twice, and
\* library and kernel agree on the end, until a size wraps.
THEOREM TilingHolds == Spec => []Tiling
<1>1. IInv => Tiling
  BY DEF IInv, Sane, Tiling, Good, Heap
<1>2. QED
  BY <1>1, Invariance, PTL

\* Every block lies in mapped pages, until a size wraps.
THEOREM BlocksMappedHolds == Spec => []BlocksMapped
<1>1. IInv => BlocksMapped
  <2> SUFFICES ASSUME Sane, NEW i \in DOMAIN blocks
               PROVE  blocks[i].addr + Header + blocks[i].size <= heap_pages_allocated * Page
    BY DEF IInv, BlocksMapped, ExpansionsMapped
  <2>1. Good(Heap)
    BY DEF Sane
  <2>2. Tiles(blocks, heap_end) /\ heap_pages_allocated \in Nat
        /\ heap_end <= heap_pages_allocated * Page
    BY <2>1 DEF Good, Heap
  <2>3. /\ blocks[i].addr \in Nat /\ blocks[i].size \in Nat /\ heap_end \in Nat
        /\ blocks[i].addr + Header + blocks[i].size <= heap_end
    BY <2>2, Inside
  <2>4. heap_pages_allocated * Page \in Nat
    BY <2>2, UserHeapAssumption
  <2>5. QED
    BY <2>2, <2>3, <2>4, HeaderAssumption
<1>2. QED
  BY <1>1, Invariance, PTL

\* malloc's recursion ends for every request, as long as no earlier size wrapped.
THEOREM RequestsEndHolds == Spec => []RequestsEnd
<1>1. IInv => RequestsEnd
  <2>1. ASSUME Sane, NEW n \in Requests PROVE Fits(Roomy(n).blocks, n) # {}
    BY <2>1, Room, WrapRoom
  <2>2. QED
    BY <2>1 DEF IInv, RequestsEnd
<1>2. QED
  BY <1>1, Invariance, PTL

\* An expansion moves the end, and no region.
LEMMA ExpansionRegions ==
  ASSUME NEW h, Good(h), NEW n \in Nat, Covers(h, n), h.end + n < Word
  PROVE  /\ Regions(expand_heap(h, n).blocks) = Regions(h.blocks)
         /\ h.end \in Nat /\ expand_heap(h, n).end >= h.end
<1>1. h.blocks \in Seq(Block) /\ h.blocks # <<>> /\ h.end \in Nat
  <2>1. Tiles(h.blocks, h.end)
    BY DEF Good
  <2>2. h.blocks \in Seq(Block) /\ h.blocks # <<>>
    BY <2>1 DEF Tiles
  <2>3. 1 \in DOMAIN h.blocks
    BY <2>2
  <2>4. QED
    BY <2>1, <2>2, <2>3, Inside
<1>2. expand_heap(h, n).end = h.end + n
  BY Expansion
<1>3. Regions(expand_heap(h, n).blocks) = Regions(h.blocks)
  BY <1>1, GrownRegions DEF expand_heap
<1>4. QED
  BY <1>1, <1>2, <1>3

\* Making room moves the end, and no region.
LEMMA RoomRegions ==
  ASSUME Sane, NEW n \in Requests, ~ Wraps(n)
  PROVE  Regions(Roomy(n).blocks) = Regions(blocks) /\ heap_end <= Roomy(n).end
<1> DEFINE h  == Start
           h1 == expand_heap(h, n)
           h2 == expand_heap(h1, n)
<1>1. n \in Nat /\ n <= MaxEnd
  BY UserHeapAssumption
<1>2. Good(h) /\ h.end \in Nat /\ h.end <= MaxEnd + Page
  BY Started DEF Sane
<1>3. h.end + n < Word /\ (h.end + n) + n < Word
  BY <1>1, <1>2, UserHeapAssumption
<1>4. Regions(h.blocks) = Regions(blocks) /\ heap_end <= h.end
  <2>1. CASE blocks = <<>>
    <3>1. h.blocks = <<[addr |-> 0, size |-> Page - Header, free |-> TRUE]>> /\ heap_end = 0
      BY <2>1 DEF Start, init_heap, Sane
    <3>2. Regions(h.blocks) = {}
      BY <3>1 DEF Regions
    <3>3. Regions(blocks) = {}
      BY <2>1 DEF Regions
    <3> HIDE DEF h
    <3>4. heap_end <= h.end
      BY <1>2, <3>1
    <3>5. Regions(h.blocks) = Regions(blocks)
      BY <3>2, <3>3
    <3>6. QED
      BY <3>4, <3>5
  <2>2. CASE blocks # <<>>
    <3>1. h = Heap
      BY <2>2 DEF Start
    <3>2. h.blocks = blocks /\ h.end = heap_end
      BY <3>1 DEF Heap
    <3> HIDE DEF h
    <3>3. QED
      BY <1>2, <3>2
  <2>3. QED
    BY <2>1, <2>2
<1>11. Fits(h.blocks, n) = {} => Covers(h, n)
  BY <1>1, HeaderAssumption DEF Wraps, Covers
<1> HIDE DEF h
<1>5. ASSUME Fits(h.blocks, n) = {}
      PROVE  /\ Good(h1) /\ h1.end = h.end + n /\ Regions(h1.blocks) = Regions(h.blocks)
             /\ h1.blocks[Len(h1.blocks)].free
  BY <1>1, <1>2, <1>3, <1>5, <1>11, Expansion, ExpansionRegions
<1> HIDE DEF h1
<1>7. ASSUME Fits(h.blocks, n) = {}
      PROVE  h2.end = h1.end + n /\ Regions(h2.blocks) = Regions(h1.blocks)
  <2>1. Good(h1) /\ h1.end + n < Word /\ Covers(h1, n)
    BY <1>3, <1>5, <1>7 DEF Covers
  <2>2. QED
    BY <1>1, <2>1, Expansion, ExpansionRegions
<1>8. Roomy(n) = IF Fits(h.blocks, n) # {} THEN h
                 ELSE IF Fits(h1.blocks, n) # {} THEN h1 ELSE h2
  BY DEF Roomy, Start, h, h1
<1> HIDE DEF h2
<1>9. heap_end \in Nat
  <2>1. CASE blocks = <<>>
    BY <2>1 DEF Sane
  <2>2. CASE blocks # <<>>
    BY <2>2 DEF Sane, Good, Heap
  <2>3. QED
    BY <2>1, <2>2
<1>10. QED
  BY <1>1, <1>2, <1>4, <1>5, <1>7, <1>8, <1>9

\* The region that malloc adds.
LEMMA Addition ==
  ASSUME Sane, NEW n \in Requests, ~ Wraps(n), Grow(n)
  PROVE  LET a == Allocated(Roomy(n).blocks, n)
         IN  /\ heap_end <= heap_end'
             /\ \E r \in [start : 0 .. heap_end', size : n .. heap_end'] :
                  /\ r.start + r.size <= heap_end'
                  /\ \A s \in Regions(blocks) :
                       r.start + r.size <= s.start \/ s.start + s.size <= r.start
                  /\ Regions(a) = Regions(blocks) \cup {r}
<1> DEFINE l == Roomy(n).blocks
<1>1. n \in Nat
  BY UserHeapAssumption
<1>2. Tiles(l, heap_end') /\ Fits(l, n) # {}
  BY Growth
<1>3. Regions(l) = Regions(blocks) /\ heap_end <= heap_end'
  BY RoomRegions DEF Grow
<1> HIDE DEF l
<1>4. \E r \in [start : 0 .. heap_end', size : n .. heap_end'] :
        /\ r.start + r.size <= heap_end'
        /\ \A s \in Regions(l) : r.start + r.size <= s.start \/ s.start + s.size <= r.start
        /\ Regions(Allocated(l, n)) = Regions(l) \cup {r}
  BY <1>1, <1>2, AllocatedRegions
<1>5. QED
  BY <1>3, <1>4 DEF l

\* A step that wraps no size is one of the abstract allocator's.
LEMMA AbstractStep ==
  ASSUME Sane, Next, ~ wrapped'
  PROVE  Abstract!Next
<1>1. ASSUME NEW n \in Requests, malloc(n) PROVE Abstract!Allocate(n)
  <2> DEFINE a == Allocated(Roomy(n).blocks, n)
  <2>1. Grow(n) /\ blocks' = a /\ ~ Wraps(n)
    BY <1>1 DEF malloc, Grow
  <2> HIDE DEF a
  <2>2. (Regions(blocks))' = Regions(a)
    BY <2>1 DEF Regions
  <2>3. QED
    BY <2>1, <2>2, Addition DEF a, Abstract!Allocate, Abstract!Disjoint
<1>2. ASSUME NEW i \in DOMAIN blocks, free(i) PROVE Abstract!Free
  <2>1. Tiles(blocks, heap_end)
    BY DEF Sane, Good, Heap
  <2>2. /\ Region(blocks[i]) \in Regions(blocks)
        /\ Regions(Freed(blocks, i)) = Regions(blocks) \ {Region(blocks[i])}
    BY <1>2, <2>1, FreedRegions DEF free
  <2>3. (Regions(blocks))' = Regions(blocks) \ {Region(blocks[i])} /\ heap_end' = heap_end
    BY <1>2, <2>2 DEF free, Regions
  <2>4. QED
    BY <2>2, <2>3 DEF Abstract!Free
<1>3. ASSUME NEW i \in DOMAIN blocks, NEW n \in Requests, realloc(i, n)
      PROVE  Abstract!Reallocate(n)
  <2> DEFINE a == Allocated(Roomy(n).blocks, n)
             k == At(a, blocks[i].addr)
             s == Region(blocks[i])
  <2>1. Grow(n) /\ blocks' = Freed(a, k) /\ ~ blocks[i].free /\ ~ Wraps(n)
    BY <1>3 DEF realloc, Replaced, Grow
  <2>2. PICK r \in [start : 0 .. heap_end', size : n .. heap_end'] :
          /\ r.start + r.size <= heap_end'
          /\ \A t \in Regions(blocks) :
               r.start + r.size <= t.start \/ t.start + t.size <= r.start
          /\ Regions(a) = Regions(blocks) \cup {r}
    BY <2>1, Addition
  <2>3. Tiles(a, heap_end') /\ heap_end <= heap_end'
    BY <2>1, Growth, Addition
  <2>4. s \in Regions(blocks)
    BY <2>1, RegionsAre
  <2>5. k \in DOMAIN a /\ ~ a[k].free /\ Region(a[k]) = s
    <3> HIDE DEF a
    <3>1. PICK m \in DOMAIN a : ~ a[m].free /\ s = Region(a[m])
      BY <2>2, <2>4, RegionsAre
    <3>2. blocks[i].addr \in Nat /\ a[m].addr \in Nat
      <4>1. Tiles(blocks, heap_end)
        BY DEF Sane, Good, Heap
      <4>2. QED
        BY <2>3, <4>1, Inside
    <3>3. a[m].addr = blocks[i].addr
      <4>1. s.start = blocks[i].addr + Header /\ Region(a[m]).start = a[m].addr + Header
        BY DEF Region
      <4>2. QED
        BY <3>1, <3>2, <4>1, HeaderAssumption
    <3>4. k \in DOMAIN a /\ a[k].addr = blocks[i].addr
      BY <3>3 DEF At
    <3> HIDE DEF k
    <3>5. k = m
      <4>1. /\ k \in Nat /\ m \in Nat /\ a[k].addr \in Nat /\ a[k].size \in Nat
            /\ a[m].size \in Nat
        BY <2>3, <3>4, Inside, Numbers DEF Tiles
      <4>2. CASE k < m
        BY <2>3, <3>2, <3>3, <3>4, <4>1, <4>2, InOrder, HeaderAssumption
      <4>3. CASE m < k
        BY <2>3, <3>2, <3>3, <3>4, <4>1, <4>3, InOrder, HeaderAssumption
      <4>4. QED
        BY <4>1, <4>2, <4>3
    <3>6. QED
      BY <3>1, <3>4, <3>5
  <2>6. s # r
    <3>1. n \in Nat /\ n > 0
      BY UserHeapAssumption
    <3>2. r.start + r.size <= s.start \/ s.start + s.size <= r.start
      BY <2>2, <2>4
    <3>3. r.start \in Nat /\ r.size \in Nat /\ r.size >= n
      BY <2>2, <3>1
    <3>4. QED
      BY <3>1, <3>2, <3>3
  <2> HIDE DEF a, k, s
  <2>7. Regions(Freed(a, k)) = Regions(a) \ {s}
    BY <2>3, <2>5, FreedRegions
  <2>8. (Regions(blocks))' = (Regions(blocks) \ {s}) \cup {r}
    <3>1. (Regions(blocks))' = Regions(Freed(a, k))
      BY <2>1 DEF Regions
    <3>2. QED
      BY <2>2, <2>6, <2>7, <3>1
  <2>9. QED
    BY <2>2, <2>3, <2>4, <2>8 DEF Abstract!Reallocate, Abstract!Disjoint
<1>4. QED
  BY <1>1, <1>2, <1>3 DEF Next, Abstract!Next

\* malloc, free and realloc implement the abstract allocator until a size wraps:
\* realloc's old region is given up only when the new one is there.
THEOREM KeepsRegionsApartHolds == Spec => KeepsRegionsApart
<1>1. Init => Abstract!Init
  BY DEF Init, Regions, Abstract!Init
<1>2. IInv /\ [Next]_vars => [~ wrapped' => Abstract!Next]_<<Regions(blocks), heap_end>>
  <2> SUFFICES ASSUME IInv, [Next]_vars, ~ wrapped'
               PROVE  [Abstract!Next]_<<Regions(blocks), heap_end>>
    OBVIOUS
  <2>1. CASE UNCHANGED vars
    BY <2>1 DEF vars, Regions
  <2>2. CASE Next
    BY <2>2, AbstractStep DEF Next, IInv
  <2>3. QED
    BY <2>1, <2>2
<1>3. QED
  BY <1>1, <1>2, Invariance, PTL DEF Spec, KeepsRegionsApart
=============================================================================
