------------------------------ MODULE HeapBlocks ------------------------------
(***************************************************************************)
(* The list of blocks that the kernel's heap and the C library's heap      *)
(* share: a header before every block, the first free block that is long   *)
(* enough, splitting, and merging with the free blocks that follow.  A     *)
(* list is the sequence of its headers; addresses count from the start of  *)
(* the heap.                                                               *)
(***************************************************************************)
EXTENDS Integers, Sequences

CONSTANT Header                    \* sizeof(heap_header_t)
ASSUME HeaderAssumption == Header \in Nat \ {0}

Block == [addr : Nat, size : Nat, free : BOOLEAN]

\* Broken variant: a block of exactly n bytes is passed over.
Fits_Longer(l, n) == {i \in DOMAIN l : l[i].free /\ l[i].size > n}

Fits(l, n) == {i \in DOMAIN l : l[i].free /\ l[i].size >= n}

find_free_block(l, n) == CHOOSE i \in Fits(l, n) : \A j \in Fits(l, n) : i <= j

\* Broken variant: the header of the new block is not counted.
split_block_NoHeader(l, i, n) ==
  IF l[i].size - n < Header + 1 THEN l
  ELSE [j \in 1 .. Len(l) + 1 |->
          IF j < i THEN l[j]
          ELSE IF j = i THEN [l[i] EXCEPT !.size = n]
          ELSE IF j = i + 1 THEN [addr |-> l[i].addr + Header + n,
                                  size |-> l[i].size - n, free |-> TRUE]
          ELSE l[j - 1]]

\* Block i keeps n bytes; the rest becomes a free block if a header and a byte
\* fit in it.
split_block(l, i, n) ==
  IF l[i].size - n < Header + 1 THEN l
  ELSE [j \in 1 .. Len(l) + 1 |->
          IF j < i THEN l[j]
          ELSE IF j = i THEN [l[i] EXCEPT !.size = n]
          ELSE IF j = i + 1 THEN [addr |-> l[i].addr + Header + n,
                                  size |-> l[i].size - n - Header, free |-> TRUE]
          ELSE l[j - 1]]

Allocated(l, n) ==
  LET i == find_free_block(l, n)
  IN  [split_block(l, i, n) EXCEPT ![i].free = FALSE]

\* Broken variant: the first merge does not ask whether the block is free.
RunEnd_Unasked(l, i) ==
  CHOOSE j \in i .. Len(l) :
    /\ i < Len(l) => j > i
    /\ \A k \in i + 2 .. j : l[k].free
    /\ j < Len(l) => ~ l[j + 1].free

\* The last of the free blocks that follow block i without a gap.
RunEnd(l, i) ==
  CHOOSE j \in i .. Len(l) :
    /\ \A k \in i + 1 .. j : l[k].free
    /\ j < Len(l) => ~ l[j + 1].free

\* kfree: block i and that run become one free block.  Every header and every
\* size between them goes to it.
Freed(l, i) ==
  LET j == RunEnd(l, i)
  IN  [k \in 1 .. Len(l) - (j - i) |->
         IF k < i THEN l[k]
         ELSE IF k = i THEN [addr |-> l[i].addr, free |-> TRUE,
                             size |-> l[j].addr + l[j].size - l[i].addr]
         ELSE l[k + (j - i)]]

-----------------------------------------------------------------------------
\* The headers tile the heap: no gap, no overlap, nothing past the end.
Tiles(l, end) ==
  /\ l \in Seq(Block) /\ l # <<>> /\ l[1].addr = 0
  /\ \A i \in 1 .. Len(l) - 1 : l[i + 1].addr = l[i].addr + Header + l[i].size
  /\ end = l[Len(l)].addr + Header + l[Len(l)].size

\* The regions handed out and not yet returned.
Regions(l) ==
  {[start |-> l[i].addr + Header, size |-> l[i].size] : i \in {k \in DOMAIN l : ~ l[k].free}}
=============================================================================
