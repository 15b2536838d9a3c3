--------------------------- MODULE HeapBlocksProofs ---------------------------
(***************************************************************************)
(* What splitting, allocating and freeing do to a list of headers that     *)
(* tiles its heap, for every header size and every list.                   *)
(***************************************************************************)
EXTENDS HeapBlocks, WellFoundedInduction, TLAPS

\* A nonempty set of numbers has a least element.
LEMMA LeastNumber ==
  ASSUME NEW T, T \subseteq Nat, T # {}
  PROVE  \E m \in T : \A k \in T : m <= k
<1> DEFINE Less == OpToRel(<, Nat)
<1>1. IsWellFoundedOn(Less, Nat)
  BY NatLessThanWellFounded
<1>2. \A i, j \in Nat : i < j => <<i, j>> \in Less
  BY DEF OpToRel
<1> HIDE DEF Less
<1>3. PICK m \in T : \A k \in T : ~ (<<k, m>> \in Less)
  BY <1>1, WFMin
<1>4. \A k \in T : ~ (k < m)
  BY <1>2, <1>3
<1>5. QED
  BY <1>4

\* A list of blocks and its numbers.
LEMMA Numbers ==
  ASSUME NEW l \in Seq(Block)
  PROVE  /\ Len(l) \in Nat /\ DOMAIN l = 1 .. Len(l)
         /\ \A k \in 1 .. Len(l) : l[k] \in Block /\ l[k].addr \in Nat /\ l[k].size \in Nat
<1>1. /\ Len(l) \in Nat /\ DOMAIN l = 1 .. Len(l)
      /\ \A k \in 1 .. Len(l) : l[k] \in Block
  OBVIOUS
<1>2. \A b \in Block : b.addr \in Nat /\ b.size \in Nat
  BY DEF Block
<1>3. QED
  BY <1>1, <1>2

\* Blocks are in the order of their addresses, and do not touch.
LEMMA InOrder ==
  ASSUME NEW end, NEW l, Tiles(l, end), NEW i \in DOMAIN l, NEW j \in DOMAIN l, i < j
  PROVE  l[i].addr + Header + l[i].size <= l[j].addr
<1> DEFINE T == {k \in i + 1 .. j : l[k].addr < l[i].addr + Header + l[i].size}
<1>1. l \in Seq(Block) /\ DOMAIN l = 1 .. Len(l) /\ Len(l) \in Nat
  BY Numbers DEF Tiles
<1>2. \A k \in DOMAIN l : l[k].addr \in Nat /\ l[k].size \in Nat
  BY <1>1, Numbers
<1>3. SUFFICES ASSUME T # {} PROVE FALSE
  <2>1. j \notin T
    BY <1>3
  <2>2. j \in i + 1 .. j
    BY <1>1
  <2>3. l[i].addr \in Nat /\ l[i].size \in Nat /\ l[j].addr \in Nat
    BY <1>2
  <2>4. ~ (l[j].addr < l[i].addr + Header + l[i].size)
    BY <2>1, <2>2
  <2>5. QED
    BY <2>3, <2>4, HeaderAssumption
<1>4. PICK m \in T : \A k \in T : m <= k
  <2>1. T \subseteq Nat
    BY <1>1
  <2> HIDE DEF T
  <2>2. QED
    BY <1>3, <2>1, LeastNumber
<1>5. m # i + 1
  BY <1>1, <1>2, HeaderAssumption DEF Tiles
<1>6. m - 1 \in i + 1 .. j /\ m - 1 \notin T
  BY <1>1, <1>4, <1>5
<1>7. l[m - 1].addr + Header + l[m - 1].size = l[m].addr
  BY <1>1, <1>4, <1>5 DEF Tiles
<1>8. m - 1 \in DOMAIN l /\ m \in DOMAIN l
  BY <1>1, <1>4, <1>6
<1>9. QED
  BY <1>2, <1>4, <1>6, <1>7, <1>8, HeaderAssumption

\* Every block ends inside the heap.
LEMMA Inside ==
  ASSUME NEW end, NEW l, Tiles(l, end), NEW i \in DOMAIN l
  PROVE  /\ l[i].addr \in Nat /\ l[i].size \in Nat /\ end \in Nat
         /\ l[i].addr + Header + l[i].size <= end
<1>1. l \in Seq(Block) /\ DOMAIN l = 1 .. Len(l) /\ Len(l) \in Nat \ {0}
  BY Numbers DEF Tiles
<1>2. \A k \in DOMAIN l : l[k].addr \in Nat /\ l[k].size \in Nat
  BY <1>1, Numbers
<1>3. end = l[Len(l)].addr + Header + l[Len(l)].size
  BY DEF Tiles
<1>4. CASE i = Len(l)
  BY <1>1, <1>2, <1>3, <1>4, HeaderAssumption
<1>5. CASE i # Len(l)
  <2>1. l[i].addr + Header + l[i].size <= l[Len(l)].addr
    BY <1>1, <1>5, InOrder
  <2>2. Len(l) \in DOMAIN l
    BY <1>1
  <2>3. l[Len(l)].addr \in Nat /\ l[Len(l)].size \in Nat
    BY <1>2, <2>2
  <2>4. l[i].addr \in Nat /\ l[i].size \in Nat
    BY <1>2
  <2>5. \A a, b, c, d \in Nat : a + Header + b <= c =>
          c + Header + d \in Nat /\ a + Header + b <= c + Header + d
    BY HeaderAssumption
  <2>6. QED
    BY <1>3, <2>1, <2>3, <2>4, <2>5
<1>6. QED
  BY <1>4, <1>5

\* find_free_block's block is free and long enough.
LEMMA FoundFits ==
  ASSUME NEW l \in Seq(Block), NEW n, Fits(l, n) # {}
  PROVE  find_free_block(l, n) \in Fits(l, n)
<1>1. Fits(l, n) \subseteq Nat
  BY DEF Fits
<1>2. \E i \in Fits(l, n) : \A j \in Fits(l, n) : i <= j
  BY <1>1, LeastNumber
<1>3. QED
  BY <1>2 DEF find_free_block

\* Splitting a block that is long enough keeps the heap tiled.
LEMMA SplitTiles ==
  ASSUME NEW end, NEW l, Tiles(l, end), NEW i \in DOMAIN l, NEW n \in Nat,
         l[i].size >= n
  PROVE  /\ Tiles(split_block(l, i, n), end)
         /\ i \in DOMAIN split_block(l, i, n)
         /\ split_block(l, i, n)[i].addr = l[i].addr
         /\ split_block(l, i, n)[i].size >= n
<1>1. l \in Seq(Block) /\ DOMAIN l = 1 .. Len(l) /\ Len(l) \in Nat \ {0} /\ i \in 1 .. Len(l)
  BY Numbers DEF Tiles
<1>2. \A k \in DOMAIN l : l[k].addr \in Nat /\ l[k].size \in Nat /\ l[k] \in Block
  BY <1>1, Numbers
<1>3. CASE l[i].size - n < Header + 1
  BY <1>1, <1>3 DEF split_block
<1>4. CASE ~ (l[i].size - n < Header + 1)
  <2> DEFINE s == split_block(l, i, n)
             a == [l[i] EXCEPT !.size = n]
             b == [addr |-> l[i].addr + Header + n, size |-> l[i].size - n - Header,
                   free |-> TRUE]
  <2>1. s = [j \in 1 .. Len(l) + 1 |-> IF j < i THEN l[j] ELSE IF j = i THEN a
                                       ELSE IF j = i + 1 THEN b ELSE l[j - 1]]
    BY <1>4 DEF split_block
  <2>2. a \in Block /\ a.addr = l[i].addr /\ a.size = n
    BY <1>2 DEF Block
  <2>3. /\ b \in Block /\ b.addr = l[i].addr + Header + n
        /\ b.size = l[i].size - n - Header
    BY <1>1, <1>2, <1>4, HeaderAssumption, SMTT(30) DEF Block
  <2> HIDE DEF a, b, s
  <2>4. \A j \in 1 .. Len(l) + 1 : s[j] \in Block
    BY <1>1, <1>2, <2>1, <2>2, <2>3
  <2>5. s \in Seq(Block) /\ Len(s) = Len(l) + 1 /\ DOMAIN s = 1 .. Len(l) + 1
    BY <1>1, <2>1, <2>4
  <2>6. s # <<>> /\ s[1].addr = 0
    BY <1>1, <2>1, <2>2, <2>5 DEF Tiles
  <2>7. \A j \in 1 .. Len(s) - 1 : s[j + 1].addr = s[j].addr + Header + s[j].size
    <3> SUFFICES ASSUME NEW j \in 1 .. Len(l)
                 PROVE  s[j + 1].addr = s[j].addr + Header + s[j].size
      BY <1>1, <2>5
    <3>1. CASE j + 1 < i
      BY <1>1, <2>1, <3>1 DEF Tiles
    <3>2. CASE j + 1 = i
      BY <1>1, <2>1, <2>2, <3>2 DEF Tiles
    <3>3. CASE j = i
      BY <1>1, <2>1, <2>2, <2>3, <3>3
    <3>4. CASE j = i + 1
      <4>1. s[j] = b /\ s[j + 1] = l[i + 1]
        BY <1>1, <2>1, <3>4
      <4>2. l[i + 1].addr = l[i].addr + Header + l[i].size
        BY <1>1, <3>4 DEF Tiles
      <4>3. QED
        BY <1>1, <1>2, <2>3, <4>1, <4>2, HeaderAssumption, SMTT(30)
    <3>5. CASE j > i + 1
      <4>1. s[j] = l[j - 1] /\ s[j + 1] = l[j]
        <5>1. j \in 1 .. Len(l) + 1 /\ j + 1 \in 1 .. Len(l) + 1
          BY <1>1
        <5>2. ~ (j < i) /\ j # i /\ j # i + 1 /\ ~ (j + 1 < i) /\ j + 1 # i /\ j + 1 # i + 1
          BY <1>1, <3>5
        <5>3. (j + 1) - 1 = j
          OBVIOUS
        <5>4. QED
          BY <2>1, <5>1, <5>2, <5>3
      <4>2. l[(j - 1) + 1].addr = l[j - 1].addr + Header + l[j - 1].size
        BY <1>1, <3>5 DEF Tiles
      <4>3. QED
        BY <4>1, <4>2
    <3>6. QED
      BY <1>1, <3>1, <3>2, <3>3, <3>4, <3>5
  <2>8. end = s[Len(s)].addr + Header + s[Len(s)].size
    <3>1. CASE i = Len(l)
      <4>1. s[Len(s)] = b
        <5>1. i + 1 \in 1 .. Len(l) + 1 /\ Len(s) = i + 1
          BY <1>1, <2>5, <3>1
        <5>2. ~ (i + 1 < i) /\ i + 1 # i
          BY <1>1
        <5>3. QED
          BY <2>1, <5>1, <5>2
      <4>2. end = l[i].addr + Header + l[i].size /\ l[i].addr \in Nat /\ l[i].size \in Nat
        BY <1>2, <3>1 DEF Tiles
      <4>3. QED
        BY <2>3, <4>1, <4>2, HeaderAssumption
    <3>2. CASE i # Len(l)
      BY <1>1, <2>1, <2>5, <3>2 DEF Tiles
    <3>3. QED
      BY <3>1, <3>2
  <2>9. Tiles(s, end)
    BY <2>5, <2>6, <2>7, <2>8 DEF Tiles
  <2>10. i \in DOMAIN s /\ s[i].addr = l[i].addr /\ s[i].size >= n
    BY <1>1, <2>1, <2>2, <2>5
  <2>11. QED
    BY <2>9, <2>10 DEF s
<1>5. QED
  BY <1>3, <1>4

\* Taking a block for a request keeps the heap tiled.
LEMMA AllocatedTiles ==
  ASSUME NEW end, NEW l, Tiles(l, end), NEW n \in Nat, Fits(l, n) # {}
  PROVE  Tiles(Allocated(l, n), end)
<1> DEFINE i == find_free_block(l, n)
           s == split_block(l, i, n)
<1>1. i \in DOMAIN l /\ l[i].size >= n
  BY FoundFits DEF Fits, Tiles
<1> HIDE DEF i
<1>2. Tiles(s, end) /\ i \in DOMAIN s
  BY <1>1, SplitTiles
<1> HIDE DEF s
<1>3. Tiles([s EXCEPT ![i].free = FALSE], end)
  <2> DEFINE t == [s EXCEPT ![i].free = FALSE]
  <2>1. /\ s \in Seq(Block) /\ Len(s) \in Nat /\ DOMAIN s = 1 .. Len(s)
        /\ \A k \in 1 .. Len(s) : s[k] \in Block
    BY <1>2, Numbers DEF Tiles
  <2>2. [s[i] EXCEPT !.free = FALSE] \in Block
    BY <1>2, <2>1 DEF Block
  <2>3. t \in Seq(Block) /\ Len(t) = Len(s) /\ DOMAIN t = DOMAIN s
    BY <1>2, <2>1, <2>2
  <2>4. \A k \in 1 .. Len(s) : t[k].addr = s[k].addr /\ t[k].size = s[k].size
    BY <1>2, <2>1 DEF Block
  <2> HIDE DEF t
  <2>5. t # <<>> /\ 1 \in 1 .. Len(s) /\ Len(s) \in 1 .. Len(s)
    BY <1>2, <2>1, <2>3 DEF Tiles
  <2>6. \A k \in 1 .. Len(s) - 1 : k \in 1 .. Len(s) /\ k + 1 \in 1 .. Len(s)
    BY <2>1
  <2>7. Tiles(t, end)
    BY <1>2, <2>3, <2>4, <2>5, <2>6 DEF Tiles
  <2>8. QED
    BY <2>7 DEF t
<1>4. QED
  BY <1>3 DEF Allocated, i, s

\* The run of free blocks after block i has a last block.
LEMMA RunEnds ==
  ASSUME NEW l \in Seq(Block), NEW i \in DOMAIN l
  PROVE  /\ RunEnd(l, i) \in i .. Len(l)
         /\ \A k \in i + 1 .. RunEnd(l, i) : l[k].free
<1> DEFINE T == {j \in i .. Len(l) : j < Len(l) => ~ l[j + 1].free}
<1>1. Len(l) \in Nat /\ DOMAIN l = 1 .. Len(l) /\ i \in 1 .. Len(l)
  BY Numbers
<1>2. T \subseteq Nat /\ Len(l) \in T
  BY <1>1
<1>3. PICK m \in T : \A k \in T : m <= k
  <2> HIDE DEF T
  <2>1. QED
    BY <1>2, LeastNumber
<1>4. \A k \in i + 1 .. m : l[k].free
  <2> SUFFICES ASSUME NEW k \in i + 1 .. m PROVE l[k].free
    OBVIOUS
  <2>1. k - 1 \notin T /\ k - 1 \in i .. Len(l) /\ k - 1 < Len(l) /\ (k - 1) + 1 = k
    BY <1>1, <1>3
  <2>2. QED
    BY <2>1
<1>5. m \in i .. Len(l) /\ (m < Len(l) => ~ l[m + 1].free)
  BY <1>3
<1> HIDE DEF T
<1>6. \E j \in i .. Len(l) : /\ \A k \in i + 1 .. j : l[k].free
                             /\ j < Len(l) => ~ l[j + 1].free
  BY <1>4, <1>5
<1>7. QED
  BY <1>6 DEF RunEnd

\* What Freed makes of a list, by position.
LEMMA FreedAt ==
  ASSUME NEW end, NEW l, Tiles(l, end), NEW i \in DOMAIN l
  PROVE  LET d == RunEnd(l, i) - i
             f == Freed(l, i)
         IN  /\ d \in Nat /\ i + d <= Len(l)
             /\ f \in Seq(Block) /\ Len(f) = Len(l) - d /\ DOMAIN f = 1 .. Len(l) - d
             /\ \A k \in 1 .. i - 1 : f[k] = l[k]
             /\ f[i].addr = l[i].addr /\ f[i].free
             /\ f[i].size = l[i + d].addr + l[i + d].size - l[i].addr
             /\ \A k \in i + 1 .. Len(l) - d : f[k] = l[k + d]
<1> DEFINE j == RunEnd(l, i)
           d == j - i
           f == Freed(l, i)
           b == [addr |-> l[i].addr, free |-> TRUE,
                 size |-> l[j].addr + l[j].size - l[i].addr]
<1>1. /\ l \in Seq(Block) /\ DOMAIN l = 1 .. Len(l) /\ Len(l) \in Nat /\ i \in 1 .. Len(l)
      /\ \A k \in 1 .. Len(l) : l[k] \in Block /\ l[k].addr \in Nat /\ l[k].size \in Nat
  BY Numbers DEF Tiles
<1>2. j \in i .. Len(l)
  BY <1>1, RunEnds
<1>3. d \in Nat /\ i + d = j /\ j \in 1 .. Len(l)
  BY <1>1, <1>2
<1>4. l[j].addr + l[j].size - l[i].addr \in Nat
  <2>1. CASE i = j
    BY <1>1, <2>1
  <2>2. CASE i # j
    <3>1. l[i].addr + Header + l[i].size <= l[j].addr
      <4>1. j \in DOMAIN l /\ i < j
        BY <1>1, <1>2, <1>3, <2>2
      <4> HIDE DEF j
      <4>2. QED
        BY <4>1, InOrder
    <3>2. \A p, q, r, t \in Nat : p + Header + q <= r => r + t - p \in Nat
      BY HeaderAssumption
    <3>3. QED
      BY <1>1, <1>3, <3>1, <3>2
  <2>3. QED
    BY <2>1, <2>2
<1>5. f = [k \in 1 .. Len(l) - d |-> IF k < i THEN l[k] ELSE IF k = i THEN b
                                     ELSE l[k + d]]
  BY DEF Freed
<1>6. b \in Block /\ b.addr = l[i].addr /\ b.free
      /\ b.size = l[j].addr + l[j].size - l[i].addr
  BY <1>1, <1>4 DEF Block
<1> HIDE DEF j, d, f, b
<1>7. i \in 1 .. Len(l) - d
  BY <1>1, <1>2, <1>3
<1>8. \A k \in i + 1 .. Len(l) - d : k + d \in 1 .. Len(l)
  BY <1>1, <1>3
<1>9. \A k \in 1 .. Len(l) - d : f[k] \in Block
  BY <1>1, <1>3, <1>5, <1>6, <1>8, SMTT(30)
<1>10. Len(l) - d \in Nat
  BY <1>1, <1>2, <1>3
<1>11. f \in Seq(Block) /\ Len(f) = Len(l) - d /\ DOMAIN f = 1 .. Len(l) - d
  BY <1>5, <1>9, <1>10
<1>12. f[i] = b
  BY <1>1, <1>5, <1>7
<1>13. \A k \in 1 .. i - 1 : f[k] = l[k]
  <2>1. \A k \in 1 .. i - 1 : k \in 1 .. Len(l) - d /\ k < i
    BY <1>1, <1>3, <1>7, <1>10
  <2>2. QED
    BY <1>5, <2>1
<1>14. \A k \in i + 1 .. Len(l) - d : f[k] = l[k + d]
  BY <1>1, <1>5, <1>7
<1>15. i + d <= Len(l)
  BY <1>1, <1>2, <1>3
<1>16. QED
  BY <1>3, <1>6, <1>11, <1>12, <1>13, <1>14, <1>15 DEF j, d, f

\* Freeing a block, with the merging, keeps the heap tiled.
LEMMA FreedTiles ==
  ASSUME NEW end, NEW l, Tiles(l, end), NEW i \in DOMAIN l
  PROVE  Tiles(Freed(l, i), end)
<1> DEFINE d == RunEnd(l, i) - i
           f == Freed(l, i)
<1>1. /\ DOMAIN l = 1 .. Len(l) /\ Len(l) \in Nat /\ i \in 1 .. Len(l)
      /\ \A k \in 1 .. Len(l) : l[k].addr \in Nat /\ l[k].size \in Nat
  BY Numbers DEF Tiles
<1>2. /\ d \in Nat /\ i + d <= Len(l)
      /\ f \in Seq(Block) /\ Len(f) = Len(l) - d /\ DOMAIN f = 1 .. Len(l) - d
      /\ \A k \in 1 .. i - 1 : f[k] = l[k]
      /\ f[i].addr = l[i].addr
      /\ f[i].size = l[i + d].addr + l[i + d].size - l[i].addr
      /\ \A k \in i + 1 .. Len(l) - d : f[k] = l[k + d]
  BY FreedAt
<1> HIDE DEF d, f
<1>3. /\ i \in Nat /\ d \in Nat /\ Len(l) \in Nat /\ Len(f) \in Nat
      /\ 1 <= i /\ i + d <= Len(l) /\ Len(f) = Len(l) - d
  BY <1>1, <1>2
<1>4. f[i].addr + Header + f[i].size = l[i + d].addr + Header + l[i + d].size
  <2>1. i + d \in 1 .. Len(l)
    BY <1>3
  <2>2. l[i + d].addr \in Nat /\ l[i + d].size \in Nat /\ l[i].addr \in Nat
    BY <1>1, <2>1
  <2>3. \A p, q, r \in Nat : p + Header + (q + r - p) = q + Header + r
    BY HeaderAssumption
  <2>4. f[i].addr = l[i].addr /\ f[i].size = l[i + d].addr + l[i + d].size - l[i].addr
    BY <1>2
  <2>5. l[i].addr + Header + (l[i + d].addr + l[i + d].size - l[i].addr)
          = l[i + d].addr + Header + l[i + d].size
    BY <2>2, <2>3
  <2>6. QED
    BY <2>4, <2>5
<1>5. f # <<>> /\ f[1].addr = 0
  <2>1. Len(f) # 0 /\ l[1].addr = 0
    BY <1>3 DEF Tiles
  <2>2. f # <<>>
    BY <1>2, <2>1
  <2>3. CASE i = 1
    BY <1>2, <2>1, <2>2, <2>3
  <2>4. CASE i # 1
    <3>1. 1 \in 1 .. i - 1
      BY <1>3, <2>4
    <3>2. QED
      BY <1>2, <2>1, <2>2, <3>1
  <2>5. QED
    BY <2>3, <2>4
<1>6. \A k \in 1 .. Len(l) - 1 : l[k + 1].addr = l[k].addr + Header + l[k].size
  BY DEF Tiles
<1>7. ASSUME NEW k \in 1 .. Len(f) - 1
      PROVE  f[k + 1].addr = f[k].addr + Header + f[k].size
  <2>1. k \in Nat /\ 1 <= k /\ k + d + 1 <= Len(l)
    BY <1>3
  <2>2. CASE k < i
    <3>1. k \in 1 .. Len(l) - 1 /\ k \in 1 .. i - 1
      BY <1>3, <2>1, <2>2
    <3>2. f[k + 1].addr = l[k + 1].addr
      <4>1. CASE k + 1 = i
        BY <1>2, <4>1
      <4>2. CASE k + 1 # i
        <5>1. k + 1 \in 1 .. i - 1
          BY <1>3, <2>1, <2>2, <4>2
        <5>2. QED
          BY <1>2, <5>1
      <4>3. QED
        BY <4>1, <4>2
    <3>3. f[k] = l[k]
      BY <1>2, <3>1
    <3>4. QED
      BY <1>6, <3>1, <3>2, <3>3
  <2>3. CASE k = i
    <3>1. i + d \in 1 .. Len(l) - 1 /\ k + 1 \in i + 1 .. Len(l) - d
      BY <1>3, <2>1, <2>3
    <3>2. (k + 1) + d = (i + d) + 1
      BY <1>3, <2>1, <2>3
    <3>3. f[k + 1] = l[(i + d) + 1]
      BY <1>2, <3>1, <3>2
    <3>4. l[(i + d) + 1].addr = l[i + d].addr + Header + l[i + d].size
      BY <1>6, <3>1
    <3>5. QED
      BY <1>4, <2>3, <3>3, <3>4
  <2>4. CASE k > i
    <3>1. k \in i + 1 .. Len(l) - d /\ k + 1 \in i + 1 .. Len(l) - d
      BY <1>3, <2>1, <2>4
    <3>2. k + d \in 1 .. Len(l) - 1 /\ (k + 1) + d = (k + d) + 1
      BY <1>3, <2>1
    <3>3. f[k] = l[k + d] /\ f[k + 1] = l[(k + d) + 1]
      BY <1>2, <3>1, <3>2
    <3>4. l[(k + d) + 1].addr = l[k + d].addr + Header + l[k + d].size
      BY <1>6, <3>2
    <3>5. QED
      BY <3>3, <3>4
  <2>5. QED
    BY <1>3, <2>1, <2>2, <2>3, <2>4
<1>8. end = f[Len(f)].addr + Header + f[Len(f)].size
  <2>1. end = l[Len(l)].addr + Header + l[Len(l)].size
    BY DEF Tiles
  <2>2. CASE i + d = Len(l)
    <3>1. Len(f) = i
      BY <1>3, <2>2
    <3>2. QED
      BY <1>4, <2>1, <2>2, <3>1
  <2>3. CASE i + d # Len(l)
    <3>1. Len(f) \in i + 1 .. Len(l) - d /\ Len(f) + d = Len(l)
      BY <1>3, <2>3
    <3>2. f[Len(f)] = l[Len(l)]
      BY <1>2, <3>1
    <3>3. QED
      BY <2>1, <3>2
  <2>4. QED
    BY <2>2, <2>3
<1>9. Tiles(f, end)
  BY <1>2, <1>5, <1>7, <1>8 DEF Tiles
<1>10. QED
  BY <1>9 DEF f

\* Lengthening the last block, or adding one of a header and s bytes, tiles the
\* longer heap.
LEMMA GrownTiles ==
  ASSUME NEW end, NEW l, Tiles(l, end), NEW n \in Nat, NEW s \in Nat
  PROVE  /\ n = Header + s =>
              Tiles(Append(l, [addr |-> end, size |-> s, free |-> TRUE]), end + n)
         /\ Tiles([l EXCEPT ![Len(l)].size = @ + n], end + n)
<1>1. /\ l \in Seq(Block) /\ DOMAIN l = 1 .. Len(l) /\ Len(l) \in Nat \ {0}
      /\ \A k \in 1 .. Len(l) : l[k] \in Block /\ l[k].addr \in Nat /\ l[k].size \in Nat
      /\ end \in Nat
  BY Numbers, Inside DEF Tiles
<1>2. /\ l[1].addr = 0 /\ end = l[Len(l)].addr + Header + l[Len(l)].size
      /\ \A k \in 1 .. Len(l) - 1 : l[k + 1].addr = l[k].addr + Header + l[k].size
  BY DEF Tiles
<1>3. ASSUME n = Header + s
      PROVE  Tiles(Append(l, [addr |-> end, size |-> s, free |-> TRUE]), end + n)
  <2> DEFINE b == [addr |-> end, size |-> s, free |-> TRUE]
             a == Append(l, b)
  <2>1. b \in Block /\ b.addr = end /\ b.size = s
    BY <1>1 DEF Block
  <2> HIDE DEF b
  <2>2. a \in Seq(Block) /\ Len(a) = Len(l) + 1
    BY <1>1, <2>1
  <2>3. (\A k \in 1 .. Len(l) : a[k] = l[k]) /\ a[Len(l) + 1] = b
    BY <1>1, <2>1
  <2> HIDE DEF a
  <2>4. 1 \in 1 .. Len(l) /\ Len(l) \in 1 .. Len(l)
    BY <1>1
  <2>5. a # <<>> /\ a[1].addr = 0
    BY <1>1, <1>2, <2>2, <2>3, <2>4
  <2>6. ASSUME NEW k \in 1 .. Len(a) - 1
        PROVE  a[k + 1].addr = a[k].addr + Header + a[k].size
    <3>1. CASE k = Len(l)
      BY <1>2, <2>1, <2>3, <2>4, <3>1
    <3>2. CASE k # Len(l)
      <4>1. k \in 1 .. Len(l) /\ Len(l) \in Nat
        BY <1>1, <2>2
      <4>2. k \in 1 .. Len(l) - 1 /\ k + 1 \in 1 .. Len(l)
        BY <3>2, <4>1
      <4>3. QED
        BY <1>2, <2>3, <4>1, <4>2
    <3>3. QED
      BY <3>1, <3>2
  <2>7. end + n = b.addr + Header + b.size
    BY <1>1, <1>3, <2>1, HeaderAssumption
  <2>8. Tiles(a, end + n)
    BY <2>2, <2>3, <2>5, <2>6, <2>7 DEF Tiles
  <2>9. QED
    BY <2>8 DEF a, b
<1>4. Tiles([l EXCEPT ![Len(l)].size = @ + n], end + n)
  <2> DEFINE a == [l EXCEPT ![Len(l)].size = @ + n]
             b == [l[Len(l)] EXCEPT !.size = @ + n]
  <2>1. 1 \in 1 .. Len(l) /\ Len(l) \in 1 .. Len(l)
    BY <1>1
  <2>2. b \in Block /\ b.addr = l[Len(l)].addr /\ b.size = l[Len(l)].size + n
    BY <1>1, <2>1, SMTT(30) DEF Block
  <2>3. a = [k \in 1 .. Len(l) |-> IF k = Len(l) THEN b ELSE l[k]]
    BY <1>1
  <2> HIDE DEF b, a
  <2>4. a \in Seq(Block) /\ Len(a) = Len(l)
    <3>1. \A k \in 1 .. Len(l) : a[k] \in Block
      BY <1>1, <2>2, <2>3
    <3>2. Len(l) \in Nat
      BY <1>1
    <3>3. QED
      BY <2>3, <3>1, <3>2
  <2>5. \A k \in 1 .. Len(l) : a[k].addr = l[k].addr
    BY <2>2, <2>3
  <2>6. (\A k \in 1 .. Len(l) - 1 : k \in 1 .. Len(l) /\ k + 1 \in 1 .. Len(l) /\ a[k] = l[k])
        /\ a[Len(l)] = b
    <3>1. Len(l) \in Nat
      BY <1>1
    <3>2. \A k \in 1 .. Len(l) - 1 :
            k \in 1 .. Len(l) /\ k + 1 \in 1 .. Len(l) /\ k # Len(l)
      BY <3>1
    <3>3. QED
      BY <2>1, <2>3, <3>2
  <2>7. \A k \in 1 .. Len(a) - 1 : a[k + 1].addr = a[k].addr + Header + a[k].size
    BY <1>2, <2>4, <2>5, <2>6
  <2>8. end + n = b.addr + Header + b.size
    <3>1. \A p, q \in Nat : (p + Header + q) + n = p + Header + (q + n)
      BY HeaderAssumption
    <3>2. l[Len(l)].addr \in Nat /\ l[Len(l)].size \in Nat
      BY <1>1, <2>1
    <3>3. PICK p \in Nat, q \in Nat : p = l[Len(l)].addr /\ q = l[Len(l)].size
      BY <3>2
    <3>4. end = p + Header + q
      BY <1>2, <3>3
    <3>5. b.addr = p /\ b.size = q + n
      BY <2>2, <3>3
    <3>6. QED
      BY <3>1, <3>4, <3>5
  <2>9. a # <<>> /\ a[1].addr = 0
    BY <1>1, <1>2, <2>1, <2>4, <2>5
  <2>10. Tiles(a, end + n)
    BY <2>4, <2>6, <2>7, <2>8, <2>9 DEF Tiles
  <2>11. QED
    BY <2>10 DEF a
<1>5. QED
  BY <1>3, <1>4

\* Allocation moves no header.
LEMMA AllocatedKeeps ==
  ASSUME NEW end, NEW l, Tiles(l, end), NEW n \in Nat, Fits(l, n) # {},
         NEW k \in DOMAIN l
  PROVE  \E m \in DOMAIN Allocated(l, n) : Allocated(l, n)[m].addr = l[k].addr
<1> DEFINE i == find_free_block(l, n)
           s == split_block(l, i, n)
           t == [s EXCEPT ![i].free = FALSE]
<1>1. i \in DOMAIN l /\ l[i].size >= n
  BY FoundFits DEF Fits, Tiles
<1> HIDE DEF i
<1>2. Tiles(s, end) /\ s[i].addr = l[i].addr
  BY <1>1, SplitTiles
<1>3. /\ DOMAIN s \subseteq Nat
      /\ \A m \in DOMAIN s : s[m] \in Block
  BY <1>2, Numbers DEF Tiles
<1>4. \E m \in DOMAIN s : s[m].addr = l[k].addr
  <2>1. DOMAIN l = 1 .. Len(l) /\ Len(l) \in Nat /\ i \in 1 .. Len(l) /\ k \in 1 .. Len(l)
    BY <1>1, Numbers DEF Tiles
  <2>2. CASE l[i].size - n < Header + 1
    BY <2>2 DEF split_block
  <2>3. CASE ~ (l[i].size - n < Header + 1)
    <3>1. /\ DOMAIN s = 1 .. Len(l) + 1
          /\ \A m \in 1 .. Len(l) + 1 : m < i => s[m] = l[m]
          /\ \A m \in 1 .. Len(l) + 1 : m > i + 1 => s[m] = l[m - 1]
      BY <2>1, <2>3 DEF split_block
    <3> HIDE DEF s
    <3>2. CASE k = i
      <4>1. i \in DOMAIN s
        BY <2>1, <3>1
      <4>2. QED
        BY <1>2, <3>2, <4>1
    <3>3. CASE k < i
      <4>1. k \in 1 .. Len(l) + 1
        BY <2>1
      <4>2. QED
        BY <3>1, <3>3, <4>1
    <3>4. CASE k > i
      <4>1. k + 1 \in 1 .. Len(l) + 1 /\ k + 1 > i + 1 /\ (k + 1) - 1 = k
        BY <2>1, <3>4
      <4>2. s[k + 1] = l[k]
        BY <3>1, <4>1
      <4>3. QED
        BY <3>1, <4>1, <4>2
    <3>5. QED
      BY <2>1, <3>2, <3>3, <3>4
  <2>4. QED
    BY <2>2, <2>3
<1> HIDE DEF s
<1>5. DOMAIN t = DOMAIN s /\ \A m \in DOMAIN s : t[m].addr = s[m].addr
  BY <1>3 DEF Block
<1>6. Allocated(l, n) = t
  BY DEF Allocated, i, s
<1>7. QED
  BY <1>4, <1>5, <1>6

\* What Allocated makes of a list: block i is used and long enough, every other
\* block is free and new or is as it was.
LEMMA AllocatedAt ==
  ASSUME NEW end, NEW l, Tiles(l, end), NEW n \in Nat, Fits(l, n) # {}
  PROVE  LET i == find_free_block(l, n)
             a == Allocated(l, n)
         IN  /\ i \in DOMAIN l /\ l[i].free /\ i \in DOMAIN a
             /\ a[i].addr = l[i].addr /\ ~ a[i].free
             /\ a[i].size \in Nat /\ a[i].size >= n /\ a[i].size <= l[i].size
             /\ \A k \in DOMAIN a \ {i} :
                  a[k].free \/ \E m \in DOMAIN l \ {i} : a[k] = l[m]
             /\ \A m \in DOMAIN l \ {i} : \E k \in DOMAIN a \ {i} : a[k] = l[m]
<1> DEFINE i == find_free_block(l, n)
           s == split_block(l, i, n)
           a == Allocated(l, n)
<1>1. i \in DOMAIN l /\ l[i].free /\ l[i].size >= n
  BY FoundFits DEF Fits, Tiles
<1>2. a = [s EXCEPT ![i].free = FALSE]
  BY DEF Allocated
<1> HIDE DEF i, a
<1>3. /\ l \in Seq(Block) /\ DOMAIN l = 1 .. Len(l) /\ Len(l) \in Nat /\ i \in 1 .. Len(l)
      /\ \A k \in 1 .. Len(l) : l[k] \in Block /\ l[k].addr \in Nat /\ l[k].size \in Nat
  BY <1>1, Numbers DEF Tiles
<1>4. i \in Nat
  BY <1>3
<1>5. CASE l[i].size - n < Header + 1
  <2>1. s = l
    BY <1>5 DEF split_block
  <2>2. /\ DOMAIN a = DOMAIN l /\ a[i] = [l[i] EXCEPT !.free = FALSE]
        /\ \A k \in DOMAIN l \ {i} : a[k] = l[k]
    BY <1>1, <1>2, <2>1
  <2>3. a[i].addr = l[i].addr /\ a[i].size = l[i].size /\ ~ a[i].free
    BY <1>3, <2>2 DEF Block
  <2>4. QED
    BY <1>1, <1>3, <2>2, <2>3 DEF i, a
<1>6. CASE ~ (l[i].size - n < Header + 1)
  <2> DEFINE b == [l[i] EXCEPT !.size = n]
             c == [addr |-> l[i].addr + Header + n, size |-> l[i].size - n - Header,
                   free |-> TRUE]
  <2>1. s = [j \in 1 .. Len(l) + 1 |-> IF j < i THEN l[j] ELSE IF j = i THEN b
                                       ELSE IF j = i + 1 THEN c ELSE l[j - 1]]
    BY <1>6 DEF split_block
  <2>2. b \in Block /\ b.addr = l[i].addr /\ b.size = n
    BY <1>3 DEF Block
  <2>3. c.free
    OBVIOUS
  <2> HIDE DEF s, b, c
  <2>4. i \in 1 .. Len(l) + 1 /\ i + 1 \in 1 .. Len(l) + 1 /\ i + 1 # i /\ ~ (i + 1 < i)
    BY <1>3
  <2>5. s[i] = b /\ s[i + 1] = c
    BY <1>4, <2>1, <2>4
  <2>6. /\ DOMAIN a = 1 .. Len(l) + 1 /\ a[i] = [b EXCEPT !.free = FALSE]
        /\ \A k \in (1 .. Len(l) + 1) \ {i} : a[k] = s[k]
    BY <1>2, <2>1, <2>4, <2>5
  <2>7. a[i].addr = l[i].addr /\ a[i].size = n /\ ~ a[i].free
    BY <2>2, <2>6 DEF Block
  <2>8. ASSUME NEW k \in DOMAIN a \ {i}
        PROVE  a[k].free \/ \E m \in DOMAIN l \ {i} : a[k] = l[m]
    <3>1. k \in 1 .. Len(l) + 1 /\ k # i /\ a[k] = s[k]
      BY <2>6
    <3>2. CASE k < i
      <4>1. k \in DOMAIN l \ {i} /\ s[k] = l[k]
        BY <1>3, <2>1, <3>1, <3>2
      <4>2. QED
        BY <3>1, <4>1
    <3>3. CASE k = i + 1
      BY <2>3, <2>5, <3>1, <3>3
    <3>4. CASE k > i + 1
      <4>1. k - 1 \in 1 .. Len(l) /\ k - 1 # i /\ ~ (k < i) /\ k # i /\ k # i + 1
        BY <1>3, <1>4, <3>1, <3>4
      <4>2. s[k] = l[k - 1]
        BY <2>1, <3>1, <4>1
      <4>3. QED
        BY <1>3, <3>1, <4>1, <4>2
    <3>5. QED
      BY <1>3, <3>1, <3>2, <3>3, <3>4
  <2>9. ASSUME NEW m \in DOMAIN l \ {i}
        PROVE  \E k \in DOMAIN a \ {i} : a[k] = l[m]
    <3>1. m \in 1 .. Len(l) /\ m # i
      BY <1>3
    <3>2. CASE m < i
      <4>1. m \in 1 .. Len(l) + 1
        BY <1>3, <3>1
      <4>2. s[m] = l[m]
        BY <2>1, <3>2, <4>1
      <4>3. QED
        BY <2>6, <3>1, <4>1, <4>2
    <3>3. CASE m > i
      <4>1. /\ m + 1 \in 1 .. Len(l) + 1 /\ ~ (m + 1 < i) /\ m + 1 # i /\ m + 1 # i + 1
            /\ (m + 1) - 1 = m
        BY <1>3, <1>4, <3>1, <3>3
      <4>2. s[m + 1] = l[m]
        BY <2>1, <4>1
      <4>3. QED
        BY <2>6, <4>1, <4>2
    <3>4. QED
      BY <1>3, <3>1, <3>2, <3>3
  <2>10. l[i].size \in Nat /\ n <= l[i].size /\ i \in DOMAIN a
    BY <1>1, <1>3, <2>4, <2>6
  <2>11. QED
    BY <1>1, <2>7, <2>8, <2>9, <2>10 DEF i, a
<1>7. QED
  BY <1>5, <1>6

\* The region of a block, its header left out.
Region(b) == [start |-> b.addr + Header, size |-> b.size]

\* Regions, block by block.
LEMMA RegionsAre ==
  ASSUME NEW l
  PROVE  /\ \A k \in DOMAIN l : ~ l[k].free => Region(l[k]) \in Regions(l)
         /\ \A r \in Regions(l) : \E k \in DOMAIN l : ~ l[k].free /\ r = Region(l[k])
BY DEF Regions, Region

\* The regions of two blocks do not meet.
LEMMA RegionsApart ==
  ASSUME NEW end, NEW l, Tiles(l, end), NEW i \in DOMAIN l, NEW j \in DOMAIN l, i # j
  PROVE  \/ Region(l[i]).start + Region(l[i]).size + Header <= Region(l[j]).start
         \/ Region(l[j]).start + Region(l[j]).size + Header <= Region(l[i]).start
<1>1. /\ l[i].addr \in Nat /\ l[i].size \in Nat /\ l[j].addr \in Nat /\ l[j].size \in Nat
      /\ i \in Nat /\ j \in Nat
  BY Inside, Numbers DEF Tiles
<1>2. CASE i < j
  BY <1>1, <1>2, InOrder, HeaderAssumption DEF Region
<1>3. CASE j < i
  BY <1>1, <1>3, InOrder, HeaderAssumption DEF Region
<1>4. QED
  BY <1>1, <1>2, <1>3

\* An allocation adds one region, long enough, inside the heap, and apart from
\* all others.
LEMMA AllocatedRegions ==
  ASSUME NEW end, NEW l, Tiles(l, end), NEW n \in Nat, Fits(l, n) # {}
  PROVE  \E r \in [start : 0 .. end, size : n .. end] :
           /\ r.start + r.size <= end
           /\ \A s \in Regions(l) : r.start + r.size <= s.start \/ s.start + s.size <= r.start
           /\ Regions(Allocated(l, n)) = Regions(l) \cup {r}
<1> DEFINE i == find_free_block(l, n)
           a == Allocated(l, n)
           r == Region(a[i])
<1>1. /\ i \in DOMAIN l /\ l[i].free /\ i \in DOMAIN a
      /\ a[i].addr = l[i].addr /\ ~ a[i].free
      /\ a[i].size \in Nat /\ a[i].size >= n /\ a[i].size <= l[i].size
      /\ \A k \in DOMAIN a \ {i} : a[k].free \/ \E m \in DOMAIN l \ {i} : a[k] = l[m]
      /\ \A m \in DOMAIN l \ {i} : \E k \in DOMAIN a \ {i} : a[k] = l[m]
  BY AllocatedAt
<1> HIDE DEF i, a
<1>2. /\ l[i].addr \in Nat /\ l[i].size \in Nat /\ end \in Nat
      /\ l[i].addr + Header + l[i].size <= end
  BY <1>1, Inside
<1>3. r.start = l[i].addr + Header /\ r.size = a[i].size
  BY <1>1 DEF Region
<1>4. r.start \in 0 .. end /\ r.size \in n .. end /\ r.start + r.size <= end
  BY <1>1, <1>2, <1>3, HeaderAssumption
<1>5. r \in [start : 0 .. end, size : n .. end]
  BY <1>4 DEF Region
<1>6. ASSUME NEW s \in Regions(l)
      PROVE  r.start + r.size <= s.start \/ s.start + s.size <= r.start
  <2>1. PICK k \in DOMAIN l : ~ l[k].free /\ s = Region(l[k])
    BY RegionsAre
  <2>2. k # i
    BY <1>1, <2>1
  <2>3. /\ l[k].addr \in Nat /\ l[k].size \in Nat
    BY Inside
  <2>4. \/ Region(l[i]).start + Region(l[i]).size + Header <= Region(l[k]).start
        \/ Region(l[k]).start + Region(l[k]).size + Header <= Region(l[i]).start
    BY <1>1, <2>2, RegionsApart
  <2>5. /\ s.start = l[k].addr + Header /\ s.size = l[k].size
        /\ Region(l[i]).start = r.start /\ Region(l[i]).size = l[i].size
        /\ Region(l[k]) = s
    BY <1>3, <2>1 DEF Region
  <2>6. r.start \in Nat /\ r.size \in Nat /\ s.start \in Nat /\ s.size \in Nat
        /\ r.size <= l[i].size
    BY <1>1, <1>2, <1>3, <2>3, <2>5, HeaderAssumption
  <2>7. QED
    BY <1>2, <2>4, <2>5, <2>6, HeaderAssumption
<1>7. Regions(a) = Regions(l) \cup {r}
  <2>1. ASSUME NEW s \in Regions(a) PROVE s \in Regions(l) \cup {r}
    <3>1. PICK k \in DOMAIN a : ~ a[k].free /\ s = Region(a[k])
      BY RegionsAre
    <3>2. CASE k = i
      BY <3>1, <3>2
    <3>3. CASE k # i
      <4>1. PICK m \in DOMAIN l : a[k] = l[m]
        BY <1>1, <3>1, <3>3
      <4>2. QED
        BY <3>1, <4>1, RegionsAre
    <3>4. QED
      BY <3>2, <3>3
  <2>2. ASSUME NEW s \in Regions(l) PROVE s \in Regions(a)
    <3>1. PICK m \in DOMAIN l : ~ l[m].free /\ s = Region(l[m])
      BY RegionsAre
    <3>2. m # i
      BY <1>1, <3>1
    <3>3. PICK k \in DOMAIN a : a[k] = l[m]
      BY <1>1, <3>2
    <3>4. QED
      BY <3>1, <3>3, RegionsAre
  <2>3. r \in Regions(a)
    BY <1>1, RegionsAre
  <2>4. QED
    BY <2>1, <2>2, <2>3
<1>8. QED
  BY <1>4, <1>5, <1>6, <1>7 DEF a

\* Freeing a block takes away its region and no other.
LEMMA FreedRegions ==
  ASSUME NEW end, NEW l, Tiles(l, end), NEW i \in DOMAIN l, ~ l[i].free
  PROVE  Region(l[i]) \in Regions(l) /\ Regions(Freed(l, i)) = Regions(l) \ {Region(l[i])}
<1> DEFINE d == RunEnd(l, i) - i
           f == Freed(l, i)
<1>1. /\ l \in Seq(Block) /\ DOMAIN l = 1 .. Len(l) /\ Len(l) \in Nat /\ i \in 1 .. Len(l)
      /\ i \in Nat
  BY Numbers DEF Tiles
<1>2. /\ d \in Nat /\ i + d <= Len(l)
      /\ f \in Seq(Block) /\ Len(f) = Len(l) - d /\ DOMAIN f = 1 .. Len(l) - d
      /\ \A k \in 1 .. i - 1 : f[k] = l[k]
      /\ f[i].addr = l[i].addr /\ f[i].free
      /\ \A k \in i + 1 .. Len(l) - d : f[k] = l[k + d]
  BY FreedAt
<1>3. \A k \in i + 1 .. i + d : l[k].free
  <2>1. i + d = RunEnd(l, i)
    BY <1>1, RunEnds
  <2>2. QED
    BY <1>1, <2>1, RunEnds
<1> HIDE DEF d, f
<1>4. Region(l[i]) \in Regions(l)
  BY RegionsAre
<1>5. ASSUME NEW m \in DOMAIN l, m # i PROVE Region(l[m]) # Region(l[i])
  <2>1. l[m].addr \in Nat /\ l[m].size \in Nat /\ l[i].addr \in Nat /\ l[i].size \in Nat
    BY Inside
  <2>2. \/ Region(l[i]).start + Region(l[i]).size + Header <= Region(l[m]).start
        \/ Region(l[m]).start + Region(l[m]).size + Header <= Region(l[i]).start
    BY <1>5, RegionsApart
  <2>3. Region(l[m]).start = l[m].addr + Header /\ Region(l[i]).start = l[i].addr + Header
        /\ Region(l[m]).size = l[m].size /\ Region(l[i]).size = l[i].size
    BY DEF Region
  <2>4. Region(l[m]).start # Region(l[i]).start
    BY <2>1, <2>2, <2>3, HeaderAssumption
  <2>5. QED
    BY <2>4
<1>6. ASSUME NEW s \in Regions(f) PROVE s \in Regions(l) /\ s # Region(l[i])
  <2>1. PICK k \in DOMAIN f : ~ f[k].free /\ s = Region(f[k])
    BY RegionsAre
  <2>2. k \in 1 .. Len(l) - d /\ k # i
    BY <1>2, <2>1
  <2>3. CASE k < i
    <3>1. k \in 1 .. i - 1
      BY <1>1, <2>2, <2>3
    <3>2. k \in DOMAIN l /\ f[k] = l[k]
      BY <1>1, <1>2, <3>1
    <3>3. QED
      BY <1>5, <2>1, <2>2, <3>2, RegionsAre
  <2>4. CASE k > i
    <3>1. k \in i + 1 .. Len(l) - d
      BY <1>1, <1>2, <2>2, <2>4
    <3>2. k + d \in 1 .. Len(l) /\ k + d # i
      BY <1>1, <1>2, <3>1
    <3>3. f[k] = l[k + d]
      BY <1>2, <3>1
    <3>4. QED
      BY <1>1, <1>5, <2>1, <3>2, <3>3, RegionsAre
  <2>5. QED
    BY <1>1, <1>2, <2>2, <2>3, <2>4
<1>7. ASSUME NEW s \in Regions(l), s # Region(l[i]) PROVE s \in Regions(f)
  <2>1. PICK m \in DOMAIN l : ~ l[m].free /\ s = Region(l[m])
    BY RegionsAre
  <2>2. m \in 1 .. Len(l) /\ m # i
    BY <1>1, <1>7, <2>1
  <2>3. CASE m < i
    <3>1. m \in 1 .. i - 1 /\ m \in 1 .. Len(l) - d
      BY <1>1, <1>2, <2>2, <2>3
    <3>2. m \in DOMAIN f /\ f[m] = l[m]
      BY <1>2, <3>1
    <3>3. QED
      BY <2>1, <3>2, RegionsAre
  <2>4. CASE m > i
    <3>1. ~ (m \in i + 1 .. i + d)
      BY <1>3, <2>1
    <3>2. m - d \in i + 1 .. Len(l) - d /\ (m - d) + d = m /\ m - d \in 1 .. Len(l) - d
      BY <1>1, <1>2, <2>2, <2>4, <3>1
    <3>3. m - d \in DOMAIN f /\ f[m - d] = l[m]
      BY <1>2, <3>2
    <3>4. QED
      BY <2>1, <3>3, RegionsAre
  <2>5. QED
    BY <1>1, <2>2, <2>3, <2>4
<1>8. Regions(f) = Regions(l) \ {Region(l[i])}
  BY <1>6, <1>7
<1>9. QED
  BY <1>4, <1>8 DEF f

\* Growing the heap hands out no region and takes none back.
LEMMA GrownRegions ==
  ASSUME NEW l \in Seq(Block), l # <<>>, NEW n, NEW b, b.free
  PROVE  /\ Regions(Append(l, b)) = Regions(l)
         /\ l[Len(l)].free => Regions([l EXCEPT ![Len(l)].size = @ + n]) = Regions(l)
<1>1. /\ DOMAIN l = 1 .. Len(l) /\ Len(l) \in 1 .. Len(l) /\ Len(l) \in Nat
      /\ \A k \in 1 .. Len(l) : l[k] \in Block
  BY Numbers
<1>2. Regions(Append(l, b)) = Regions(l)
  <2> DEFINE a == Append(l, b)
  <2>1. /\ DOMAIN a = 1 .. Len(l) + 1 /\ a[Len(l) + 1] = b
        /\ \A k \in 1 .. Len(l) : a[k] = l[k]
    BY <1>1
  <2> HIDE DEF a
  <2>2. {k \in DOMAIN a : ~ a[k].free} = {k \in DOMAIN l : ~ l[k].free}
    <3>1. \A k \in 1 .. Len(l) + 1 : k \in 1 .. Len(l) \/ k = Len(l) + 1
      BY <1>1
    <3>2. \A k \in 1 .. Len(l) : k \in 1 .. Len(l) + 1
      BY <1>1
    <3>3. QED
      BY <1>1, <2>1, <3>1, <3>2
  <2>3. \A k \in {m \in DOMAIN l : ~ l[m].free} : a[k] = l[k]
    BY <1>1, <2>1
  <2>4. Regions(a) = Regions(l)
    BY <2>2, <2>3 DEF Regions
  <2>5. QED
    BY <2>4 DEF a
<1>3. ASSUME l[Len(l)].free
      PROVE  Regions([l EXCEPT ![Len(l)].size = @ + n]) = Regions(l)
  <2> DEFINE a == [l EXCEPT ![Len(l)].size = @ + n]
  <2>1. /\ DOMAIN a = DOMAIN l /\ a[Len(l)] = [l[Len(l)] EXCEPT !.size = @ + n]
        /\ \A k \in DOMAIN l : k # Len(l) => a[k] = l[k]
    BY <1>1
  <2>2. a[Len(l)].free
    BY <1>1, <1>3, <2>1 DEF Block
  <2> HIDE DEF a
  <2>3. {k \in DOMAIN a : ~ a[k].free} = {k \in DOMAIN l : ~ l[k].free}
    BY <1>3, <2>1, <2>2
  <2>4. \A k \in {m \in DOMAIN l : ~ l[m].free} : a[k] = l[k]
    BY <1>3, <2>1
  <2>5. Regions(a) = Regions(l)
    BY <2>3, <2>4 DEF Regions
  <2>6. QED
    BY <2>5 DEF a
<1>4. QED
  BY <1>2, <1>3
=============================================================================
