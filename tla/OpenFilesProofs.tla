---------------------------- MODULE OpenFilesProofs ----------------------------
(***************************************************************************)
(* Proofs about OpenFiles: a file is the bytes programs wrote, whatever    *)
(* the size of a block.                                                    *)
(*                                                                         *)
(* fs_write_file is a loop over blocks, here a function defined by         *)
(* recursion.  That such a function exists and satisfies its equation is   *)
(* proved first, then what each turn of the loop leaves, by UpTo.          *)
(***************************************************************************)
EXTENDS OpenFiles, SequenceTheorems, NaturalsInduction, WellFoundedInduction, TLAPS

-----------------------------------------------------------------------------
(* Numbers *)

\* Every nonempty set of natural numbers has a least element.
LEMMA LeastNumber ==
  ASSUME NEW T, T \subseteq Nat, T # {}
  PROVE  \E m \in T : \A k \in T : m <= k
<1> DEFINE Less == OpToRel(<, Nat)
<1>1. IsWellFoundedOn(Less, Nat)
  BY NatLessThanWellFounded
<1>2. \A i, j \in Nat : i < j => <<i, j>> \in Less
  BY DEF OpToRel
<1> HIDE DEF Less
<1>3. PICK m \in T : \A k \in T : ~ (<<k, m>> \in Less)
  BY <1>1, WFMin
<1>4. \A k \in T : ~ (k < m)
  BY <1>2, <1>3
<1>5. QED
  BY <1>4

\* Induction up to a number, for a set of numbers.
LEMMA UpTo ==
  ASSUME NEW n \in Nat, NEW T, 0 \in T, \A k \in 0 .. n - 1 : k \in T => k + 1 \in T
  PROVE  \A k \in 0 .. n : k \in T
<1> DEFINE Bad == {k \in 0 .. n : k \notin T}
<1> SUFFICES ASSUME Bad # {} PROVE FALSE
  OBVIOUS
<1>0. Bad \subseteq Nat /\ Bad # {}
  OBVIOUS
<1>1. PICK m \in Bad : \A k \in Bad : m <= k
  BY <1>0, LeastNumber
<1>2. m # 0 /\ m - 1 \in 0 .. n - 1 /\ m - 1 \in 0 .. n
  OBVIOUS
<1>3. m - 1 \in T
  BY <1>1, <1>2
<1>4. QED
  BY <1>2, <1>3

LEMMA LeastIn ==
  ASSUME NEW T, T \subseteq Nat, T # {}
  PROVE  Least(T) \in T
  BY LeastNumber DEF Least

\* The block and the place in it of a byte.
LEMMA Place ==
  ASSUME NEW p \in Nat
  PROVE  /\ p \div BlockSize \in Nat /\ p % BlockSize \in Offsets
         /\ p = (p \div BlockSize) * BlockSize + (p % BlockSize)
<1> DEFINE q == p \div BlockSize
           r == p % BlockSize
<1>1. BlockSize \in Nat /\ BlockSize > 0
  BY FilesAssumption
<1>2. q \in Int /\ r \in 0 .. BlockSize - 1 /\ p = BlockSize * q + r
  BY <1>1
<1> HIDE DEF q, r
<1>3. q >= 0
  <2>1. SUFFICES ASSUME q <= -1 PROVE FALSE
    BY <1>2
  <2>2. BlockSize * q <= -BlockSize
    BY <1>1, <1>2, <2>1
  <2>3. QED
    BY <1>1, <1>2, <2>2
<1>4. BlockSize * q = q * BlockSize
  BY <1>1, <1>2
<1>5. q \in Nat /\ r \in Offsets /\ p = q * BlockSize + r
  BY <1>1, <1>2, <1>3, <1>4 DEF Offsets
<1>6. QED
  BY <1>5 DEF q, r

LEMMA BlocksInOrder ==
  ASSUME NEW j \in Nat, NEW k \in Nat, j < k
  PROVE  /\ j * BlockSize \in Nat
         /\ (j + 1) * BlockSize = j * BlockSize + BlockSize
         /\ (j + 1) * BlockSize <= k * BlockSize
<1>1. BlockSize \in Nat \ {0}
  BY FilesAssumption
<1> DEFINE d == k - (j + 1)
<1>2. d \in Nat /\ k = (j + 1) + d
  OBVIOUS
<1> HIDE DEF d
<1>3. j * BlockSize \in Nat /\ d * BlockSize \in Nat
  BY <1>1, <1>2
<1>4. (j + 1) * BlockSize = j * BlockSize + BlockSize
  BY <1>1
<1>5. k * BlockSize = (j + 1) * BlockSize + d * BlockSize
  BY <1>1, <1>2
<1>6. QED
  BY <1>1, <1>3, <1>4, <1>5
LEMMA PlaceIs ==
  ASSUME NEW k \in Nat, NEW o \in Offsets
  PROVE  /\ k * BlockSize + o \in Nat
         /\ (k * BlockSize + o) \div BlockSize = k
         /\ (k * BlockSize + o) % BlockSize = o
<1> DEFINE p == k * BlockSize + o
           q == p \div BlockSize
           r == p % BlockSize
<1>1. BlockSize \in Nat \ {0} /\ o \in 0 .. BlockSize - 1
  BY FilesAssumption DEF Offsets
<1>2. k * BlockSize \in Nat
  BY <1>1
<1>3. p \in Nat
  BY <1>1, <1>2
<1> HIDE DEF p
<1>4. q \in Nat /\ r \in 0 .. BlockSize - 1 /\ p = q * BlockSize + r
  BY <1>1, <1>3, Place DEF Offsets
<1> HIDE DEF q, r
<1>5. q * BlockSize \in Nat
  BY <1>1, <1>4
<1>6. p = k * BlockSize + o
  BY DEF p
<1>7. q = k
  <2>1. CASE q < k
    <3>1. q * BlockSize + BlockSize <= k * BlockSize
      BY <1>4, <2>1, BlocksInOrder
    <3>2. QED
      BY <1>1, <1>2, <1>4, <1>5, <1>6, <3>1
  <2>2. CASE k < q
    <3>1. k * BlockSize + BlockSize <= q * BlockSize
      BY <1>4, <2>2, BlocksInOrder
    <3>2. QED
      BY <1>1, <1>2, <1>4, <1>5, <1>6, <3>1
  <2>3. QED
    BY <1>4, <2>1, <2>2
<1>8. r = o
  <2>1. k * BlockSize + o = k * BlockSize + r
    BY <1>4, <1>6, <1>7
  <2>2. QED
    BY <1>1, <1>2, <1>4, <2>1
<1>9. QED
  BY <1>3, <1>7, <1>8 DEF p, q, r

-----------------------------------------------------------------------------
(* The loop of fs_write_file *)

Start(i) == [blocks |-> inode[i].blocks, used |-> used, data |-> data, ok |-> TRUE]

\* The states after the first n turns.
IsTurns(t, n, i, bytes, offset) ==
  t = [k \in 0 .. n |->
         IF k = 0 THEN Start(i) ELSE WriteBlock(t[k - 1], k - 1, bytes, offset)]

\* The recursion of Written has a solution.
LEMMA TurnsExist ==
  ASSUME NEW i, NEW bytes, NEW offset
  PROVE  \A n \in 0 .. MaxBlocks : \E t : IsTurns(t, n, i, bytes, offset)
<1> DEFINE T == {n \in Nat : \E t : IsTurns(t, n, i, bytes, offset)}
<1>1. 0 \in T
  <2> DEFINE t == [k \in 0 .. 0 |-> Start(i)]
  <2>1. IsTurns(t, 0, i, bytes, offset)
    BY DEF IsTurns
  <2>2. QED
    BY <2>1
<1>2. ASSUME NEW n \in 0 .. MaxBlocks - 1, n \in T PROVE n + 1 \in T
  <2>1. PICK t : IsTurns(t, n, i, bytes, offset)
    BY <1>2
  <2> DEFINE u == [k \in 0 .. n + 1 |->
                     IF k = 0 THEN Start(i) ELSE WriteBlock(t[k - 1], k - 1, bytes, offset)]
  <2>2. \A k \in 0 .. n : u[k] = t[k]
    BY <2>1 DEF IsTurns
  <2>3. \A k \in 0 .. n + 1 : k # 0 => u[k - 1] = t[k - 1]
    BY <2>2
  <2>4. u = [k \in 0 .. n + 1 |->
               IF k = 0 THEN Start(i) ELSE WriteBlock(u[k - 1], k - 1, bytes, offset)]
    BY <2>3
  <2>5. IsTurns(u, n + 1, i, bytes, offset)
    BY <2>4 DEF IsTurns
  <2>6. QED
    BY <2>5
<1>3. MaxBlocks \in Nat
  BY FilesAssumption
<1> HIDE DEF T
<1>4. \A n \in 0 .. MaxBlocks : n \in T
  BY <1>1, <1>2, <1>3, UpTo
<1>5. QED
  BY <1>4 DEF T

\* So Written is the last of the states the turns go through.
LEMMA WrittenIs ==
  ASSUME NEW i, NEW bytes, NEW offset
  PROVE  \E t : /\ Written(i, bytes, offset) = t[MaxBlocks]
                /\ t[0] = Start(i)
                /\ \A k \in 0 .. MaxBlocks - 1 :
                     t[k + 1] = WriteBlock(t[k], k, bytes, offset)
<1> DEFINE t == CHOOSE t : IsTurns(t, MaxBlocks, i, bytes, offset)
<1>1. MaxBlocks \in Nat
  BY FilesAssumption
<1>2. IsTurns(t, MaxBlocks, i, bytes, offset)
  BY <1>1, TurnsExist
<1>3. Written(i, bytes, offset) = t[MaxBlocks]
  BY DEF Written, IsTurns, Start
<1> HIDE DEF t
<1>4. \A k \in 0 .. MaxBlocks :
        t[k] = IF k = 0 THEN Start(i) ELSE WriteBlock(t[k - 1], k - 1, bytes, offset)
  BY <1>2 DEF IsTurns
<1>5. t[0] = Start(i)
  BY <1>1, <1>4
<1>6. ASSUME NEW k \in 0 .. MaxBlocks - 1
      PROVE  t[k + 1] = WriteBlock(t[k], k, bytes, offset)
  <2>1. k + 1 \in 0 .. MaxBlocks /\ k + 1 # 0 /\ (k + 1) - 1 = k
    BY <1>1
  <2>2. QED
    BY <1>4, <2>1
<1>7. QED
  BY <1>3, <1>5, <1>6
-----------------------------------------------------------------------------
(* What a write leaves *)

LoopState ==
  [blocks : [Indices -> 0 .. NBlocks], used : SUBSET Blocks,
   data : [Blocks -> [Offsets -> Nat]], ok : BOOLEAN]

\* Some of the bytes go to block k of the file.
Touched(k, bytes, offset) ==
  Greater(offset, k * BlockSize) < Lesser(offset + Len(bytes), (k + 1) * BlockSize)

\* The byte at place o of block k of file i once the bytes are written.
ByteAfter(i, k, o, bytes, offset) ==
  LET p == k * BlockSize + o
  IN  IF offset <= p /\ p < offset + Len(bytes) THEN bytes[p - offset + 1]
      ELSE IF inode[i].blocks[k] = 0 THEN 0 ELSE data[inode[i].blocks[k]][o]

\* The numbers of one turn.
LEMMA TurnNumbers ==
  ASSUME NEW k \in Indices, NEW bytes \in Seq(Nat), NEW offset \in Nat
  PROVE  /\ k \in Nat /\ k * BlockSize \in Nat /\ (k + 1) * BlockSize \in Nat
         /\ (k + 1) * BlockSize = k * BlockSize + BlockSize
         /\ Greater(offset, k * BlockSize) \in Nat
         /\ Lesser(offset + Len(bytes), (k + 1) * BlockSize) \in Nat
         /\ BlockSize \in Nat \ {0}
<1>1. BlockSize \in Nat \ {0} /\ MaxBlocks \in Nat \ {0}
  BY FilesAssumption
<1>2. k \in Nat /\ k < k + 1 /\ k + 1 \in Nat
  BY <1>1 DEF Indices
<1>3. k * BlockSize \in Nat /\ (k + 1) * BlockSize = k * BlockSize + BlockSize
  BY <1>2, BlocksInOrder
<1>4. Len(bytes) \in Nat
  OBVIOUS
<1>5. QED
  BY <1>1, <1>2, <1>3, <1>4 DEF Greater, Lesser

\* A place of block k lies between the bounds of turn k when it lies between
\* those of the write.
LEMMA InTurn ==
  ASSUME NEW k \in Indices, NEW bytes \in Seq(Nat), NEW offset \in Nat, NEW o \in Offsets
  PROVE  LET p     == k * BlockSize + o
             from  == Greater(offset, k * BlockSize)
             until == Lesser(offset + Len(bytes), (k + 1) * BlockSize)
         IN  /\ p \in Nat
             /\ from <= p /\ p < until <=> offset <= p /\ p < offset + Len(bytes)
             /\ offset <= p /\ p < offset + Len(bytes) =>
                  /\ Touched(k, bytes, offset)
                  /\ p - offset + 1 \in 1 .. Len(bytes)
                  /\ bytes[p - offset + 1] \in Nat
<1>1. /\ k * BlockSize \in Nat /\ (k + 1) * BlockSize = k * BlockSize + BlockSize
      /\ BlockSize \in Nat \ {0}
  BY TurnNumbers
<1>2. Len(bytes) \in Nat /\ o \in 0 .. BlockSize - 1
  BY DEF Offsets
<1>3. \A x \in 1 .. Len(bytes) : bytes[x] \in Nat
  OBVIOUS
<1> DEFINE a == k * BlockSize
           z == (k + 1) * BlockSize
<1> HIDE DEF a, z
<1>4. a \in Nat /\ z = a + BlockSize
  BY <1>1 DEF a, z
<1>5. LET p     == a + o
          from  == Greater(offset, a)
          until == Lesser(offset + Len(bytes), z)
      IN  /\ p \in Nat
          /\ from <= p /\ p < until <=> offset <= p /\ p < offset + Len(bytes)
          /\ offset <= p /\ p < offset + Len(bytes) =>
               /\ from < until
               /\ p - offset + 1 \in 1 .. Len(bytes)
               /\ bytes[p - offset + 1] \in Nat
  BY <1>1, <1>2, <1>3, <1>4 DEF Greater, Lesser
<1>6. QED
  BY <1>5 DEF a, z, Touched

\* One turn, told by its cases: nothing to do, no block left, or the bytes of
\* block k written into the block the file has there or into a fresh one.
LEMMA OneTurn ==
  ASSUME NEW s \in LoopState, NEW k \in Indices, NEW bytes \in Seq(Nat), NEW offset \in Nat
  PROVE  LET w == WriteBlock(s, k, bytes, offset)
         IN  \/ w = s /\ (s.ok => ~ Touched(k, bytes, offset))
             \/ /\ s.ok /\ Touched(k, bytes, offset) /\ s.blocks[k] = 0
                /\ w = [s EXCEPT !.ok = FALSE]
             \/ /\ s.ok /\ Touched(k, bytes, offset)
                /\ \E b \in Blocks, new \in [Offsets -> Nat] :
                     /\ s.blocks[k] = b \/ (s.blocks[k] = 0 /\ b \notin s.used)
                     /\ w = [blocks |-> [s.blocks EXCEPT ![k] = b], used |-> s.used \cup {b},
                             data |-> [s.data EXCEPT ![b] = new], ok |-> TRUE]
                     /\ \A o \in Offsets :
                          LET p == k * BlockSize + o
                          IN  new[o] = IF offset <= p /\ p < offset + Len(bytes)
                                       THEN bytes[p - offset + 1]
                                       ELSE IF s.blocks[k] = 0 THEN 0 ELSE s.data[b][o]
<1> DEFINE from  == Greater(offset, k * BlockSize)
           until == Lesser(offset + Len(bytes), (k + 1) * BlockSize)
           fresh == s.blocks[k] = 0
           b     == IF fresh THEN Least(Blocks \ s.used) ELSE s.blocks[k]
           old   == IF fresh THEN Zeros ELSE s.data[b]
           new   == [o \in Offsets |->
                       LET p == k * BlockSize + o
                       IN  IF from <= p /\ p < until
                           THEN bytes[p - offset + 1] ELSE old[o]]
           w == WriteBlock(s, k, bytes, offset)
<1>1. w = IF from >= until \/ ~ s.ok THEN s
          ELSE IF fresh /\ Blocks \subseteq s.used THEN [s EXCEPT !.ok = FALSE]
          ELSE [s EXCEPT !.blocks[k] = b, !.used = @ \cup {b}, !.data[b] = new]
  BY DEF WriteBlock
<1>2. Touched(k, bytes, offset) <=> ~ (from >= until)
  <2>1. from \in Nat /\ until \in Nat
    BY TurnNumbers
  <2>2. Touched(k, bytes, offset) <=> from < until
    BY DEF Touched
  <2> HIDE DEF from, until
  <2>3. QED
    BY <2>1, <2>2
<1>3. /\ s.blocks \in [Indices -> 0 .. NBlocks] /\ s.used \subseteq Blocks
      /\ s.data \in [Blocks -> [Offsets -> Nat]] /\ s.ok \in BOOLEAN
      /\ s = [blocks |-> s.blocks, used |-> s.used, data |-> s.data, ok |-> s.ok]
  BY DEF LoopState
<1>4. CASE from >= until \/ ~ s.ok
  BY <1>1, <1>2, <1>4
<1>5. CASE ~ (from >= until \/ ~ s.ok) /\ fresh /\ Blocks \subseteq s.used
  BY <1>1, <1>2, <1>5
<1>6. CASE ~ (from >= until \/ ~ s.ok) /\ ~ (fresh /\ Blocks \subseteq s.used)
  <2>1. b \in Blocks /\ (s.blocks[k] = b \/ (s.blocks[k] = 0 /\ b \notin s.used))
    <3>1. CASE fresh
      <4>0. ~ (Blocks \subseteq s.used)
        BY <1>6, <3>1
      <4>1. Blocks \ s.used # {} /\ Blocks \ s.used \subseteq Nat
        BY <4>0 DEF Blocks
      <4>2. Least(Blocks \ s.used) \in Blocks \ s.used
        BY <4>1, LeastIn
      <4>3. QED
        BY <3>1, <4>2
    <3>2. CASE ~ fresh
      BY <1>3, <3>2, FilesAssumption DEF Blocks
    <3>3. QED
      BY <3>1, <3>2
  <2>2. old \in [Offsets -> Nat] /\ \A o \in Offsets : old[o] = IF fresh THEN 0 ELSE s.data[b][o]
    BY <1>3, <2>1 DEF Zeros
  <2> HIDE DEF b, old, fresh
  <2>3. \A o \in Offsets :
          LET p == k * BlockSize + o
          IN  new[o] = IF offset <= p /\ p < offset + Len(bytes)
                       THEN bytes[p - offset + 1] ELSE old[o]
    <3> SUFFICES ASSUME NEW o \in Offsets
                 PROVE  LET p == k * BlockSize + o
                        IN  new[o] = IF offset <= p /\ p < offset + Len(bytes)
                                     THEN bytes[p - offset + 1] ELSE old[o]
      OBVIOUS
    <3>1. LET p == k * BlockSize + o
          IN  from <= p /\ p < until <=> offset <= p /\ p < offset + Len(bytes)
      BY InTurn
    <3> HIDE DEF from, until
    <3>2. QED
      BY <3>1
  <2>4. new \in [Offsets -> Nat]
    <3>1. ASSUME NEW o \in Offsets PROVE new[o] \in Nat
      <4>1. old[o] \in Nat
        BY <2>2
      <4>2. LET p == k * BlockSize + o
            IN  offset <= p /\ p < offset + Len(bytes) => bytes[p - offset + 1] \in Nat
        BY InTurn
      <4> HIDE DEF new
      <4>3. QED
        BY <2>3, <4>1, <4>2
    <3>2. QED
      BY <3>1
  <2> HIDE DEF new, from, until
  <2>5. w = [s EXCEPT !.blocks[k] = b, !.used = @ \cup {b}, !.data[b] = new]
    BY <1>1, <1>6
  <2> HIDE DEF w
  <2>6. w = [blocks |-> [s.blocks EXCEPT ![k] = b], used |-> s.used \cup {b},
             data |-> [s.data EXCEPT ![b] = new], ok |-> s.ok]
    BY <1>3, <2>5
  <2>7. s.ok = TRUE
    BY <1>3, <1>6
  <2>8. \A o \in Offsets :
          LET p == k * BlockSize + o
          IN  new[o] = IF offset <= p /\ p < offset + Len(bytes)
                       THEN bytes[p - offset + 1]
                       ELSE IF s.blocks[k] = 0 THEN 0 ELSE s.data[b][o]
    BY <2>2, <2>3 DEF fresh
  <2>9. Touched(k, bytes, offset)
    BY <1>2, <1>6
  <2>10. QED
    BY <2>1, <2>4, <2>6, <2>7, <2>8, <2>9 DEF w
<1>7. QED
  BY <1>4, <1>5, <1>6
\* The bitmap and the blocks on the disk.
DiskOK == used \subseteq Blocks /\ data \in [Blocks -> [Offsets -> Nat]]

\* A file has a block wherever it has bytes; they are marked, and are different.
FileOK(i) ==
  LET was == inode[i].blocks
  IN  /\ inode[i] \in [size : 0 .. MaxLength, blocks : [Indices -> 0 .. NBlocks]]
      /\ \A k \in Indices : was[k] # 0 <=> k * BlockSize < inode[i].size
      /\ \A k \in Indices : was[k] # 0 => was[k] \in used
      /\ \A j, k \in Indices : was[k] # 0 /\ was[j] = was[k] => j = k

\* Block k of the file as a write leaves it.
Turned(s, k, i, bytes, offset) ==
  /\ s.blocks[k] # 0 <=> (inode[i].blocks[k] # 0 \/ Touched(k, bytes, offset))
  /\ s.blocks[k] # 0 =>
       \A o \in Offsets : s.data[s.blocks[k]][o] = ByteAfter(i, k, o, bytes, offset)

\* What no turn disturbs: the blocks the file had are still its own, those of
\* the other files keep their bytes, and every block added was free.
Extends(s, i) ==
  LET was == inode[i].blocks
  IN  /\ s \in LoopState
      /\ used \subseteq s.used
      /\ \A k \in Indices : s.blocks[k] # 0 => s.blocks[k] \in s.used
      /\ \A k \in Indices : IF was[k] # 0 THEN s.blocks[k] = was[k] ELSE s.blocks[k] \notin used
      /\ \A j, k \in Indices : s.blocks[k] # 0 /\ s.blocks[j] = s.blocks[k] => j = k
      /\ \A b \in used : (\A k \in Indices : was[k] # b) => s.data[b] = data[b]

\* After n turns: the first m blocks are as the write leaves them, the others
\* as they were, and m is n unless block m was missing and none was left.
Progress(s, n, i, bytes, offset) ==
  LET was == inode[i].blocks
  IN  \E m \in 0 .. n :
        /\ s.ok => m = n
        /\ ~ s.ok => m < n /\ was[m] = 0
        /\ \A k \in Indices : k < m => Turned(s, k, i, bytes, offset)
        /\ \A k \in Indices : k >= m =>
             s.blocks[k] = was[k] /\ (was[k] # 0 => s.data[was[k]] = data[was[k]])

LEMMA NoTurnYet ==
  ASSUME NEW i, DiskOK, FileOK(i), NEW bytes \in Seq(Nat), NEW offset \in Nat
  PROVE  Extends(Start(i), i) /\ Progress(Start(i), 0, i, bytes, offset)
<1> DEFINE s == Start(i)
<1>1. /\ s.blocks = inode[i].blocks /\ s.used = used /\ s.data = data /\ s.ok = TRUE
      /\ s \in LoopState
  BY DEF Start, LoopState, DiskOK, FileOK
<1>2. 0 \notin used
  BY DEF DiskOK, Blocks
<1> HIDE DEF s
<1>3. Extends(s, i)
  BY <1>1, <1>2 DEF Extends, FileOK
<1>4. \A k \in Indices : k >= 0 /\ ~ (k < 0)
  BY FilesAssumption DEF Indices
<1>5. Progress(s, 0, i, bytes, offset)
  BY <1>1, <1>4 DEF Progress
<1>6. QED
  BY <1>3, <1>5 DEF s

LEMMA TurnKeeps ==
  ASSUME NEW i, DiskOK, FileOK(i), NEW bytes \in Seq(Nat), NEW offset \in Nat,
         NEW s, Extends(s, i), NEW n \in Indices, Progress(s, n, i, bytes, offset)
  PROVE  LET w == WriteBlock(s, n, bytes, offset)
         IN  Extends(w, i) /\ Progress(w, n + 1, i, bytes, offset)
<1> DEFINE w   == WriteBlock(s, n, bytes, offset)
           was == inode[i].blocks
<1>0. SUFFICES Extends(w, i) /\ Progress(w, n + 1, i, bytes, offset)
  OBVIOUS
<1>1. s \in LoopState /\ n \in Nat /\ 0 \notin s.used /\ 0 \notin Blocks
  BY FilesAssumption DEF Extends, LoopState, Blocks, Indices
<1>2. \A k \in Indices : k \in Nat
  BY FilesAssumption DEF Indices
<1>3. PICK m \in 0 .. n :
        /\ s.ok => m = n
        /\ ~ s.ok => m < n /\ was[m] = 0
        /\ \A k \in Indices : k < m => Turned(s, k, i, bytes, offset)
        /\ \A k \in Indices : k >= m =>
             s.blocks[k] = was[k] /\ (was[k] # 0 => s.data[was[k]] = data[was[k]])
  BY DEF Progress
<1>4. was \in [Indices -> 0 .. NBlocks] /\ \A k \in Indices : was[k] # 0 => was[k] \in used
  BY DEF FileOK
<1>5. CASE w = s /\ (s.ok => ~ Touched(n, bytes, offset))
  <2>1. Extends(w, i)
    BY <1>5
  <2>2. CASE s.ok
    <3>1. Turned(s, n, i, bytes, offset)
      <4>1. s.blocks[n] = was[n] /\ (was[n] # 0 => s.data[was[n]] = data[was[n]])
        BY <1>1, <1>3, <2>2
      <4>2. \A o \in Offsets :
              was[n] # 0 => ByteAfter(i, n, o, bytes, offset) = data[was[n]][o]
        BY <1>5, <2>2, InTurn DEF ByteAfter
      <4>3. QED
        BY <1>5, <2>2, <4>1, <4>2 DEF Turned
    <3>2. \A k \in Indices : k < n + 1 => k < n \/ k = n
      BY <1>1, <1>2
    <3>3. \A k \in Indices : k < n + 1 => Turned(s, k, i, bytes, offset)
      BY <1>3, <2>2, <3>1, <3>2
    <3>4. \A k \in Indices : k >= n + 1 => k >= m
      BY <1>1, <1>2
    <3>5. n + 1 \in 0 .. n + 1
      BY <1>1
    <3>6. Progress(s, n + 1, i, bytes, offset)
      BY <1>3, <2>2, <3>3, <3>4, <3>5 DEF Progress
    <3>7. QED
      BY <1>5, <2>1, <3>6
  <2>3. CASE ~ s.ok
    <3>1. m \in 0 .. n + 1 /\ m < n + 1
      BY <1>1
    <3>2. Progress(s, n + 1, i, bytes, offset)
      BY <1>3, <2>3, <3>1 DEF Progress
    <3>3. QED
      BY <1>5, <2>1, <3>2
  <2>4. QED
    BY <2>2, <2>3
<1>6. CASE /\ s.ok /\ Touched(n, bytes, offset) /\ s.blocks[n] = 0
           /\ w = [s EXCEPT !.ok = FALSE]
  <2>1. /\ w.blocks = s.blocks /\ w.used = s.used /\ w.data = s.data /\ w.ok = FALSE
        /\ w \in LoopState
    BY <1>1, <1>6 DEF LoopState
  <2> HIDE DEF w
  <2>2. Extends(w, i)
    BY <2>1 DEF Extends
  <2>3. m = n /\ n \in 0 .. n + 1 /\ n < n + 1
    BY <1>1, <1>3, <1>6
  <2>4. was[n] = 0
    BY <1>1, <1>3, <1>6
  <2>5. \A k \in Indices : k < n => Turned(w, k, i, bytes, offset)
    BY <1>3, <2>1, <2>3 DEF Turned
  <2>6. Progress(w, n + 1, i, bytes, offset)
    BY <1>3, <2>1, <2>3, <2>4, <2>5 DEF Progress
  <2>7. QED
    BY <2>2, <2>6 DEF w
<1>7. ASSUME s.ok, Touched(n, bytes, offset), NEW b \in Blocks, NEW new \in [Offsets -> Nat],
             s.blocks[n] = b \/ (s.blocks[n] = 0 /\ b \notin s.used),
             w = [blocks |-> [s.blocks EXCEPT ![n] = b], used |-> s.used \cup {b},
                  data |-> [s.data EXCEPT ![b] = new], ok |-> TRUE],
             \A o \in Offsets :
               LET p == n * BlockSize + o
               IN  new[o] = IF offset <= p /\ p < offset + Len(bytes)
                            THEN bytes[p - offset + 1]
                            ELSE IF s.blocks[n] = 0 THEN 0 ELSE s.data[b][o]
      PROVE  Extends(w, i) /\ Progress(w, n + 1, i, bytes, offset)
  <2>1. /\ s.blocks \in [Indices -> 0 .. NBlocks] /\ s.used \subseteq Blocks
        /\ s.data \in [Blocks -> [Offsets -> Nat]]
    BY <1>1 DEF LoopState
  <2>2. /\ w.used = s.used \cup {b} /\ w.ok = TRUE
        /\ w.blocks \in [Indices -> 0 .. NBlocks]
        /\ w.blocks[n] = b /\ \A k \in Indices : k # n => w.blocks[k] = s.blocks[k]
        /\ w.data \in [Blocks -> [Offsets -> Nat]]
        /\ w.data[b] = new /\ \A c \in Blocks : c # b => w.data[c] = s.data[c]
    <3>1. b \in 0 .. NBlocks
      BY FilesAssumption DEF Blocks
    <3>2. QED
      BY <1>7, <2>1, <3>1
  <2>3. w \in LoopState
    BY <1>7, <2>1, <2>2 DEF LoopState
  <2>4. b # 0 /\ m = n /\ s.blocks[n] = was[n]
    BY <1>1, <1>3, <1>7
  <2> HIDE DEF w
  <2>5. \A k \in Indices : k # n /\ s.blocks[k] # 0 => s.blocks[k] # b
    BY <1>7 DEF Extends
  <2>6. Extends(w, i)
    <3>1. used \subseteq w.used
      BY <2>2 DEF Extends
    <3>2. \A k \in Indices : w.blocks[k] # 0 => w.blocks[k] \in w.used
      BY <2>2 DEF Extends
    <3>3. ASSUME NEW k \in Indices
          PROVE  IF was[k] # 0 THEN w.blocks[k] = was[k] ELSE w.blocks[k] \notin used
      <4>1. s.blocks[n] = b \/ (s.blocks[n] = 0 /\ b \notin s.used)
        BY <1>7
      <4>2. /\ IF was[k] # 0 THEN s.blocks[k] = was[k] ELSE s.blocks[k] \notin used
            /\ used \subseteq s.used
        BY DEF Extends
      <4>3. w.blocks[k] = IF k = n THEN b ELSE s.blocks[k]
        BY <2>2
      <4>4. QED
        BY <2>4, <4>1, <4>2, <4>3
    <3>4. \A j, k \in Indices : w.blocks[k] # 0 /\ w.blocks[j] = w.blocks[k] => j = k
      <4>1. \A j, k \in Indices : s.blocks[k] # 0 /\ s.blocks[j] = s.blocks[k] => j = k
        BY DEF Extends
      <4>2. \A k \in Indices : w.blocks[k] = IF k = n THEN b ELSE s.blocks[k]
        BY <2>2
      <4>3. QED
        BY <2>4, <2>5, <4>1, <4>2
    <3>5. ASSUME NEW c \in used, \A k \in Indices : was[k] # c PROVE w.data[c] = data[c]
      <4>1. s.data[c] = data[c] /\ used \subseteq s.used
        BY <3>5 DEF Extends
      <4>2. was[n] = b \/ b \notin s.used
        BY <1>7, <2>4
      <4>3. c # b
        BY <3>5, <4>1, <4>2
      <4>4. c \in Blocks
        BY <2>1, <4>1
      <4>5. QED
        BY <2>2, <4>1, <4>3, <4>4
    <3>6. QED
      BY <2>3, <3>1, <3>2, <3>3, <3>4, <3>5 DEF Extends
  <2>7. Turned(w, n, i, bytes, offset)
    <3>1. \A o \in Offsets : new[o] = ByteAfter(i, n, o, bytes, offset)
      <4>1. was[n] # 0 => s.data[b] = data[was[n]]
        BY <1>1, <1>3, <1>7, <2>4
      <4>2. QED
        BY <1>7, <2>4, <4>1 DEF ByteAfter
    <3>2. QED
      BY <1>7, <2>2, <2>4, <3>1 DEF Turned
  <2>8. ASSUME NEW k \in Indices, k < n PROVE Turned(w, k, i, bytes, offset)
    <3>1. Turned(s, k, i, bytes, offset) /\ k # n
      BY <1>1, <1>2, <1>3, <2>4, <2>8
    <3>2. w.blocks[k] = s.blocks[k]
      BY <2>2, <3>1
    <3>3. s.blocks[k] # 0 => w.data[s.blocks[k]] = s.data[s.blocks[k]]
      <4>1. s.blocks[k] # 0 => s.blocks[k] \in Blocks /\ s.blocks[k] # b
        BY <2>1, <2>5, <3>1 DEF Extends
      <4>2. QED
        BY <2>2, <4>1
    <3>4. QED
      BY <3>1, <3>2, <3>3 DEF Turned
  <2>9. \A k \in Indices : k < n + 1 => Turned(w, k, i, bytes, offset)
    <3>1. \A k \in Indices : k < n + 1 => k < n \/ k = n
      BY <1>1, <1>2
    <3>2. QED
      BY <2>7, <2>8, <3>1
  <2>10. ASSUME NEW k \in Indices, k >= n + 1
         PROVE  w.blocks[k] = was[k] /\ (was[k] # 0 => w.data[was[k]] = data[was[k]])
    <3>0. k \in Nat /\ m \in Nat /\ m <= n
      <4>1. MaxBlocks \in Nat
        BY FilesAssumption
      <4>2. k \in Nat /\ n \in Nat
        BY <4>1 DEF Indices
      <4>3. QED
        BY <4>2
    <3>1. k # n /\ k >= m
      BY <1>1, <2>10, <3>0
    <3>2. s.blocks[k] = was[k] /\ (was[k] # 0 => s.data[was[k]] = data[was[k]])
      BY <1>3, <3>1
    <3>3. was[k] # 0 => was[k] # b /\ was[k] \in Blocks
      BY <1>4, <2>5, <3>1, <3>2 DEF DiskOK
    <3>4. QED
      BY <2>2, <3>1, <3>2, <3>3
  <2>11. n + 1 \in 0 .. n + 1
    BY <1>1
  <2>12. Progress(w, n + 1, i, bytes, offset)
    BY <2>2, <2>9, <2>10, <2>11 DEF Progress
  <2>13. QED
    BY <2>6, <2>12
<1> HIDE DEF w
<1>8. \/ w = s /\ (s.ok => ~ Touched(n, bytes, offset))
      \/ /\ s.ok /\ Touched(n, bytes, offset) /\ s.blocks[n] = 0
         /\ w = [s EXCEPT !.ok = FALSE]
      \/ /\ s.ok /\ Touched(n, bytes, offset)
         /\ \E b \in Blocks, new \in [Offsets -> Nat] :
              /\ s.blocks[n] = b \/ (s.blocks[n] = 0 /\ b \notin s.used)
              /\ w = [blocks |-> [s.blocks EXCEPT ![n] = b], used |-> s.used \cup {b},
                      data |-> [s.data EXCEPT ![b] = new], ok |-> TRUE]
              /\ \A o \in Offsets :
                   LET p == n * BlockSize + o
                   IN  new[o] = IF offset <= p /\ p < offset + Len(bytes)
                                THEN bytes[p - offset + 1]
                                ELSE IF s.blocks[n] = 0 THEN 0 ELSE s.data[b][o]
  BY <1>1, OneTurn DEF w
<1>9. Extends(w, i) /\ Progress(w, n + 1, i, bytes, offset)
  <2> DEFINE Put == \E b \in Blocks, new \in [Offsets -> Nat] :
               /\ s.blocks[n] = b \/ (s.blocks[n] = 0 /\ b \notin s.used)
               /\ w = [blocks |-> [s.blocks EXCEPT ![n] = b], used |-> s.used \cup {b},
                       data |-> [s.data EXCEPT ![b] = new], ok |-> TRUE]
               /\ \A o \in Offsets :
                    LET p == n * BlockSize + o
                    IN  new[o] = IF offset <= p /\ p < offset + Len(bytes)
                                 THEN bytes[p - offset + 1]
                                 ELSE IF s.blocks[n] = 0 THEN 0 ELSE s.data[b][o]
  <2>1. CASE s.ok /\ Touched(n, bytes, offset) /\ Put
    <3>1. PICK b \in Blocks, new \in [Offsets -> Nat] :
            /\ s.blocks[n] = b \/ (s.blocks[n] = 0 /\ b \notin s.used)
            /\ w = [blocks |-> [s.blocks EXCEPT ![n] = b], used |-> s.used \cup {b},
                    data |-> [s.data EXCEPT ![b] = new], ok |-> TRUE]
            /\ \A o \in Offsets :
                 LET p == n * BlockSize + o
                 IN  new[o] = IF offset <= p /\ p < offset + Len(bytes)
                              THEN bytes[p - offset + 1]
                              ELSE IF s.blocks[n] = 0 THEN 0 ELSE s.data[b][o]
      BY <2>1
    <3>2. s.ok /\ Touched(n, bytes, offset)
      BY <2>1
    <3>3. QED
      BY <1>7, <3>1, <3>2
  <2>2. \/ w = s /\ (s.ok => ~ Touched(n, bytes, offset))
        \/ /\ s.ok /\ Touched(n, bytes, offset) /\ s.blocks[n] = 0
           /\ w = [s EXCEPT !.ok = FALSE]
        \/ s.ok /\ Touched(n, bytes, offset) /\ Put
    BY <1>8
  <2> HIDE DEF Put
  <2>3. QED
    BY <1>5, <1>6, <2>1, <2>2
<1>10. QED
  BY <1>9
\* What fs_write_file leaves of the file and of the others.
LEMMA WrittenLeaves ==
  ASSUME NEW i, DiskOK, FileOK(i), NEW bytes \in Seq(Nat), NEW offset \in Nat
  PROVE  LET s == Written(i, bytes, offset)
         IN  /\ Extends(s, i)
             /\ s.ok => \A k \in Indices : Turned(s, k, i, bytes, offset)
             /\ ~ s.ok => \A k \in Indices :
                  inode[i].blocks[k] # 0 => Turned(s, k, i, bytes, offset)
<1>1. PICK t : /\ Written(i, bytes, offset) = t[MaxBlocks]
               /\ t[0] = Start(i)
               /\ \A k \in 0 .. MaxBlocks - 1 : t[k + 1] = WriteBlock(t[k], k, bytes, offset)
  BY WrittenIs
<1> DEFINE T == {n \in Nat : Extends(t[n], i) /\ Progress(t[n], n, i, bytes, offset)}
           s == t[MaxBlocks]
<1>2. 0 \in T
  <2>1. Extends(t[0], i) /\ Progress(t[0], 0, i, bytes, offset)
    BY <1>1, NoTurnYet
  <2>2. QED
    BY <2>1
<1>3. ASSUME NEW n \in 0 .. MaxBlocks - 1, n \in T PROVE n + 1 \in T
  <2>1. n \in Indices
    BY DEF Indices
  <2>2. Extends(t[n], i) /\ Progress(t[n], n, i, bytes, offset)
    BY <1>3
  <2>3. LET w == WriteBlock(t[n], n, bytes, offset)
        IN  Extends(w, i) /\ Progress(w, n + 1, i, bytes, offset)
    BY <2>1, <2>2, TurnKeeps
  <2>4. t[n + 1] = WriteBlock(t[n], n, bytes, offset)
    BY <1>1
  <2>5. Extends(t[n + 1], i) /\ Progress(t[n + 1], n + 1, i, bytes, offset)
    BY <2>3, <2>4
  <2>6. n + 1 \in Nat
    BY FilesAssumption
  <2>7. QED
    BY <2>5, <2>6
<1>4. MaxBlocks \in Nat
  BY FilesAssumption
<1> HIDE DEF T
<1>5. MaxBlocks \in T
  <2>1. \A n \in 0 .. MaxBlocks : n \in T
    BY <1>2, <1>3, <1>4, UpTo
  <2>2. QED
    BY <1>4, <2>1
<1>6. Extends(s, i) /\ Progress(s, MaxBlocks, i, bytes, offset)
  BY <1>5 DEF T
<1> HIDE DEF s
<1>7. PICK m \in 0 .. MaxBlocks :
        /\ s.ok => m = MaxBlocks
        /\ ~ s.ok => m < MaxBlocks /\ inode[i].blocks[m] = 0
        /\ \A k \in Indices : k < m => Turned(s, k, i, bytes, offset)
  BY <1>6 DEF Progress
<1>8. \A k \in Indices : k \in Nat /\ k < MaxBlocks
  BY <1>4 DEF Indices
<1>9. ASSUME s.ok, NEW k \in Indices PROVE Turned(s, k, i, bytes, offset)
  BY <1>7, <1>8, <1>9
<1>10. ASSUME ~ s.ok, NEW k \in Indices, inode[i].blocks[k] # 0
       PROVE  Turned(s, k, i, bytes, offset)
  <2>1. m \in Indices /\ inode[i].blocks[m] = 0
    BY <1>4, <1>7, <1>10 DEF Indices
  <2>2. ~ (m * BlockSize < inode[i].size) /\ k * BlockSize < inode[i].size
    BY <1>10, <2>1 DEF FileOK
  <2>3. inode[i].size \in Nat
    <3>1. MaxLength \in Nat
      BY FilesAssumption DEF MaxLength
    <3>2. QED
      BY <3>1 DEF FileOK
  <2>4. k < m
    <3>1. SUFFICES ASSUME m <= k PROVE FALSE
      BY <1>8, <2>1
    <3>2. CASE m = k
      BY <2>1, <1>10, <3>2
    <3>3. CASE m < k
      <4>1. /\ m * BlockSize \in Nat /\ (m + 1) * BlockSize = m * BlockSize + BlockSize
            /\ (m + 1) * BlockSize <= k * BlockSize
        BY <1>8, <2>1, <3>3, BlocksInOrder
      <4>2. k * BlockSize \in Nat /\ BlockSize \in Nat
        BY <1>8, FilesAssumption
      <4>3. QED
        BY <2>2, <2>3, <4>1, <4>2
    <3>4. QED
      BY <1>8, <2>1, <3>1, <3>2, <3>3
  <2>5. QED
    BY <1>7, <2>4
<1>11. s = Written(i, bytes, offset)
  BY <1>1 DEF s
<1>12. QED
  BY <1>6, <1>9, <1>10, <1>11

\* A block lies below the new end of the file exactly when the file had it or
\* the write touched it: the offset is never past the end.
LEMMA EndMoves ==
  ASSUME NEW k \in Indices, NEW bytes \in Seq(Nat),
         NEW size \in 0 .. MaxLength, NEW offset \in 0 .. size
  PROVE  LET n == Lesser(Len(bytes), MaxLength - offset)
         IN  /\ n \in Nat /\ n <= Len(bytes) /\ offset + n \in 0 .. MaxLength
             /\ Greater(size, offset + n) \in 0 .. MaxLength
             /\ offset + n <= Greater(size, offset + n)
             /\ k * BlockSize < Greater(size, offset + n)
                  <=> (k * BlockSize < size \/ Touched(k, bytes, offset))
<1> DEFINE a == k * BlockSize
           z == (k + 1) * BlockSize
<1>1. MaxLength \in Nat
  BY FilesAssumption DEF MaxLength
<1>2. offset \in Nat /\ size \in Nat /\ Len(bytes) \in Nat
  BY <1>1
<1>3. a \in Nat /\ z = a + BlockSize /\ BlockSize \in Nat \ {0}
  BY <1>2, TurnNumbers
<1>4. z <= MaxLength
  <2>1. k + 1 \in Nat /\ MaxBlocks \in Nat /\ (k + 1 = MaxBlocks \/ k + 1 < MaxBlocks)
    BY FilesAssumption DEF Indices
  <2>2. MaxLength = MaxBlocks * BlockSize
    BY <1>3, <2>1 DEF MaxLength
  <2>3. CASE k + 1 = MaxBlocks
    BY <1>1, <2>2, <2>3
  <2>4. CASE k + 1 < MaxBlocks
    <3>1. /\ (k + 1) * BlockSize \in Nat
          /\ (k + 1 + 1) * BlockSize = (k + 1) * BlockSize + BlockSize
          /\ (k + 1 + 1) * BlockSize <= MaxBlocks * BlockSize
      BY <2>1, <2>4, BlocksInOrder
    <3>2. QED
      BY <1>1, <1>3, <2>2, <3>1
  <2>5. QED
    BY <2>1, <2>3, <2>4
<1> HIDE DEF a, z
<1>5. LET n == Lesser(Len(bytes), MaxLength - offset)
      IN  /\ n \in Nat /\ n <= Len(bytes) /\ offset + n \in 0 .. MaxLength
          /\ Greater(size, offset + n) \in 0 .. MaxLength
          /\ offset + n <= Greater(size, offset + n)
          /\ a < Greater(size, offset + n)
               <=> (a < size \/ Greater(offset, a) < Lesser(offset + Len(bytes), z))
  BY <1>1, <1>2, <1>3, <1>4 DEF Greater, Lesser
<1>6. QED
  BY <1>5 DEF a, z, Touched
-----------------------------------------------------------------------------
(* The invariant *)

\* No inode has two names.
OneName == \A m, n \in Names : (named[m] # 0 /\ named[m] = named[n]) => m = n

\* A descriptor in use is at a place of a file that has a name.
Placed ==
  \A f \in Descriptors : open_files[f].used =>
    /\ open_files[f].inode \in Files /\ InUse(open_files[f].inode)
    /\ open_files[f].offset <= inode[open_files[f].inode].size

IInv == TypeOK /\ FilesBacked /\ OneName /\ Placed

Sizes  == 0 .. MaxLength
Inodes == [size : Sizes, blocks : [Indices -> 0 .. NBlocks]]
OpenFile == [used : BOOLEAN, inode : 0 .. NFiles, offset : Sizes]

\* Numbers every step needs.
LEMMA Types ==
  /\ 0 \in Sizes /\ Sizes \subseteq Nat /\ 0 \notin Files /\ Files \subseteq 0 .. NFiles
  /\ Files \subseteq Nat /\ Descriptors \subseteq Nat /\ 0 \notin Blocks
  /\ FreeInode \in Inodes /\ NotUsed \in OpenFile /\ Zeros \in [Offsets -> Nat]
<1>1. MaxLength \in Nat
  BY FilesAssumption DEF MaxLength
<1>2. 0 \in Sizes /\ Sizes \subseteq Nat
  BY <1>1 DEF Sizes
<1>3. 0 \in 0 .. NBlocks /\ 0 \in 0 .. NFiles
  BY FilesAssumption
<1>4. FreeInode \in Inodes
  BY <1>2, <1>3 DEF FreeInode, Inodes
<1>5. NotUsed \in OpenFile
  BY <1>2, <1>3 DEF NotUsed, OpenFile
<1>6. QED
  BY <1>2, <1>4, <1>5, FilesAssumption DEF Files, Descriptors, Blocks, Zeros

\* The conditions the lemmas about a write ask for hold of every named inode.
LEMMA NamedOK ==
  ASSUME TypeOK, FilesBacked, NEW m \in Names, named[m] # 0
  PROVE  named[m] \in Files /\ DiskOK /\ FileOK(named[m])
<1> DEFINE mine == inode[named[m]]
<1>1. named[m] \in Files
  BY FilesAssumption DEF TypeOK, Files
<1>2. DiskOK
  BY DEF TypeOK, DiskOK
<1>3. mine \in [size : 0 .. MaxLength, blocks : [Indices -> 0 .. NBlocks]]
  BY <1>1 DEF TypeOK
<1>4. /\ \A k \in Indices : mine.blocks[k] # 0 <=> k * BlockSize < mine.size
      /\ {mine.blocks[k] : k \in Indices} \ {0} \subseteq used
      /\ \A n \in Names, j, k \in Indices :
           /\ named[n] # 0 /\ mine.blocks[k] # 0
           /\ inode[named[n]].blocks[j] = mine.blocks[k]
           => n = m /\ j = k
  BY DEF FilesBacked
<1> HIDE DEF mine
<1>5. \A k \in Indices : mine.blocks[k] # 0 => mine.blocks[k] \in used
  BY <1>4
<1>6. \A j, k \in Indices : mine.blocks[k] # 0 /\ mine.blocks[j] = mine.blocks[k] => j = k
  BY <1>4 DEF mine
<1>7. QED
  BY <1>1, <1>2, <1>3, <1>4, <1>5, <1>6 DEF FileOK, mine

\* Blocks of files with different names are different.
LEMMA NamesApart ==
  ASSUME FilesBacked, NEW m \in Names, NEW n \in Names, m # n,
         named[m] # 0, named[n] # 0, NEW j \in Indices, NEW k \in Indices,
         inode[named[m]].blocks[k] # 0
  PROVE  inode[named[n]].blocks[j] # inode[named[m]].blocks[k]
  BY DEF FilesBacked

LEMMA InitOK == Init => IInv
<1> SUFFICES ASSUME Init PROVE IInv
  OBVIOUS
<1>1. TypeOK
  BY Types, FilesAssumption DEF Init, TypeOK, Inodes, OpenFile, Sizes
<1>2. FilesBacked
  BY DEF Init, FilesBacked
<1>3. OneName
  BY DEF Init, OneName
<1>4. Placed
  BY DEF Init, Placed, NotUsed
<1>5. QED
  BY <1>1, <1>2, <1>3, <1>4 DEF IInv

\* A name is given to an inode nobody uses, emptied before.
LEMMA TouchKeeps == ASSUME IInv, NEW n \in Names, fs_touch(n) PROVE IInv'
<1> DEFINE free == {i \in Files : ~ InUse(i)}
           i    == Least(free)
<1>1. /\ named[n] = 0 /\ free # {}
      /\ named' = [named EXCEPT ![n] = i]
      /\ inode' = [inode EXCEPT ![i] = FreeInode]
      /\ used' = used /\ data' = data /\ open_files' = open_files
  BY DEF fs_touch
<1>2. i \in Files /\ ~ InUse(i)
  <2>1. free \subseteq Nat
    BY Types
  <2>2. i \in free
    BY <1>1, <2>1, LeastIn
  <2>3. QED
    BY <2>2
<1> HIDE DEF i, free
<1>3. /\ named \in [Names -> 0 .. NFiles] /\ inode \in [Files -> Inodes]
      /\ TypeOK /\ FilesBacked /\ OneName /\ Placed
  BY DEF IInv, TypeOK, Inodes, Sizes
<1>4. /\ named'[n] = i /\ \A m \in Names : m # n => named'[m] = named[m]
      /\ inode'[i] = FreeInode /\ \A x \in Files : x # i => inode'[x] = inode[x]
  BY <1>1, <1>2, <1>3
<1>5. \A m \in Names : named[m] # i /\ (named[m] # 0 => named[m] \in Files)
  BY <1>2, <1>3, NamedOK DEF InUse
<1>6. TypeOK'
  BY <1>1, <1>2, <1>3, Types DEF TypeOK, Inodes, Sizes
<1>7. FilesBacked'
  <2> SUFFICES ASSUME NEW m \in Names, named'[m] # 0
               PROVE  LET mine == inode'[named'[m]]
                      IN  /\ \A k \in Indices : mine.blocks[k] # 0 <=> k * BlockSize < mine.size
                          /\ {mine.blocks[k] : k \in Indices} \ {0} \subseteq used'
                          /\ \A x \in Names, j, k \in Indices :
                               /\ named'[x] # 0 /\ mine.blocks[k] # 0
                               /\ inode'[named'[x]].blocks[j] = mine.blocks[k]
                               => x = m /\ j = k
    BY DEF FilesBacked
  <2>1. CASE m = n
    <3>1. /\ inode'[named'[m]].size = 0
          /\ \A k \in Indices : inode'[named'[m]].blocks[k] = 0
      BY <1>4, <2>1 DEF FreeInode
    <3>2. \A k \in Indices : ~ (k * BlockSize < 0)
      <4>1. BlockSize \in Nat /\ \A k \in Indices : k \in Nat
        BY FilesAssumption DEF Indices
      <4>2. \A k \in Indices : k * BlockSize \in Nat
        BY <4>1
      <4>3. QED
        BY <4>2
    <3>3. QED
      BY <3>1, <3>2
  <2>2. CASE m # n
    <3>1. named'[m] = named[m] /\ inode'[named'[m]] = inode[named[m]] /\ named[m] # 0
      BY <1>4, <1>5, <2>2
    <3>2. ASSUME NEW x \in Names, NEW j \in Indices, NEW k \in Indices,
                 named'[x] # 0, inode[named[m]].blocks[k] # 0,
                 inode'[named'[x]].blocks[j] = inode[named[m]].blocks[k]
          PROVE  x = m /\ j = k
      <4>1. x # n
        BY <1>4, <3>2 DEF FreeInode
      <4>2. named'[x] = named[x] /\ inode'[named'[x]] = inode[named[x]]
        BY <1>4, <1>5, <3>2, <4>1
      <4>3. QED
        BY <1>3, <3>1, <3>2, <4>2 DEF FilesBacked
    <3>3. QED
      BY <1>1, <1>3, <3>1, <3>2 DEF FilesBacked
  <2>3. QED
    BY <2>1, <2>2
<1>8. OneName'
  BY <1>3, <1>4, <1>5 DEF OneName
<1>9. Placed'
  <2>1. \A f \in Descriptors : open_files[f].used =>
          open_files[f].inode # i /\ open_files[f].inode \in Files
    BY <1>2, <1>3 DEF Placed
  <2>2. \A x : InUse(x) /\ x # 0 => InUse(x)'
    BY <1>1, <1>4 DEF InUse
  <2>3. QED
    BY <1>1, <1>3, <1>4, <2>1, <2>2, Types DEF Placed
<1>10. QED
  BY <1>6, <1>7, <1>8, <1>9 DEF IInv
\* The blocks of a removed file are nobody else's, and no descriptor is left
\* on it.
LEMMA RemoveKeeps == ASSUME IInv, NEW n \in Names, fs_rm(n) PROVE IInv'
<1> DEFINE i == named[n]
<1>1. /\ i # 0
      /\ \A f \in Descriptors : open_files[f].used => open_files[f].inode # i
      /\ named' = [named EXCEPT ![n] = 0]
      /\ used' = used \ {inode[i].blocks[k] : k \in Indices}
      /\ inode' = [inode EXCEPT ![i] = FreeInode]
      /\ data' = data /\ open_files' = open_files
  BY DEF fs_rm
<1>2. /\ named \in [Names -> 0 .. NFiles] /\ inode \in [Files -> Inodes]
      /\ TypeOK /\ FilesBacked /\ OneName /\ Placed
  BY DEF IInv, TypeOK, Inodes, Sizes
<1>3. i \in Files
  BY <1>1, <1>2, NamedOK
<1>4. /\ named'[n] = 0 /\ \A m \in Names : m # n => named'[m] = named[m]
      /\ inode'[i] = FreeInode /\ \A x \in Files : x # i => inode'[x] = inode[x]
  BY <1>1, <1>2, <1>3
<1>5. \A m \in Names : m # n => named[m] # i /\ (named[m] # 0 => named[m] \in Files)
  BY <1>1, <1>2, NamedOK DEF OneName
<1>6. TypeOK'
  BY <1>1, <1>2, <1>3, Types, FilesAssumption DEF TypeOK, Inodes, Sizes
<1>7. FilesBacked'
  <2> SUFFICES ASSUME NEW m \in Names, named'[m] # 0
               PROVE  LET mine == inode'[named'[m]]
                      IN  /\ \A k \in Indices : mine.blocks[k] # 0 <=> k * BlockSize < mine.size
                          /\ {mine.blocks[k] : k \in Indices} \ {0} \subseteq used'
                          /\ \A x \in Names, j, k \in Indices :
                               /\ named'[x] # 0 /\ mine.blocks[k] # 0
                               /\ inode'[named'[x]].blocks[j] = mine.blocks[k]
                               => x = m /\ j = k
    BY DEF FilesBacked
  <2>1. m # n /\ named'[m] = named[m] /\ inode'[named'[m]] = inode[named[m]] /\ named[m] # 0
    BY <1>4, <1>5
  <2>2. ASSUME NEW x \in Names, NEW j \in Indices, NEW k \in Indices,
               named'[x] # 0, inode[named[m]].blocks[k] # 0,
               inode'[named'[x]].blocks[j] = inode[named[m]].blocks[k]
        PROVE  x = m /\ j = k
    <3>1. x # n /\ named'[x] = named[x] /\ inode'[named'[x]] = inode[named[x]]
      BY <1>4, <1>5, <2>2
    <3>2. QED
      BY <1>2, <2>1, <2>2, <3>1 DEF FilesBacked
  <2>3. \A k \in Indices : inode[named[m]].blocks[k] # 0 => inode[named[m]].blocks[k] \in used'
    <3>1. \A k \in Indices : inode[named[m]].blocks[k] # 0 => inode[named[m]].blocks[k] \in used
      BY <1>2, <2>1, NamedOK DEF FileOK
    <3>2. \A j, k \in Indices : inode[named[m]].blocks[k] # 0 =>
            inode[i].blocks[j] # inode[named[m]].blocks[k]
      BY <1>1, <1>2, <2>1, NamesApart
    <3>3. QED
      BY <1>1, <3>1, <3>2
  <2>4. QED
    BY <1>2, <2>1, <2>2, <2>3 DEF FilesBacked
<1>8. OneName'
  BY <1>2, <1>4, <1>5 DEF OneName
<1>9. Placed'
  <2>1. \A x : InUse(x) /\ x # i => InUse(x)'
    BY <1>1, <1>4 DEF InUse
  <2>2. QED
    BY <1>1, <1>2, <1>4, <2>1 DEF Placed
<1>10. QED
  BY <1>6, <1>7, <1>8, <1>9 DEF IInv

\* A change of open_files alone.
LEMMA DescriptorMoves ==
  ASSUME IInv, NEW f \in Descriptors, NEW o \in OpenFile,
         o.used => o.inode \in Files /\ InUse(o.inode) /\ o.offset <= inode[o.inode].size,
         open_files' = [open_files EXCEPT ![f] = o],
         UNCHANGED <<named, inode, used, data>>
  PROVE  IInv'
<1>1. open_files \in [Descriptors -> OpenFile]
  BY DEF IInv, TypeOK, OpenFile, Sizes
<1>2. TypeOK'
  BY <1>1 DEF IInv, TypeOK, OpenFile, Sizes
<1>3. FilesBacked' /\ OneName'
  BY DEF IInv, FilesBacked, OneName
<1>4. Placed'
  BY <1>1 DEF IInv, Placed, InUse
<1>5. QED
  BY <1>2, <1>3, <1>4 DEF IInv

LEMMA OpenKeeps == ASSUME IInv, NEW n \in Names, fs_open(n) PROVE IInv'
<1> DEFINE free == {f \in Descriptors : ~ open_files[f].used}
           f    == Least(free)
           o    == [used |-> TRUE, inode |-> named[n], offset |-> 0]
<1>1. /\ named[n] # 0 /\ free # {}
      /\ open_files' = [open_files EXCEPT ![f] = o]
      /\ UNCHANGED <<named, inode, used, data>>
  BY DEF fs_open
<1>2. f \in Descriptors
  BY <1>1, Types, LeastIn
<1>3. named[n] \in Files /\ InUse(named[n]) /\ inode[named[n]].size \in Sizes
  <2>1. named[n] \in Files
    BY <1>1, NamedOK DEF IInv
  <2>2. QED
    BY <2>1 DEF IInv, TypeOK, InUse, Sizes
<1>4. o \in OpenFile /\ 0 <= inode[named[n]].size
  <2>1. named[n] \in 0 .. NFiles /\ 0 \in Sizes /\ inode[named[n]].size \in Nat
    BY <1>3, Types
  <2>2. QED
    BY <2>1 DEF OpenFile
<1> HIDE DEF f
<1>5. QED
  BY <1>1, <1>2, <1>3, <1>4, DescriptorMoves

LEMMA CloseKeeps == ASSUME IInv, NEW f \in Descriptors, fs_close(f) PROVE IInv'
<1>1. NotUsed \in OpenFile /\ ~ NotUsed.used
  BY Types DEF NotUsed
<1>2. open_files' = [open_files EXCEPT ![f] = NotUsed] /\ UNCHANGED <<named, inode, used, data>>
  BY DEF fs_close
<1>3. QED
  BY <1>1, <1>2, DescriptorMoves

\* The block and the place of a byte of a file.
LEMMA PlaceInFile ==
  ASSUME NEW i, DiskOK, FileOK(i), NEW q \in Nat, q < inode[i].size
  PROVE  LET k == q \div BlockSize
             o == q % BlockSize
         IN  /\ k \in Indices /\ o \in Offsets /\ q = k * BlockSize + o
             /\ inode[i].blocks[k] \in Blocks
             /\ data[inode[i].blocks[k]][o] \in Nat
<1> DEFINE k == q \div BlockSize
           o == q % BlockSize
<1>1. k \in Nat /\ o \in Offsets /\ q = k * BlockSize + o
  BY Place
<1> HIDE DEF k, o
<1>2. o \in Nat /\ BlockSize \in Nat /\ MaxBlocks \in Nat
  BY <1>1, FilesAssumption DEF Offsets
<1>3. k * BlockSize \in Nat /\ inode[i].size \in Sizes /\ Sizes \subseteq Nat
  <2>1. k * BlockSize \in Nat
    BY <1>1, <1>2
  <2>2. QED
    BY <2>1, Types DEF FileOK, Sizes
<1>4. k * BlockSize < inode[i].size
  <2> DEFINE a == k * BlockSize
  <2>1. a \in Nat /\ q = a + o
    BY <1>1, <1>3
  <2> HIDE DEF a
  <2>2. inode[i].size \in Nat
    BY <1>3
  <2>3. a <= q
    BY <1>2, <2>1
  <2>4. a < inode[i].size
    BY <2>1, <2>2, <2>3
  <2>5. QED
    BY <2>4 DEF a
<1>5. k \in Indices
  <2>1. SUFFICES ASSUME MaxBlocks <= k PROVE FALSE
    BY <1>1, <1>2 DEF Indices
  <2>2. MaxBlocks * BlockSize <= k * BlockSize
    <3>1. CASE MaxBlocks = k
      BY <1>3, <3>1
    <3>2. CASE MaxBlocks < k
      <4>1. /\ MaxBlocks * BlockSize \in Nat
            /\ (MaxBlocks + 1) * BlockSize = MaxBlocks * BlockSize + BlockSize
            /\ (MaxBlocks + 1) * BlockSize <= k * BlockSize
        BY <1>1, <1>2, <3>2, BlocksInOrder
      <4>2. QED
        BY <1>2, <1>3, <4>1
    <3>3. QED
      BY <1>1, <1>2, <2>1, <3>1, <3>2
  <2>3. MaxLength = MaxBlocks * BlockSize /\ MaxLength \in Nat
    BY FilesAssumption DEF MaxLength
  <2>4. inode[i].size <= MaxLength /\ inode[i].size \in Nat
    BY <1>3, <2>3 DEF Sizes
  <2> DEFINE a == k * BlockSize
             z == MaxBlocks * BlockSize
  <2> HIDE DEF a, z
  <2>5. a \in Nat /\ a < inode[i].size /\ z <= a /\ MaxLength = z
    BY <1>3, <1>4, <2>2, <2>3 DEF a, z
  <2>6. QED
    BY <2>3, <2>4, <2>5
<1>6. inode[i].blocks[k] # 0
  BY <1>4, <1>5 DEF FileOK
<1>7. inode[i].blocks[k] \in Blocks
  BY <1>5, <1>6 DEF FileOK, DiskOK
<1>8. data[inode[i].blocks[k]][o] \in Nat
  BY <1>1, <1>7 DEF DiskOK
<1>9. QED
  BY <1>1, <1>5, <1>7, <1>8 DEF k, o

\* What holds of the file behind a descriptor in use.
LEMMA OpenedOK ==
  ASSUME IInv, NEW f \in Descriptors, open_files[f].used
  PROVE  LET i == open_files[f].inode
         IN  /\ i \in Files /\ DiskOK /\ FileOK(i)
             /\ inode[i].size \in Sizes /\ open_files[f].offset \in 0 .. inode[i].size
             /\ \E m \in Names : named[m] = i
<1> DEFINE i == open_files[f].inode
<1>1. PICK m \in Names : named[m] = i
  BY DEF IInv, Placed, InUse
<1>2. i \in Files /\ open_files[f].offset <= inode[i].size
  BY DEF IInv, Placed
<1>3. DiskOK /\ FileOK(i)
  BY <1>1, <1>2, Types, NamedOK DEF IInv
<1>4. inode[i].size \in Sizes
  BY <1>2 DEF IInv, TypeOK, Sizes
<1>5. open_files[f].offset \in Nat
  BY Types DEF IInv, TypeOK, Sizes
<1> HIDE DEF i
<1>6. open_files[f].offset \in 0 .. inode[i].size
  BY <1>2, <1>4, <1>5, Types
<1>7. QED
  BY <1>1, <1>2, <1>3, <1>4, <1>6 DEF i

\* What fs_read copies: the bytes from the offset on, no more than there are.
LEMMA CopiedIs ==
  ASSUME NEW i, DiskOK, FileOK(i), NEW size \in Nat, NEW offset \in 0 .. inode[i].size
  PROVE  LET n     == Lesser(size, inode[i].size - offset)
             bytes == Copied(i, offset, size)
         IN  /\ n \in Nat /\ offset + n <= inode[i].size
             /\ bytes = [p \in 1 .. n |->
                           LET q == offset + p - 1
                           IN  data[inode[i].blocks[q \div BlockSize]][q % BlockSize]]
             /\ bytes \in Seq(Nat) /\ Len(bytes) = n
<1> DEFINE n == Lesser(size, inode[i].size - offset)
           byte(p) == LET q == offset + p - 1
                      IN  data[inode[i].blocks[q \div BlockSize]][q % BlockSize]
           bytes == Copied(i, offset, size)
<1>1. inode[i].size \in Nat /\ offset \in Nat /\ offset <= inode[i].size
  BY Types DEF FileOK, Sizes
<1>2. n \in Nat /\ offset + n <= inode[i].size
  BY <1>1 DEF Lesser
<1>3. n = IF offset >= inode[i].size THEN 0 ELSE Lesser(size, inode[i].size - offset)
  BY <1>1 DEF Lesser
<1>4. bytes = [p \in 1 .. n |-> byte(p)]
  BY <1>3 DEF Copied
<1> HIDE DEF n, bytes
<1>5. ASSUME NEW p \in 1 .. n PROVE byte(p) \in Nat
  <2> DEFINE q == offset + p - 1
  <2>1. q \in Nat /\ q < inode[i].size
    BY <1>1, <1>2
  <2> HIDE DEF q
  <2>2. data[inode[i].blocks[q \div BlockSize]][q % BlockSize] \in Nat
    BY <2>1, PlaceInFile
  <2>3. QED
    BY <2>2 DEF q
<1> HIDE DEF byte
<1>6. bytes \in [1 .. n -> Nat]
  BY <1>4, <1>5
<1>7. bytes \in Seq(Nat) /\ Len(bytes) = n
  BY <1>2, <1>6, SeqDef
<1>8. QED
  BY <1>2, <1>4, <1>7 DEF n, byte, bytes

LEMMA ReadKeeps ==
  ASSUME IInv, NEW f \in Descriptors, NEW size \in ReadSizes, fs_read(f, size)
  PROVE  IInv'
<1> DEFINE i      == open_files[f].inode
           offset == open_files[f].offset
           bytes  == Copied(i, offset, size)
           o      == [open_files[f] EXCEPT !.offset = offset + Len(bytes)]
<1>1. /\ open_files[f].used
      /\ open_files' = [open_files EXCEPT ![f].offset = @ + Len(bytes)]
      /\ UNCHANGED <<named, inode, used, data>>
  BY DEF fs_read
<1>2. /\ i \in Files /\ DiskOK /\ FileOK(i) /\ inode[i].size \in Sizes
      /\ offset \in 0 .. inode[i].size /\ InUse(i)
  BY <1>1, OpenedOK DEF InUse
<1>3. size \in Nat
  BY FilesAssumption
<1>4. Len(bytes) \in Nat /\ offset + Len(bytes) <= inode[i].size
  <2> HIDE DEF i, offset
  <2>1. LET n == Lesser(size, inode[i].size - offset)
        IN  n \in Nat /\ offset + n <= inode[i].size /\ Len(bytes) = n
    BY <1>2, <1>3, CopiedIs
  <2> HIDE DEF bytes
  <2>2. QED
    BY <2>1
<1> HIDE DEF bytes
<1>5. open_files[f] \in OpenFile
  BY DEF IInv, TypeOK, OpenFile, Sizes
<1>6. offset + Len(bytes) \in Sizes
  <2>1. MaxLength \in Nat /\ inode[i].size \in 0 .. MaxLength
    BY <1>2, FilesAssumption DEF Sizes, MaxLength
  <2> HIDE DEF i, offset
  <2>2. QED
    BY <1>2, <1>4, <2>1 DEF Sizes
<1>7. o \in OpenFile /\ o.used /\ o.inode = i /\ o.offset = offset + Len(bytes)
  BY <1>1, <1>5, <1>6 DEF OpenFile
<1>8. open_files' = [open_files EXCEPT ![f] = o]
  BY <1>1
<1> HIDE DEF o, i, offset
<1>9. QED
  BY <1>1, <1>2, <1>4, <1>7, <1>8, DescriptorMoves
\* What a write changes, told apart from how: s is the state of the loop, i the
\* file, and a write that fails leaves the inode and the descriptor alone.
LEMMA WriteIs ==
  ASSUME NEW f \in Descriptors, NEW bytes, fs_write(f, bytes)
  PROVE  LET i      == open_files[f].inode
             offset == open_files[f].offset
             n      == Lesser(Len(bytes), MaxLength - offset)
             s      == Written(i, bytes, offset)
         IN  /\ open_files[f].used /\ named' = named /\ used' = s.used /\ data' = s.data
             /\ s.ok => /\ inode' = [inode EXCEPT ![i] =
                                       [size |-> Greater(inode[i].size, offset + n),
                                        blocks |-> s.blocks]]
                        /\ open_files' = [open_files EXCEPT ![f].offset = offset + n]
                        /\ result' = <<n>>
             /\ ~ s.ok => /\ inode' = inode /\ open_files' = open_files
                          /\ result' = <<-1>>
  BY DEF fs_write

\* A write keeps the invariant: the file has the blocks its size asks for, the
\* blocks added were free, and those of the other files are not touched.
LEMMA WriteKeeps ==
  ASSUME IInv, NEW f \in Descriptors, NEW bytes \in Texts, fs_write(f, bytes)
  PROVE  IInv'
<1> DEFINE i      == open_files[f].inode
           offset == open_files[f].offset
           n      == Lesser(Len(bytes), MaxLength - offset)
           s      == Written(i, bytes, offset)
           size   == Greater(inode[i].size, offset + n)
           was    == inode[i].blocks
<1>1. /\ open_files[f].used /\ named' = named /\ used' = s.used /\ data' = s.data
      /\ s.ok => /\ inode' = [inode EXCEPT ![i] = [size |-> size, blocks |-> s.blocks]]
                 /\ open_files' = [open_files EXCEPT ![f].offset = offset + n]
      /\ ~ s.ok => inode' = inode /\ open_files' = open_files
  BY WriteIs
<1>2. /\ i \in Files /\ DiskOK /\ FileOK(i) /\ inode[i].size \in Sizes
      /\ offset \in 0 .. inode[i].size /\ \E m \in Names : named[m] = i
  BY <1>1, OpenedOK
<1>3. bytes \in Seq(Nat) /\ offset \in Nat /\ i # 0
  BY <1>2, FilesAssumption, Types
<1> HIDE DEF i, offset
<1>4. /\ Extends(s, i)
      /\ s.ok => \A k \in Indices : Turned(s, k, i, bytes, offset)
  BY <1>2, <1>3, WrittenLeaves
<1>5. ASSUME NEW k \in Indices
      PROVE  k * BlockSize < size <=> (k * BlockSize < inode[i].size \/ Touched(k, bytes, offset))
  BY <1>2, <1>3, EndMoves DEF Sizes
<1>6. size \in Sizes /\ offset + n \in Sizes /\ n \in Nat /\ offset + n <= size
  <2>1. 0 \in Indices
    BY FilesAssumption DEF Indices
  <2>2. QED
    BY <1>2, <1>3, <2>1, EndMoves DEF Sizes
<1> HIDE DEF s, size, n
<1>7. /\ s.blocks \in [Indices -> 0 .. NBlocks] /\ s.used \subseteq Blocks
      /\ s.data \in [Blocks -> [Offsets -> Nat]] /\ s.ok \in BOOLEAN
  BY <1>4 DEF Extends, LoopState
<1>8. /\ named \in [Names -> 0 .. NFiles] /\ inode \in [Files -> Inodes]
      /\ open_files \in [Descriptors -> OpenFile]
      /\ TypeOK /\ FilesBacked /\ OneName /\ Placed
  BY DEF IInv, TypeOK, Inodes, OpenFile, Sizes
<1>9. \A m \in Names : named[m] # 0 => named[m] \in Files /\ FileOK(named[m])
  BY <1>8, NamedOK
<1>10. /\ \A x \in Files : x # i => inode'[x] = inode[x]
       /\ s.ok => inode'[i].size = size /\ inode'[i].blocks = s.blocks
       /\ inode'[i].size \in Sizes
       /\ inode' \in [Files -> Inodes]
       /\ inode[i].size <= inode'[i].size
  <2>0. inode[i].size \in Nat /\ offset + n \in Nat
    BY <1>2, <1>6, Types
  <2>1. size >= inode[i].size
    BY <2>0 DEF size, Greater
  <2>2. CASE s.ok
    <3>1. [size |-> size, blocks |-> s.blocks] \in Inodes
      BY <1>6, <1>7 DEF Inodes
    <3>2. inode' = [inode EXCEPT ![i] = [size |-> size, blocks |-> s.blocks]]
      BY <1>1, <2>2
    <3>3. inode'[i] = [size |-> size, blocks |-> s.blocks] /\ inode' \in [Files -> Inodes]
      BY <1>2, <1>8, <3>1, <3>2
    <3>4. QED
      BY <1>2, <1>6, <1>8, <2>1, <3>2, <3>3
  <2>3. CASE ~ s.ok
    BY <1>1, <1>2, <1>8, <2>3, Types
  <2>4. QED
    BY <2>2, <2>3
<1>11. /\ open_files' \in [Descriptors -> OpenFile]
       /\ \A g \in Descriptors : g # f => open_files'[g] = open_files[g]
       /\ open_files'[f].used = open_files[f].used /\ open_files'[f].inode = i
       /\ open_files'[f].offset = IF s.ok THEN offset + n ELSE offset
  <2>1. CASE s.ok
    <3>1. open_files' = [open_files EXCEPT ![f].offset = offset + n]
      BY <1>1, <2>1
    <3>2. offset + n \in Sizes /\ open_files \in [Descriptors -> OpenFile]
      BY <1>6, <1>8
    <3>3. QED
      BY <2>1, <3>1, <3>2 DEF OpenFile, i
  <2>2. CASE ~ s.ok
    BY <1>1, <1>8, <2>2 DEF i, offset
  <2>3. QED
    BY <2>1, <2>2
<1>12. TypeOK'
  BY <1>1, <1>7, <1>8, <1>10, <1>11 DEF TypeOK, Inodes, OpenFile, Sizes
<1>13. FilesBacked'
  <2>1. ASSUME NEW m \in Names, named[m] # 0, named[m] # i
        PROVE  /\ inode'[named[m]] = inode[named[m]]
               /\ \A k \in Indices : inode[named[m]].blocks[k] # 0 => inode[named[m]].blocks[k] \in used
               /\ \A j, k \in Indices : inode[named[m]].blocks[k] # 0 =>
                    inode'[i].blocks[j] # inode[named[m]].blocks[k]
    <3>1. inode'[named[m]] = inode[named[m]]
      BY <1>9, <1>10, <2>1
    <3>2. \A k \in Indices : inode[named[m]].blocks[k] # 0 => inode[named[m]].blocks[k] \in used
      BY <1>9, <2>1 DEF FileOK
    <3>3. \A j, k \in Indices : inode[named[m]].blocks[k] # 0 =>
            was[j] # inode[named[m]].blocks[k]
      BY <1>2, <1>3, <1>8, <2>1, NamesApart
    <3>4. \A j \in Indices : s.blocks[j] = was[j] \/ s.blocks[j] \notin used
      BY <1>4 DEF Extends
    <3>5. inode'[i].blocks = s.blocks \/ inode'[i].blocks = was
      BY <1>1, <1>7, <1>10
    <3>6. QED
      BY <3>1, <3>2, <3>3, <3>4, <3>5
  <2>2. /\ \A k \in Indices : inode'[i].blocks[k] # 0 <=> k * BlockSize < inode'[i].size
        /\ \A k \in Indices : inode'[i].blocks[k] # 0 => inode'[i].blocks[k] \in used'
        /\ \A j, k \in Indices : inode'[i].blocks[k] # 0 /\ inode'[i].blocks[j] = inode'[i].blocks[k]
             => j = k
    <3>1. CASE s.ok
      <4>1. \A k \in Indices : s.blocks[k] # 0 <=> k * BlockSize < size
        BY <1>2, <1>4, <1>5, <3>1 DEF Turned, FileOK
      <4>2. QED
        BY <1>1, <1>4, <1>10, <3>1, <4>1 DEF Extends
    <3>2. CASE ~ s.ok
      BY <1>1, <1>2, <1>4, <3>2 DEF Extends, FileOK
    <3>3. QED
      BY <3>1, <3>2
  <2>3. \A m \in Names : named[m] = i => (\A x \in Names : x # m => named[x] # i)
    BY <1>3, <1>8 DEF OneName
  <2>4. \A m \in Names, x \in Names, j, k \in Indices :
          /\ named[m] # 0 /\ inode'[named[m]].blocks[k] # 0 /\ named[x] # 0
          /\ inode'[named[x]].blocks[j] = inode'[named[m]].blocks[k]
          => x = m /\ j = k
    <3> SUFFICES ASSUME NEW m \in Names, NEW x \in Names, NEW j \in Indices, NEW k \in Indices,
                        named[m] # 0, inode'[named[m]].blocks[k] # 0, named[x] # 0,
                        inode'[named[x]].blocks[j] = inode'[named[m]].blocks[k]
                 PROVE  x = m /\ j = k
      OBVIOUS
    <3>1. CASE named[m] = i /\ named[x] = i
      BY <2>2, <2>3, <3>1
    <3>2. CASE named[m] = i /\ named[x] # i
      BY <2>1, <3>2
    <3>3. CASE named[m] # i /\ named[x] = i
      BY <2>1, <3>3
    <3>4. CASE named[m] # i /\ named[x] # i
      BY <1>8, <2>1, <3>4 DEF FilesBacked
    <3>5. QED
      BY <3>1, <3>2, <3>3, <3>4
  <2>5. ASSUME NEW m \in Names, named[m] # 0
        PROVE  /\ \A k \in Indices : inode'[named[m]].blocks[k] # 0
                                       <=> k * BlockSize < inode'[named[m]].size
               /\ \A k \in Indices : inode'[named[m]].blocks[k] # 0 =>
                    inode'[named[m]].blocks[k] \in used'
    <3>1. CASE named[m] = i
      BY <2>2, <3>1
    <3>2. CASE named[m] # i
      BY <1>1, <1>4, <1>9, <2>1, <2>5, <3>2 DEF Extends, FileOK
    <3>3. QED
      BY <3>1, <3>2
  <2>6. QED
    BY <1>1, <2>4, <2>5 DEF FilesBacked
<1>14. OneName'
  BY <1>1, <1>8 DEF OneName
<1>15. Placed'
  <2>1. \A x : InUse(x) <=> InUse(x)'
    BY <1>1 DEF InUse
  <2>2. open_files'[f].offset <= inode'[i].size
    <3>0. inode[i].size \in Nat
      BY <1>2, Types
    <3>1. inode[i].size \in Nat /\ offset <= inode[i].size
      BY <1>2, <3>0
    <3>2. CASE s.ok
      BY <1>6, <1>10, <1>11, <3>2
    <3>3. CASE ~ s.ok
      BY <1>1, <1>11, <3>1, <3>3
    <3>4. QED
      BY <3>2, <3>3
  <2>3. ASSUME NEW g \in Descriptors, g # f, open_files[g].used
        PROVE  open_files[g].offset <= inode'[open_files[g].inode].size
    <3>1. open_files[g].inode \in Files /\ open_files[g].offset <= inode[open_files[g].inode].size
      BY <1>8, <2>3 DEF Placed
    <3>2. open_files[g].offset \in Nat /\ inode[open_files[g].inode].size \in Nat
      BY <1>8, <3>1, Types DEF OpenFile, Inodes
    <3>3. inode'[open_files[g].inode].size \in Nat /\ inode[i].size \in Nat
      BY <1>2, <1>10, <3>1, Types DEF Inodes
    <3>4. QED
      BY <1>10, <3>1, <3>2, <3>3
  <2>4. InUse(i)
    BY <1>2 DEF InUse
  <2>5. QED
    BY <1>2, <1>8, <1>11, <2>1, <2>2, <2>3, <2>4 DEF Placed
<1>16. QED
  BY <1>12, <1>13, <1>14, <1>15 DEF IInv
LEMMA NextOK == IInv /\ [Next]_vars => IInv'
<1> SUFFICES ASSUME IInv, [Next]_vars PROVE IInv'
  OBVIOUS
<1>1. CASE UNCHANGED vars
  BY <1>1 DEF vars, IInv, TypeOK, FilesBacked, OneName, Placed, InUse
<1>2. ASSUME NEW n \in Names, fs_touch(n) \/ fs_rm(n) \/ fs_open(n) PROVE IInv'
  BY <1>2, TouchKeeps, RemoveKeeps, OpenKeeps
<1>3. ASSUME NEW f \in Descriptors, fs_close(f) PROVE IInv'
  BY <1>3, CloseKeeps
<1>4. ASSUME NEW f \in Descriptors, NEW size \in ReadSizes, fs_read(f, size) PROVE IInv'
  BY <1>4, ReadKeeps
<1>5. ASSUME NEW f \in Descriptors, NEW bytes \in Texts, fs_write(f, bytes) PROVE IInv'
  BY <1>5, WriteKeeps
<1>6. QED
  BY <1>1, <1>2, <1>3, <1>4, <1>5 DEF Next

THEOREM InvariantHolds == Spec => []IInv
  BY InitOK, NextOK, PTL DEF Spec

\* The values of the directory, the inodes, the blocks and the descriptors
\* stay in their ranges: no offset and no size passes the longest file.
THEOREM FilesTyped == Spec => []TypeOK
<1>1. IInv => TypeOK
  BY DEF IInv
<1>2. QED
  BY <1>1, InvariantHolds, PTL

\* Every block of a file is marked and belongs to it alone, and a file has a
\* block exactly wherever it has bytes, also after a write that ran out of
\* blocks and after files were removed and their blocks used again.
THEOREM FilesAreBacked == Spec => []FilesBacked
<1>1. IInv => FilesBacked
  BY DEF IInv
<1>2. QED
  BY <1>1, InvariantHolds, PTL
-----------------------------------------------------------------------------
(* What programs see of the files *)

\* The bytes of a file, for the inode and the blocks of whichever state.
BytesOf(file, disk) ==
  [p \in 1 .. file.size |->
     disk[file.blocks[(p - 1) \div BlockSize]][(p - 1) % BlockSize]]

\* The place of a descriptor, for the table and the directory of whichever state.
PlaceOf(open, directory) ==
  IF open.used
  THEN [name |-> CHOOSE n \in Names : directory[n] = open.inode, offset |-> open.offset]
  ELSE Closed

LEMMA Seen ==
  /\ content = [n \in Names |-> IF named[n] = 0 THEN Absent
                                ELSE BytesOf(inode[named[n]], data)]
  /\ content' = [n \in Names |-> IF named'[n] = 0 THEN Absent
                                 ELSE BytesOf(inode'[named'[n]], data')]
  /\ cursor = [f \in Descriptors |-> PlaceOf(open_files[f], named)]
  /\ cursor' = [f \in Descriptors |-> PlaceOf(open_files'[f], named')]
  BY DEF content, cursor, Bytes, BytesOf, PlaceOf

\* A name that alone has an inode is the one that is chosen.
LEMMA ChosenName ==
  ASSUME NEW directory, NEW i, NEW m \in Names, directory[m] = i,
         \A x \in Names : directory[x] = i => x = m
  PROVE  (CHOOSE n \in Names : directory[n] = i) = m
  OBVIOUS

\* The bytes of a file are a sequence of numbers as long as the file.
LEMMA BytesAre ==
  ASSUME NEW i, DiskOK, FileOK(i)
  PROVE  LET s == BytesOf(inode[i], data)
         IN  /\ s \in Seq(Nat) /\ Len(s) = inode[i].size
             /\ \A p \in 1 .. inode[i].size :
                  s[p] = data[inode[i].blocks[(p - 1) \div BlockSize]][(p - 1) % BlockSize]
<1> DEFINE s == BytesOf(inode[i], data)
<1>1. inode[i].size \in Nat
  BY Types DEF FileOK, Sizes
<1>2. s = [p \in 1 .. inode[i].size |->
             data[inode[i].blocks[(p - 1) \div BlockSize]][(p - 1) % BlockSize]]
  BY DEF BytesOf
<1>3. ASSUME NEW p \in 1 .. inode[i].size
      PROVE  data[inode[i].blocks[(p - 1) \div BlockSize]][(p - 1) % BlockSize] \in Nat
  <2> DEFINE q == p - 1
  <2>1. q \in Nat /\ q < inode[i].size
    BY <1>1
  <2> HIDE DEF q
  <2>2. data[inode[i].blocks[q \div BlockSize]][q % BlockSize] \in Nat
    BY <2>1, PlaceInFile
  <2>3. QED
    BY <2>2 DEF q
<1> HIDE DEF s
<1>4. s \in [1 .. inode[i].size -> Nat]
  BY <1>2, <1>3
<1>5. s \in Seq(Nat) /\ Len(s) = inode[i].size
  BY <1>1, <1>4, SeqDef
<1>6. QED
  BY <1>2, <1>5 DEF s

\* A name is in use for programs when its entry is, and a descriptor is open
\* when the table says so.
LEMMA SeenOK ==
  ASSUME IInv
  PROVE  /\ \A n \in Names : content[n] = Absent <=> named[n] = 0
         /\ \A n \in Names : named[n] # 0 => content[n] = BytesOf(inode[named[n]], data)
         /\ \A f \in Descriptors :
              /\ cursor[f] = Closed <=> ~ open_files[f].used
              /\ open_files[f].used =>
                   \E m \in Names :
                     /\ named[m] = open_files[f].inode
                     /\ \A x \in Names : named[x] = open_files[f].inode => x = m
                     /\ cursor[f] = [name |-> m, offset |-> open_files[f].offset]
<1>1. ASSUME NEW n \in Names
      PROVE  /\ content[n] = Absent <=> named[n] = 0
             /\ named[n] # 0 => content[n] = BytesOf(inode[named[n]], data)
  <2>1. content[n] = IF named[n] = 0 THEN Absent ELSE BytesOf(inode[named[n]], data)
    BY Seen
  <2>2. named[n] # 0 => BytesOf(inode[named[n]], data) \in Seq(Nat)
    BY NamedOK, BytesAre DEF IInv
  <2>3. QED
    BY <2>1, <2>2, OutsideAssumption
<1>2. ASSUME NEW f \in Descriptors
      PROVE  /\ cursor[f] = Closed <=> ~ open_files[f].used
             /\ open_files[f].used =>
                  \E m \in Names :
                    /\ named[m] = open_files[f].inode
                    /\ \A x \in Names : named[x] = open_files[f].inode => x = m
                    /\ cursor[f] = [name |-> m, offset |-> open_files[f].offset]
  <2>1. cursor[f] = PlaceOf(open_files[f], named)
    BY Seen
  <2>2. CASE ~ open_files[f].used
    BY <2>1, <2>2 DEF PlaceOf
  <2>3. CASE open_files[f].used
    <3>1. PICK m \in Names : named[m] = open_files[f].inode
      BY <2>3, OpenedOK
    <3>2. open_files[f].inode # 0
      BY <2>3, Types DEF IInv, Placed
    <3>3. \A x \in Names : named[x] = open_files[f].inode => x = m
      BY <3>1, <3>2 DEF IInv, OneName
    <3>4. (CHOOSE n \in Names : named[n] = open_files[f].inode) = m
      BY <3>1, <3>3, ChosenName
    <3>5. cursor[f] = [name |-> m, offset |-> open_files[f].offset]
      BY <2>1, <2>3, <3>4 DEF PlaceOf
    <3>6. open_files[f].offset \in 0 .. BlockSize * MaxBlocks
      BY DEF IInv, TypeOK, MaxLength
    <3>7. cursor[f] # Closed
      BY <3>5, <3>6, OutsideAssumption
    <3>8. QED
      BY <2>3, <3>1, <3>3, <3>5, <3>7
  <2>4. QED
    BY <2>2, <2>3
<1>3. QED
  BY <1>1, <1>2
-----------------------------------------------------------------------------
(* The steps of ByteFiles *)

\* Every named file keeps its bytes when its inode and its blocks do.
LEMMA TouchRefines ==
  ASSUME IInv, NEW n \in Names, fs_touch(n) PROVE Files0!Touch(n)
<1> DEFINE free == {i \in Files : ~ InUse(i)}
           i    == Least(free)
<1>1. /\ named[n] = 0 /\ free # {}
      /\ named' = [named EXCEPT ![n] = i]
      /\ inode' = [inode EXCEPT ![i] = FreeInode]
      /\ data' = data /\ open_files' = open_files /\ result' = result
  BY DEF fs_touch
<1>2. i \in Files /\ ~ InUse(i)
  <2>1. free \subseteq Nat
    BY Types
  <2>2. i \in free
    BY <1>1, <2>1, LeastIn
  <2>3. QED
    BY <2>2
<1> HIDE DEF i, free
<1>3. i # 0 /\ named \in [Names -> 0 .. NFiles] /\ inode \in [Files -> Inodes]
  BY <1>2, Types DEF IInv, TypeOK, Inodes, Sizes
<1>4. /\ named'[n] = i /\ \A m \in Names : m # n => named'[m] = named[m]
      /\ inode'[i] = FreeInode /\ \A x \in Files : x # i => inode'[x] = inode[x]
  BY <1>1, <1>2, <1>3
<1>5. \A m \in Names : named[m] # i /\ (named[m] # 0 => named[m] \in Files)
  BY <1>2, NamedOK DEF InUse, IInv
<1>6. BytesOf(FreeInode, data') = <<>>
  <2> DEFINE s == BytesOf(FreeInode, data')
  <2>1. s \in [1 .. 0 -> Nat]
    BY DEF BytesOf, FreeInode
  <2>2. s \in Seq(Nat) /\ Len(s) = 0
    BY <2>1, SeqDef
  <2>3. QED
    BY <2>2, EmptySeq
<1>7. content' = [content EXCEPT ![n] = <<>>]
  <2>1. \A m \in Names : m # n =>
          (IF named'[m] = 0 THEN Absent ELSE BytesOf(inode'[named'[m]], data')) = content[m]
    BY <1>1, <1>4, <1>5, Seen
  <2>2. (IF named'[n] = 0 THEN Absent ELSE BytesOf(inode'[named'[n]], data')) = <<>>
    BY <1>3, <1>4, <1>6
  <2>3. QED
    BY <2>1, <2>2, Seen
<1>8. cursor' = cursor
  <2>1. ASSUME NEW f \in Descriptors
        PROVE  PlaceOf(open_files[f], named') = PlaceOf(open_files[f], named)
    <3>1. CASE ~ open_files[f].used
      BY <3>1 DEF PlaceOf
    <3>2. CASE open_files[f].used
      <4>1. PICK m \in Names :
              /\ named[m] = open_files[f].inode
              /\ \A x \in Names : named[x] = open_files[f].inode => x = m
              /\ cursor[f] = [name |-> m, offset |-> open_files[f].offset]
        BY <3>2, SeenOK
      <4>2. m # n /\ named[m] # i
        BY <1>1, <1>5, <3>2, <4>1, Types DEF IInv, Placed
      <4>3. named'[m] = open_files[f].inode
        BY <1>4, <4>1, <4>2
      <4>4. \A x \in Names : named'[x] = open_files[f].inode => x = m
        BY <1>4, <4>1, <4>2
      <4>5. (CHOOSE x \in Names : named'[x] = open_files[f].inode) = m
        BY <4>3, <4>4, ChosenName
      <4>6. (CHOOSE x \in Names : named[x] = open_files[f].inode) = m
        BY <4>1, ChosenName
      <4>7. QED
        BY <4>5, <4>6 DEF PlaceOf
    <3>3. QED
      BY <3>1, <3>2
  <2>2. QED
    BY <1>1, <2>1, Seen
<1>9. content[n] = Absent
  BY <1>1, SeenOK
<1>10. QED
  BY <1>1, <1>7, <1>8, <1>9 DEF Files0!Touch

LEMMA RemoveRefines ==
  ASSUME IInv, NEW n \in Names, fs_rm(n) PROVE Files0!Remove(n)
<1> DEFINE i == named[n]
<1>1. /\ i # 0
      /\ \A f \in Descriptors : open_files[f].used => open_files[f].inode # i
      /\ named' = [named EXCEPT ![n] = 0]
      /\ inode' = [inode EXCEPT ![i] = FreeInode]
      /\ data' = data /\ open_files' = open_files /\ result' = result
  BY DEF fs_rm
<1>2. i \in Files /\ named \in [Names -> 0 .. NFiles] /\ inode \in [Files -> Inodes]
  BY <1>1, NamedOK DEF IInv, TypeOK, Inodes, Sizes
<1>3. /\ named'[n] = 0 /\ \A m \in Names : m # n => named'[m] = named[m]
      /\ \A x \in Files : x # i => inode'[x] = inode[x]
  BY <1>1, <1>2
<1>4. \A m \in Names : m # n => named[m] # i /\ (named[m] # 0 => named[m] \in Files)
  BY <1>1, NamedOK DEF OneName, IInv
<1>5. content' = [content EXCEPT ![n] = Absent]
  <2>1. \A m \in Names : m # n =>
          (IF named'[m] = 0 THEN Absent ELSE BytesOf(inode'[named'[m]], data')) = content[m]
    BY <1>1, <1>3, <1>4, Seen
  <2>2. QED
    BY <1>3, <2>1, Seen
<1>6. cursor' = cursor
  <2>1. ASSUME NEW f \in Descriptors
        PROVE  PlaceOf(open_files[f], named') = PlaceOf(open_files[f], named)
    <3>1. CASE ~ open_files[f].used
      BY <3>1 DEF PlaceOf
    <3>2. CASE open_files[f].used
      <4>1. PICK m \in Names :
              /\ named[m] = open_files[f].inode
              /\ \A x \in Names : named[x] = open_files[f].inode => x = m
              /\ cursor[f] = [name |-> m, offset |-> open_files[f].offset]
        BY <3>2, SeenOK
      <4>2. m # n /\ open_files[f].inode # 0
        BY <1>1, <3>2, <4>1, Types DEF IInv, Placed
      <4>3. named'[m] = open_files[f].inode
        BY <1>3, <4>1, <4>2
      <4>4. \A x \in Names : named'[x] = open_files[f].inode => x = m
        BY <1>3, <4>1, <4>2
      <4>5. (CHOOSE x \in Names : named'[x] = open_files[f].inode) = m
        BY <4>3, <4>4, ChosenName
      <4>6. (CHOOSE x \in Names : named[x] = open_files[f].inode) = m
        BY <4>1, ChosenName
      <4>7. QED
        BY <4>5, <4>6 DEF PlaceOf
    <3>3. QED
      BY <3>1, <3>2
  <2>2. QED
    BY <1>1, <2>1, Seen
<1>7. content[n] # Absent
  BY <1>1, SeenOK
<1>8. ~ Files0!IsOpen(n)
  <2> SUFFICES ASSUME NEW f \in Descriptors, cursor[f] # Closed, cursor[f].name = n
               PROVE  FALSE
    BY DEF Files0!IsOpen
  <2>1. open_files[f].used
    BY SeenOK
  <2>2. PICK m \in Names :
          /\ named[m] = open_files[f].inode
          /\ cursor[f] = [name |-> m, offset |-> open_files[f].offset]
    BY <2>1, SeenOK
  <2>3. m = n
    BY <2>2
  <2>4. QED
    BY <1>1, <2>1, <2>2, <2>3
<1>9. QED
  BY <1>1, <1>5, <1>6, <1>7, <1>8 DEF Files0!Remove

LEMMA OpenRefines ==
  ASSUME IInv, NEW n \in Names, fs_open(n)
  PROVE  \E f \in Descriptors : Files0!Open(f, n)
<1> DEFINE free == {f \in Descriptors : ~ open_files[f].used}
           f    == Least(free)
           o    == [used |-> TRUE, inode |-> named[n], offset |-> 0]
<1>1. /\ named[n] # 0 /\ free # {}
      /\ open_files' = [open_files EXCEPT ![f] = o]
      /\ UNCHANGED <<named, inode, used, data, result>>
  BY DEF fs_open
<1>2. f \in Descriptors /\ ~ open_files[f].used
  <2>1. f \in free
    BY <1>1, Types, LeastIn
  <2>2. QED
    BY <2>1
<1> HIDE DEF f
<1>3. open_files \in [Descriptors -> OpenFile]
  BY DEF IInv, TypeOK, OpenFile, Sizes
<1>4. content[n] # Absent /\ cursor[f] = Closed
  BY <1>1, <1>2, SeenOK
<1>5. content' = content
  BY <1>1, Seen
<1>6. (CHOOSE m \in Names : named[m] = named[n]) = n
  <2>1. \A x \in Names : named[x] = named[n] => x = n
    BY <1>1 DEF IInv, OneName
  <2>2. QED
    BY <2>1, ChosenName
<1>7. PlaceOf(o, named) = [name |-> n, offset |-> 0]
  BY <1>6 DEF PlaceOf
<1> HIDE DEF o
<1>8. cursor' = [cursor EXCEPT ![f] = [name |-> n, offset |-> 0]]
  <2>1. \A g \in Descriptors : open_files'[g] = IF g = f THEN o ELSE open_files[g]
    BY <1>1, <1>3
  <2>2. QED
    BY <1>1, <1>2, <1>7, <2>1, Seen
<1>9. QED
  BY <1>1, <1>2, <1>4, <1>5, <1>8 DEF Files0!Open

LEMMA CloseRefines ==
  ASSUME IInv, NEW f \in Descriptors, fs_close(f) PROVE Files0!Close(f)
<1>1. /\ open_files[f].used /\ open_files' = [open_files EXCEPT ![f] = NotUsed]
      /\ UNCHANGED <<named, inode, used, data, result>>
  BY DEF fs_close
<1>2. open_files \in [Descriptors -> OpenFile]
  BY DEF IInv, TypeOK, OpenFile, Sizes
<1>3. content' = content /\ cursor[f] # Closed
  BY <1>1, Seen, SeenOK
<1>4. PlaceOf(NotUsed, named) = Closed
  BY DEF PlaceOf, NotUsed
<1>5. cursor' = [cursor EXCEPT ![f] = Closed]
  <2>1. \A g \in Descriptors : open_files'[g] = IF g = f THEN NotUsed ELSE open_files[g]
    BY <1>1, <1>2
  <2>2. QED
    BY <1>1, <1>4, <2>1, Seen
<1>6. QED
  BY <1>1, <1>3, <1>5 DEF Files0!Close

\* The offset of one descriptor moves.
LEMMA CursorMoves ==
  ASSUME IInv, NEW f \in Descriptors, open_files[f].used, NEW offset,
         open_files' = [open_files EXCEPT ![f].offset = offset], named' = named
  PROVE  cursor' = [cursor EXCEPT ![f].offset = offset]
<1>1. open_files \in [Descriptors -> OpenFile]
  BY DEF IInv, TypeOK, OpenFile, Sizes
<1>2. \A g \in Descriptors : g # f => open_files'[g] = open_files[g]
  BY <1>1
<1>3. /\ open_files'[f].used /\ open_files'[f].inode = open_files[f].inode
      /\ open_files'[f].offset = offset
  BY <1>1 DEF OpenFile
<1>4. \E x : cursor[f] = [name |-> x, offset |-> open_files[f].offset]
             /\ PlaceOf(open_files'[f], named') = [name |-> x, offset |-> offset]
  BY <1>3, Seen DEF PlaceOf
<1>5. PlaceOf(open_files'[f], named') = [cursor[f] EXCEPT !.offset = offset]
  BY <1>4
<1>6. QED
  BY <1>2, <1>5, Seen

LEMMA ReadRefines ==
  ASSUME IInv, NEW f \in Descriptors, NEW size \in ReadSizes, fs_read(f, size)
  PROVE  Files0!Read(f, size)
<1> DEFINE i      == open_files[f].inode
           offset == open_files[f].offset
           bytes  == Copied(i, offset, size)
           n      == Lesser(size, inode[i].size - offset)
           s      == BytesOf(inode[i], data)
<1>1. /\ open_files[f].used
      /\ open_files' = [open_files EXCEPT ![f].offset = @ + Len(bytes)]
      /\ result' = bytes /\ named' = named /\ inode' = inode /\ data' = data
  BY DEF fs_read
<1>2. /\ DiskOK /\ FileOK(i) /\ i # 0 /\ inode[i].size \in Nat
      /\ offset \in 0 .. inode[i].size
  BY <1>1, OpenedOK, Types
<1>3. size \in Nat
  BY FilesAssumption
<1>4. PICK m \in Names :
        named[m] = i /\ cursor[f] = [name |-> m, offset |-> offset]
  BY <1>1, SeenOK
<1>5. content[m] = s
  BY <1>2, <1>4, SeenOK
<1>6. cursor[f] # Closed
  BY <1>1, SeenOK
<1>7. open_files' = [open_files EXCEPT ![f].offset = offset + Len(bytes)]
  BY <1>1
<1> HIDE DEF i, offset
<1>8. /\ s \in Seq(Nat) /\ Len(s) = inode[i].size
      /\ \A p \in 1 .. inode[i].size :
           s[p] = data[inode[i].blocks[(p - 1) \div BlockSize]][(p - 1) % BlockSize]
  BY <1>2, BytesAre
<1>9. /\ n \in Nat /\ offset + n <= inode[i].size
      /\ bytes = [p \in 1 .. n |->
                    LET q == offset + p - 1
                    IN  data[inode[i].blocks[q \div BlockSize]][q % BlockSize]]
      /\ bytes \in Seq(Nat) /\ Len(bytes) = n
  BY <1>2, <1>3, CopiedIs
<1> HIDE DEF s, bytes
<1>10. n = IF offset + size > Len(s) THEN Len(s) - offset ELSE size
  <2>1. Len(s) = inode[i].size /\ offset \in Nat
    BY <1>2, <1>8
  <2>2. QED
    BY <1>2, <1>3, <2>1 DEF Lesser
<1> HIDE DEF n
<1>11. bytes = SubSeq(s, offset + 1, offset + n)
  <2> DEFINE t == SubSeq(s, offset + 1, offset + n)
  <2>1. \A p \in offset + 1 .. offset + n : p \in 1 .. inode[i].size
    BY <1>2, <1>9
  <2>2. offset + 1 \in Int /\ offset + n \in Int /\ \A p \in offset + 1 .. offset + n : s[p] \in Nat
    BY <1>2, <1>8, <1>9, <2>1
  <2>3. /\ t \in Seq(Nat)
        /\ Len(t) = IF offset + 1 <= offset + n THEN (offset + n) - (offset + 1) + 1 ELSE 0
        /\ \A p \in 1 .. (offset + n) - (offset + 1) + 1 : t[p] = s[offset + 1 + p - 1]
    BY <2>2, SubSeqProperties
  <2> HIDE DEF t
  <2>4. Len(t) = n /\ \A p \in 1 .. n : t[p] = s[offset + p]
    <3>1. n \in Nat
      BY <1>9
    <3>2. offset \in Nat
      BY <1>2
    <3>3. QED
      BY <2>3, <3>1, <3>2
  <2>5. ASSUME NEW p \in 1 .. n PROVE bytes[p] = t[p]
    <3> DEFINE q == offset + p - 1
    <3>1. q = (offset + p) - 1 /\ offset + p \in 1 .. inode[i].size
      <4>1. n \in Nat /\ offset + n <= inode[i].size
        BY <1>9
      <4>2. inode[i].size \in Nat /\ offset \in Nat
        BY <1>2
      <4>3. QED
        BY <4>1, <4>2
    <3>2. bytes[p] = data[inode[i].blocks[q \div BlockSize]][q % BlockSize]
      BY <1>9
    <3> HIDE DEF q
    <3>3. QED
      BY <1>8, <2>4, <3>1, <3>2
  <2>6. bytes = t
    BY <1>9, <2>3, <2>4, <2>5, SeqEqual
  <2>7. QED
    BY <2>6 DEF t
<1>12. cursor' = [cursor EXCEPT ![f].offset = offset + n]
  <2>1. open_files' = [open_files EXCEPT ![f].offset = offset + n]
    BY <1>7, <1>9
  <2>2. QED
    BY <1>1, <2>1, CursorMoves
<1>13. content' = content
  BY <1>1, Seen
<1>14. cursor[f].name = m /\ cursor[f].offset = offset
  BY <1>4
<1>15. QED
  BY <1>1, <1>5, <1>6, <1>10, <1>11, <1>12, <1>13, <1>14 DEF Files0!Read
\* The blocks of a file of that size are as the write leaves them.
AllTurned(s, size, i, bytes, offset) ==
  \A k \in Indices : k * BlockSize < size => Turned(s, k, i, bytes, offset) /\ s.blocks[k] # 0

LEMMA GreaterIs ==
  ASSUME NEW a \in Nat, NEW b \in Nat
  PROVE  Greater(a, b) = IF b > a THEN b ELSE a
  BY DEF Greater

\* The bytes of a file after a write of its first n bytes, for a write the end
\* of the file does not cut short of bytes that are there.
LEMMA PatchIs ==
  ASSUME NEW i, DiskOK, FileOK(i), NEW bytes \in Seq(Nat), NEW s,
         NEW offset \in 0 .. inode[i].size, NEW n \in 0 .. Len(bytes), NEW size \in Nat,
         size = Greater(inode[i].size, offset + n),
         size <= offset + n \/ n = Len(bytes),
         AllTurned(s, size, i, bytes, offset), size <= MaxLength
  PROVE  BytesOf([size |-> size, blocks |-> s.blocks], s.data)
           = Files0!Patched(BytesOf(inode[i], data), offset, SubSeq(bytes, 1, n))
<1> DEFINE was  == BytesOf(inode[i], data)
           done == SubSeq(bytes, 1, n)
           new  == BytesOf([size |-> size, blocks |-> s.blocks], s.data)
<1>1. inode[i].size \in Nat /\ offset \in Nat /\ n \in Nat /\ Len(bytes) \in Nat
  BY Types DEF FileOK, Sizes
<1>2. /\ was \in Seq(Nat) /\ Len(was) = inode[i].size
      /\ \A p \in 1 .. inode[i].size :
           was[p] = data[inode[i].blocks[(p - 1) \div BlockSize]][(p - 1) % BlockSize]
  BY BytesAre
<1>3. Len(done) = n /\ \A p \in 1 .. n : done[p] = bytes[p]
  <2>1. 1 \in Int /\ n \in Int /\ \A p \in 1 .. n : bytes[p] \in Nat
    BY <1>1
  <2>2. /\ Len(done) = IF 1 <= n THEN n - 1 + 1 ELSE 0
        /\ \A p \in 1 .. n - 1 + 1 : done[p] = bytes[1 + p - 1]
    BY <2>1, SubSeqProperties
  <2> HIDE DEF done
  <2>3. QED
    BY <1>1, <2>2
<1> HIDE DEF was, done
<1>4. size = IF offset + Len(done) > Len(was) THEN offset + Len(done) ELSE Len(was)
  <2>1. Len(done) = n /\ Len(was) = inode[i].size
    BY <1>2, <1>3
  <2>2. Greater(inode[i].size, offset + n) =
          IF offset + n > inode[i].size THEN offset + n ELSE inode[i].size
    BY <1>1, GreaterIs
  <2>3. QED
    BY <2>1, <2>2
<1>5. Files0!Patched(was, offset, done) =
        [p \in 1 .. size |->
           IF offset < p /\ p <= offset + n THEN done[p - offset] ELSE was[p]]
  BY <1>3, <1>4 DEF Files0!Patched
<1>6. new = [p \in 1 .. size |->
               s.data[s.blocks[(p - 1) \div BlockSize]][(p - 1) % BlockSize]]
  BY DEF BytesOf
<1>7. ASSUME NEW p \in 1 .. size
      PROVE  s.data[s.blocks[(p - 1) \div BlockSize]][(p - 1) % BlockSize]
               = IF offset < p /\ p <= offset + n THEN done[p - offset] ELSE was[p]
  <2> DEFINE q == p - 1
             k == q \div BlockSize
             o == q % BlockSize
  <2>1. q \in Nat /\ q < size /\ p = q + 1
    OBVIOUS
  <2> HIDE DEF q
  <2>2. k \in Nat /\ o \in Offsets /\ q = k * BlockSize + o
    BY <2>1, Place
  <2>3. k \in Indices /\ k * BlockSize < size
    <3> HIDE DEF k, o
    <3> DEFINE a == k * BlockSize
    <3>1. BlockSize \in Nat /\ MaxBlocks \in Nat /\ o \in Nat
      BY <2>2, FilesAssumption DEF Offsets
    <3>2. a \in Nat /\ q = a + o
      BY <2>2, <3>1
    <3>3. a < size
      <4> HIDE DEF a
      <4>1. QED
        BY <2>1, <3>1, <3>2
    <3>4. k \in Indices
      <4>1. SUFFICES ASSUME MaxBlocks <= k PROVE FALSE
        BY <2>2, <3>1 DEF Indices
      <4> DEFINE z == MaxBlocks * BlockSize
      <4>2. z <= a
        <5>1. CASE MaxBlocks = k
          BY <3>2, <5>1
        <5>2. CASE MaxBlocks < k
          <6>1. /\ MaxBlocks * BlockSize \in Nat
                /\ (MaxBlocks + 1) * BlockSize = MaxBlocks * BlockSize + BlockSize
                /\ (MaxBlocks + 1) * BlockSize <= k * BlockSize
            BY <2>2, <3>1, <5>2, BlocksInOrder
          <6>2. z \in Nat /\ z + BlockSize <= a
            BY <6>1
          <6> HIDE DEF z, a
          <6>3. QED
            BY <3>1, <3>2, <6>2
        <5>3. QED
          BY <2>2, <3>1, <4>1, <5>1, <5>2
      <4>3. MaxLength = z /\ MaxLength \in Nat
        BY FilesAssumption DEF MaxLength
      <4> HIDE DEF z, a
      <4>4. QED
        BY <3>2, <3>3, <4>2, <4>3
    <3>5. QED
      BY <3>3, <3>4
  <2> HIDE DEF k, o
  <2>4. s.data[s.blocks[k]][o] = ByteAfter(i, k, o, bytes, offset)
    BY <2>2, <2>3 DEF Turned, AllTurned
  <2>5. CASE offset <= q /\ q < offset + Len(bytes)
    <3>1. q < offset + n
      BY <1>1, <2>1, <2>5
    <3>2. p - offset \in 1 .. n /\ q - offset + 1 = p - offset
      BY <1>1, <2>1, <2>5, <3>1
    <3>3. offset < p /\ p <= offset + n
      BY <1>1, <2>1, <2>5, <3>1
    <3>4. ByteAfter(i, k, o, bytes, offset) = bytes[p - offset]
      BY <2>2, <2>5, <3>2 DEF ByteAfter
    <3>5. QED
      BY <1>3, <2>4, <3>2, <3>3, <3>4 DEF k, o, q
  <2>6. CASE ~ (offset <= q /\ q < offset + Len(bytes))
    <3>1. ~ (offset < p /\ p <= offset + n)
      BY <1>1, <2>1, <2>6
    <3>2. p \in 1 .. inode[i].size /\ q < inode[i].size
      BY <1>1, <2>1, <2>6 DEF Greater
    <3>3. /\ q \div BlockSize = k /\ q % BlockSize = o
      BY DEF k, o
    <3>4. inode[i].blocks[k] \in Blocks
      BY <2>1, <3>2, <3>3, PlaceInFile
    <3>5. ByteAfter(i, k, o, bytes, offset) = data[inode[i].blocks[k]][o]
      BY <2>2, <2>6, <3>4, Types DEF ByteAfter
    <3>6. was[p] = data[inode[i].blocks[k]][o]
      BY <1>2, <3>2 DEF k, o, q
    <3>7. s.data[s.blocks[(p - 1) \div BlockSize]][(p - 1) % BlockSize] = was[p]
      BY <2>4, <3>5, <3>6 DEF k, o, q
    <3>8. QED
      BY <3>1, <3>7
  <2>7. QED
    BY <2>5, <2>6
<1> HIDE DEF new
<1>8. new = Files0!Patched(was, offset, done)
  BY <1>5, <1>6, <1>7
<1>9. QED
  BY <1>8 DEF new, was, done

\* A write leaves the bytes of the other files alone.
LEMMA OthersKept ==
  ASSUME IInv, NEW m \in Names, NEW x \in Names, x # m, named[m] # 0, named[x] # 0,
         NEW s, Extends(s, named[m])
  PROVE  BytesOf(inode[named[x]], s.data) = BytesOf(inode[named[x]], data)
<1> DEFINE i == named[x]
<1>1. DiskOK /\ FileOK(i) /\ FilesBacked
  BY NamedOK DEF IInv
<1>2. \A k \in Indices : inode[i].blocks[k] # 0 =>
        s.data[inode[i].blocks[k]] = data[inode[i].blocks[k]]
  <2> SUFFICES ASSUME NEW k \in Indices, inode[i].blocks[k] # 0
               PROVE  s.data[inode[i].blocks[k]] = data[inode[i].blocks[k]]
    OBVIOUS
  <2>1. inode[i].blocks[k] \in used
    BY <1>1 DEF FileOK
  <2>2. \A j \in Indices : inode[named[m]].blocks[j] # inode[i].blocks[k]
    BY <1>1, NamesApart
  <2>3. QED
    BY <2>1, <2>2 DEF Extends
<1>3. inode[i].size \in Nat
  BY <1>1, Types DEF FileOK, Sizes
<1>4. ASSUME NEW p \in 1 .. inode[i].size
      PROVE  s.data[inode[i].blocks[(p - 1) \div BlockSize]][(p - 1) % BlockSize]
               = data[inode[i].blocks[(p - 1) \div BlockSize]][(p - 1) % BlockSize]
  <2> DEFINE q == p - 1
  <2>1. q \in Nat /\ q < inode[i].size
    BY <1>3
  <2> HIDE DEF q
  <2>2. q \div BlockSize \in Indices /\ inode[i].blocks[q \div BlockSize] \in Blocks
    BY <1>1, <2>1, PlaceInFile
  <2>3. s.data[inode[i].blocks[q \div BlockSize]] = data[inode[i].blocks[q \div BlockSize]]
    BY <1>2, <2>2, Types
  <2>4. QED
    BY <2>3 DEF q
<1>5. QED
  BY <1>4 DEF BytesOf
LEMMA WriteRefines ==
  ASSUME IInv, NEW f \in Descriptors, NEW bytes \in Texts, fs_write(f, bytes)
  PROVE  Files0!Write(f, bytes) \/ Files0!WriteFails(f, bytes)
<1> DEFINE i      == open_files[f].inode
           offset == open_files[f].offset
           n      == Lesser(Len(bytes), MaxLength - offset)
           s      == Written(i, bytes, offset)
           size   == Greater(inode[i].size, offset + n)
           was    == BytesOf(inode[i], data)
<1>1. /\ open_files[f].used /\ named' = named /\ data' = s.data
      /\ s.ok => /\ inode' = [inode EXCEPT ![i] = [size |-> size, blocks |-> s.blocks]]
                 /\ open_files' = [open_files EXCEPT ![f].offset = offset + n]
                 /\ result' = <<n>>
      /\ ~ s.ok => inode' = inode /\ open_files' = open_files /\ result' = <<-1>>
  BY WriteIs
<1>2. /\ i \in Files /\ DiskOK /\ FileOK(i) /\ inode[i].size \in Sizes
      /\ offset \in 0 .. inode[i].size
  BY <1>1, OpenedOK
<1>3. PICK m \in Names :
        /\ named[m] = i /\ \A x \in Names : named[x] = i => x = m
        /\ cursor[f] = [name |-> m, offset |-> offset]
  BY <1>1, SeenOK
<1>4. bytes \in Seq(Nat) /\ offset \in Nat /\ i # 0 /\ Len(bytes) \in Nat /\ inode[i].size \in Nat
  <2>1. inode[i].size \in Nat /\ i # 0
    BY <1>2, Types
  <2>2. bytes \in Seq(Nat)
    BY FilesAssumption
  <2>3. QED
    BY <1>2, <2>1, <2>2
<1>5. cursor[f] # Closed /\ cursor[f].name = m /\ cursor[f].offset = offset
  BY <1>1, <1>3, SeenOK
<1>6. content[m] = was
  BY <1>3, <1>4, SeenOK
<1>7. /\ inode \in [Files -> Inodes] /\ \A x \in Names : named[x] # 0 => named[x] \in Files
  BY NamedOK DEF IInv, TypeOK, Inodes, Sizes
<1> HIDE DEF i, offset
<1>8. was \in Seq(Nat) /\ Len(was) = inode[i].size
  BY <1>2, BytesAre
<1>9. /\ Extends(s, i)
      /\ s.ok => \A k \in Indices : Turned(s, k, i, bytes, offset)
      /\ ~ s.ok => \A k \in Indices :
           inode[i].blocks[k] # 0 => Turned(s, k, i, bytes, offset)
  BY <1>2, <1>4, WrittenLeaves
<1>10. ASSUME NEW k \in Indices
       PROVE  k * BlockSize < size <=> (k * BlockSize < inode[i].size \/ Touched(k, bytes, offset))
  BY <1>2, <1>4, EndMoves DEF Sizes
<1>11. /\ size \in Sizes /\ n \in Nat /\ n <= Len(bytes)
  <2>1. 0 \in Indices
    BY FilesAssumption DEF Indices
  <2>2. QED
    BY <1>2, <1>4, <2>1, EndMoves DEF Sizes
<1>12. MaxLength \in Nat /\ offset <= MaxLength
  <2>1. MaxLength \in Nat /\ inode[i].size \in 0 .. MaxLength
    BY <1>2, FilesAssumption DEF Sizes, MaxLength
  <2>2. QED
    BY <1>2, <1>4, <2>1
<1>13. n = IF offset + Len(bytes) > MaxLength THEN MaxLength - offset ELSE Len(bytes)
  BY <1>4, <1>12 DEF Lesser
<1> HIDE DEF s, was
<1>14. \A x \in Names : x # m /\ named[x] # 0 =>
         /\ named[x] \in Files /\ named[x] # i
         /\ BytesOf(inode[named[x]], s.data) = BytesOf(inode[named[x]], data)
  <2> SUFFICES ASSUME NEW x \in Names, x # m, named[x] # 0
               PROVE  /\ named[x] \in Files /\ named[x] # i
                      /\ BytesOf(inode[named[x]], s.data) = BytesOf(inode[named[x]], data)
    OBVIOUS
  <2>1. named[x] \in Files /\ named[x] # i
    BY <1>3, <1>7
  <2>2. BytesOf(inode[named[x]], s.data) = BytesOf(inode[named[x]], data)
    BY <1>3, <1>4, <1>9, OthersKept
  <2>3. QED
    BY <2>1, <2>2
<1>15. ASSUME NEW new, BytesOf(inode'[i], data') = new,
              \A x \in Files : x # i => inode'[x] = inode[x]
       PROVE  content' = [content EXCEPT ![m] = new]
  <2>1. \A x \in Names : x # m =>
          (IF named'[x] = 0 THEN Absent ELSE BytesOf(inode'[named'[x]], data')) = content[x]
    BY <1>1, <1>14, <1>15, Seen
  <2>2. (IF named'[m] = 0 THEN Absent ELSE BytesOf(inode'[named'[m]], data')) = new
    BY <1>1, <1>3, <1>4, <1>15
  <2>3. QED
    BY <2>1, <2>2, Seen
<1>16. CASE s.ok
  <2>1. inode'[i] = [size |-> size, blocks |-> s.blocks] /\ \A x \in Files : x # i => inode'[x] = inode[x]
    BY <1>1, <1>2, <1>7, <1>16
  <2>2. size <= offset + n \/ n = Len(bytes)
    <3>1. n = Len(bytes) \/ offset + n = MaxLength
      BY <1>4, <1>12, <1>13
    <3>2. size \in Nat /\ size <= MaxLength
      BY <1>11, <1>12 DEF Sizes
    <3>3. QED
      BY <3>1, <3>2
  <2>3. AllTurned(s, size, i, bytes, offset)
    <3>1. \A k \in Indices : k * BlockSize < size =>
            Turned(s, k, i, bytes, offset) /\ s.blocks[k] # 0
      BY <1>2, <1>9, <1>10, <1>16 DEF Turned, FileOK
    <3> HIDE DEF size
    <3>2. QED
      BY <3>1 DEF AllTurned
  <2>4. n \in 0 .. Len(bytes) /\ size \in Nat /\ size <= MaxLength
    BY <1>4, <1>11, <1>12 DEF Sizes
  <2>5. BytesOf([size |-> size, blocks |-> s.blocks], s.data)
          = Files0!Patched(was, offset, SubSeq(bytes, 1, n))
    <3>1. size = Greater(inode[i].size, offset + n)
      OBVIOUS
    <3> HIDE DEF size, n
    <3>2. QED
      BY <1>2, <1>4, <2>2, <2>3, <2>4, <3>1, PatchIs DEF was
  <2> DEFINE new == Files0!Patched(was, offset, SubSeq(bytes, 1, n))
  <2>6. BytesOf(inode'[i], data') = new
    BY <1>1, <2>1, <2>5
  <2> HIDE DEF size
  <2>7. content' = [content EXCEPT ![m] = new]
    BY <1>15, <2>1, <2>6
  <2>8. cursor' = [cursor EXCEPT ![f].offset = offset + n]
    BY <1>1, <1>16, CursorMoves
  <2>9. content' = [content EXCEPT ![cursor[f].name] =
                      Files0!Patched(@, offset, SubSeq(bytes, 1, n))]
    BY <1>5, <1>6, <2>7
  <2>10. result' = <<n>>
    BY <1>1, <1>16
  <2> HIDE DEF n, new
  <2>11. Files0!Write(f, bytes)
    BY <1>5, <1>13, <2>8, <2>9, <2>10 DEF Files0!Write
  <2>12. QED
    BY <2>11
<1>17. CASE ~ s.ok
  <2> DEFINE c == Lesser(Len(bytes), inode[i].size - offset)
  <2>1. /\ c \in 0 .. Len(bytes) /\ c \in 0 .. inode[i].size - offset
        /\ inode[i].size = Greater(inode[i].size, offset + c)
        /\ inode[i].size <= offset + c \/ c = Len(bytes)
    BY <1>2, <1>4 DEF Lesser, Greater
  <2>2. \A k \in Indices : inode[i].blocks[k] # 0 => s.blocks[k] = inode[i].blocks[k]
    BY <1>9 DEF Extends
  <2>3. \A k \in Indices : k * BlockSize < inode[i].size =>
          inode[i].blocks[k] # 0 /\ Turned(s, k, i, bytes, offset) /\ s.blocks[k] # 0
    BY <1>2, <1>9, <1>17, <2>2 DEF FileOK
  <2>4. inode[i].size <= MaxLength
    BY <1>2, <1>12 DEF Sizes
  <2> HIDE DEF c
  <2>5. BytesOf([size |-> inode[i].size, blocks |-> s.blocks], s.data)
          = Files0!Patched(was, offset, SubSeq(bytes, 1, c))
    <3> DEFINE z == inode[i].size
    <3>1. /\ z \in Nat /\ z = Greater(inode[i].size, offset + c) /\ (z <= offset + c \/ c = Len(bytes))
          /\ z <= MaxLength /\ offset \in 0 .. inode[i].size
          /\ AllTurned(s, z, i, bytes, offset)
      BY <1>2, <1>4, <2>1, <2>3, <2>4 DEF AllTurned
    <3> HIDE DEF z
    <3>2. BytesOf([size |-> z, blocks |-> s.blocks], s.data)
            = Files0!Patched(BytesOf(inode[i], data), offset, SubSeq(bytes, 1, c))
      BY <1>2, <1>4, <2>1, <3>1, PatchIs
    <3>3. QED
      BY <3>2 DEF z, was
  <2>6. BytesOf(inode[i], s.data) = BytesOf([size |-> inode[i].size, blocks |-> s.blocks], s.data)
    <3>1. ASSUME NEW p \in 1 .. inode[i].size
          PROVE  s.blocks[(p - 1) \div BlockSize] = inode[i].blocks[(p - 1) \div BlockSize]
      <4> DEFINE q == p - 1
      <4>1. q \in Nat /\ q < inode[i].size
        BY <1>4
      <4> HIDE DEF q
      <4>2. q \div BlockSize \in Indices /\ inode[i].blocks[q \div BlockSize] \in Blocks
        BY <1>2, <4>1, PlaceInFile
      <4>3. s.blocks[q \div BlockSize] = inode[i].blocks[q \div BlockSize]
        BY <2>2, <4>2, Types
      <4>4. QED
        BY <4>3 DEF q
    <3>2. QED
      BY <3>1 DEF BytesOf
  <2> DEFINE new == Files0!Patched(was, offset, SubSeq(bytes, 1, c))
  <2>7. BytesOf(inode'[i], data') = new
    BY <1>1, <1>17, <2>5, <2>6
  <2>8. content' = [content EXCEPT ![m] = new]
    BY <1>1, <1>15, <1>17, <2>7
  <2>9. cursor' = cursor
    BY <1>1, <1>17, Seen
  <2>10. result' = <<-1>>
    BY <1>1, <1>17
  <2>11. c \in 0 .. Len(was) - offset /\ c <= Len(bytes)
    BY <1>4, <1>8, <2>1
  <2>12. Files0!WriteFails(f, bytes)
    BY <1>5, <1>6, <2>8, <2>9, <2>10, <2>11 DEF Files0!WriteFails
  <2>13. QED
    BY <2>12
<1>18. QED
  BY <1>16, <1>17

LEMMA InitRefines == Init => Files0!Init
<1> SUFFICES ASSUME Init PROVE Files0!Init
  OBVIOUS
<1>1. content = [n \in Names |-> Absent] /\ cursor = [f \in Descriptors |-> Closed]
  BY Seen DEF Init, PlaceOf, NotUsed
<1>2. result = <<>>
  BY DEF Init
<1>3. QED
  BY <1>1, <1>2 DEF Files0!Init

LEMMA StepRefines == IInv /\ [Next]_vars => [Files0!Next]_Files0!vars
<1> SUFFICES ASSUME IInv, [Next]_vars PROVE [Files0!Next]_Files0!vars
  OBVIOUS
<1>1. CASE UNCHANGED vars
  BY <1>1, Seen DEF vars, Files0!vars
<1>2. ASSUME NEW n \in Names, fs_touch(n) PROVE Files0!Next
  BY <1>2, TouchRefines DEF Files0!Next
<1>3. ASSUME NEW n \in Names, fs_rm(n) PROVE Files0!Next
  BY <1>3, RemoveRefines DEF Files0!Next
<1>4. ASSUME NEW n \in Names, fs_open(n) PROVE Files0!Next
  BY <1>4, OpenRefines DEF Files0!Next
<1>5. ASSUME NEW f \in Descriptors, fs_close(f) PROVE Files0!Next
  BY <1>5, CloseRefines DEF Files0!Next
<1>6. ASSUME NEW f \in Descriptors, NEW size \in ReadSizes, fs_read(f, size) PROVE Files0!Next
  BY <1>6, ReadRefines DEF Files0!Next
<1>7. ASSUME NEW f \in Descriptors, NEW bytes \in Texts, fs_write(f, bytes) PROVE Files0!Next
  BY <1>7, WriteRefines DEF Files0!Next
<1>8. QED
  BY <1>1, <1>2, <1>3, <1>4, <1>5, <1>6, <1>7 DEF Next

\* Reads return what was last written at that place of that file: the inodes,
\* blocks and descriptors implement ByteFiles, for every size of block, disk
\* and file, every text and every number of descriptors.
THEOREM ReadsSeeWhatWasWritten == Spec => ReadsSeeWrites
<1>1. Spec => []IInv
  BY InvariantHolds
<1>2. QED
  BY <1>1, InitRefines, StepRefines, PTL DEF Spec, ReadsSeeWrites, Files0!Spec
=============================================================================
