--------------------------- MODULE FileSystemProofs ---------------------------
(***************************************************************************)
(* Proofs about FileSystem, DiskImage and Paths, for a drive that reports  *)
(* no errors; the power may go before any transfer.                        *)
(***************************************************************************)
EXTENDS DiskImage, Paths, FiniteSetTheorems, SequenceTheorems, NaturalsInduction, WellFoundedInduction, TLAPS

\* No transfer reports an error: what an error breaks is NoDanglingEntry's run.
Reliable == Errors = 0

-----------------------------------------------------------------------------
(* Numbers *)

\* Every nonempty set of natural numbers has a least element.
LEMMA LeastNumber ==
  ASSUME NEW T, T \subseteq Nat, T # {}
  PROVE  \E m \in T : \A k \in T : m <= k
<1> DEFINE Less == OpToRel(<, Nat)
<1>1. IsWellFoundedOn(Less, Nat)
  BY NatLessThanWellFounded
<1>2. \A i, j \in Nat : i < j => <<i, j>> \in Less
  BY DEF OpToRel
<1> HIDE DEF Less
<1>3. PICK m \in T : \A k \in T : ~ (<<k, m>> \in Less)
  BY <1>1, WFMin
<1>4. \A k \in T : ~ (k < m)
  BY <1>2, <1>3
<1>5. QED
  BY <1>4

\* Induction up to a number, for a set of numbers.
LEMMA UpTo ==
  ASSUME NEW n \in Nat, NEW T, 0 \in T, \A k \in 0 .. n - 1 : k \in T => k + 1 \in T
  PROVE  \A k \in 0 .. n : k \in T
<1> DEFINE Bad == {k \in 0 .. n : k \notin T}
<1> SUFFICES ASSUME Bad # {} PROVE FALSE
  OBVIOUS
<1>0. Bad \subseteq Nat /\ Bad # {}
  OBVIOUS
<1>1. PICK m \in Bad : \A k \in Bad : m <= k
  BY <1>0, LeastNumber
<1>2. m # 0 /\ m - 1 \in 0 .. n - 1 /\ m - 1 \in 0 .. n
  OBVIOUS
<1>3. m - 1 \in T
  BY <1>1, <1>2
<1>4. QED
  BY <1>2, <1>3

\* What the code finds when it takes the first of something.
LEMMA LeastIn ==
  ASSUME NEW T, T \subseteq Nat, T # {}
  PROVE  Least(T) \in T
  BY LeastNumber DEF Least

-----------------------------------------------------------------------------
(* Disks *)

Types   == {"free", "file", "directory", "other"}
Indices == 1 .. MaxBlocks

\* A disk in the middle of an operation.
Typed(d) ==
  d \in [used : SUBSET Blocks, free_blocks : Int, free_inodes : Int,
         type : [Inodes -> Types], blocks : [Inodes -> [Indices -> 0 .. NBlocks]],
         entries : [Blocks -> [Slots -> Entry \cup {NoEntry}]],
         errors : {0}, power : {"on", "off"}]

Off(d) == [d EXCEPT !.power = "off"]

\* The blocks the inodes of L list.
Owned(d, L) == {b \in Blocks : \E i \in L : \E k \in Indices : d.blocks[i][k] = b}

\* The entry in slot s of block b, and whether there is one.
At(d, b, s)    == d.entries[b][s]
Filled(d, b, s) == At(d, b, s) # NoEntry

-----------------------------------------------------------------------------
(* The invariant: the disk is in order as far as the inodes L are concerned, *)
(* every inode that a path leads to among them.                              *)

InUse(d, L) ==
  /\ L \subseteq Inodes /\ RootInode \in L
  /\ \A i \in L : d.type[i] # "free"

\* What is listed is marked, once, without a hole.
Listed(d, L) ==
  /\ Owned(d, L) \subseteq d.used
  /\ \A i, j \in L : \A k, l \in Indices :
       d.blocks[i][k] # 0 /\ d.blocks[i][k] = d.blocks[j][l] => i = j /\ k = l
  /\ \A i \in L : \A k, l \in Indices :
       d.blocks[i][k] # 0 /\ l < k => d.blocks[i][l] # 0

\* Entries name members, each at most once, never the root.
NamesOnce(d, L) ==
  /\ \A b \in Owned(d, L) : \A s \in Slots :
       Filled(d, b, s) => At(d, b, s).inode \in L \ {RootInode}
  /\ \A b, c \in Owned(d, L) : \A s, t \in Slots :
       Filled(d, b, s) /\ Filled(d, c, t) /\ At(d, b, s).inode = At(d, c, t).inode
         => b = c /\ s = t

\* No directory has two entries of one name; nothing else has entries.
OnlyDirectories(d, L) ==
  \A i \in L : \A b \in Owned(d, {i}) : \A s \in Slots :
    Filled(d, b, s) => d.type[i] = "directory"

NamesDiffer(d, L) ==
  \A i \in L : \A b, c \in Owned(d, {i}) : \A s, t \in Slots :
    Filled(d, b, s) /\ Filled(d, c, t) /\ At(d, b, s).name = At(d, c, t).name
      => b = c /\ s = t

Good(d, L) ==
  InUse(d, L) /\ Listed(d, L) /\ NamesOnce(d, L) /\ NamesDiffer(d, L) /\ OnlyDirectories(d, L)

-----------------------------------------------------------------------------
(* What keeps a disk in order *)

\* Members may go and entries vanish, as long as nobody who went is still named.
LEMMA GoodKeeps ==
  ASSUME NEW d, Typed(d), NEW L, Good(d, L),
         NEW e, Typed(e), NEW M, M \subseteq L, RootInode \in M,
         \A i \in M : e.type[i] = d.type[i] /\ e.blocks[i] = d.blocks[i],
         Owned(d, M) \subseteq e.used,
         \A b \in Owned(d, M) : \A s \in Slots :
           /\ Filled(e, b, s) => At(e, b, s) = At(d, b, s)
           /\ Filled(e, b, s) => At(e, b, s).inode \in M
  PROVE  Good(e, M)
<1>1. Owned(e, M) = Owned(d, M) /\ Owned(d, M) \subseteq Owned(d, L)
  BY DEF Owned
<1>2. InUse(e, M)
  BY DEF InUse, Good
<1>3. Listed(e, M)
  BY <1>1 DEF Listed, Good
<1>4. NamesOnce(e, M)
  <2>1. \A b \in Owned(d, M) : \A s \in Slots : Filled(e, b, s) => Filled(d, b, s)
    BY DEF Filled
  <2>2. QED
    BY <1>1, <2>1 DEF NamesOnce, Good
<1>5. NamesDiffer(e, M)
  <2>1. \A i \in M : Owned(e, {i}) = Owned(d, {i}) /\ Owned(d, {i}) \subseteq Owned(d, M)
    BY DEF Owned
  <2>2. \A i \in M : \A b \in Owned(d, {i}) : \A s \in Slots : Filled(e, b, s) => Filled(d, b, s) /\ At(e, b, s) = At(d, b, s)
    BY <2>1 DEF Filled
  <2>3. ASSUME NEW i \in M, NEW b \in Owned(e, {i}), NEW c \in Owned(e, {i}),
               NEW s \in Slots, NEW t \in Slots,
               Filled(e, b, s), Filled(e, c, t), At(e, b, s).name = At(e, c, t).name
        PROVE  b = c /\ s = t
    <3>1. i \in L /\ b \in Owned(d, {i}) /\ c \in Owned(d, {i})
      BY <2>1
    <3>2. Filled(d, b, s) /\ Filled(d, c, t) /\ At(d, b, s).name = At(d, c, t).name
      BY <2>2, <2>3, <3>1
    <3>3. QED
      BY <3>1, <3>2 DEF NamesDiffer, Good
  <2>4. QED
    BY <2>3 DEF NamesDiffer
<1>6. OnlyDirectories(e, M)
  <2>1. ASSUME NEW i \in M, NEW b \in Owned(e, {i}), NEW s \in Slots, Filled(e, b, s)
        PROVE  e.type[i] = "directory"
    <3>1. b \in Owned(d, {i}) /\ b \in Owned(d, M) /\ i \in L
      BY DEF Owned
    <3>2. Filled(d, b, s)
      BY <2>1, <3>1 DEF Filled
    <3>3. QED
      BY <3>1, <3>2 DEF Good, OnlyDirectories
  <2>2. QED
    BY <2>1 DEF OnlyDirectories
<1>7. QED
  BY <1>2, <1>3, <1>4, <1>5, <1>6 DEF Good

\* A member may take blocks nobody lists, if they are marked and hold no entry.
LEMMA GoodGrows ==
  ASSUME NEW d, Typed(d), NEW L, Good(d, L), NEW e, Typed(e), NEW i \in L,
         \A j \in L : e.type[j] = d.type[j],
         \A j \in L : j # i => e.blocks[j] = d.blocks[j],
         Owned(e, L) \subseteq e.used,
         \A k \in Indices : \/ e.blocks[i][k] = d.blocks[i][k]
                            \/ /\ d.blocks[i][k] = 0
                               /\ e.blocks[i][k] \in Blocks \ Owned(d, L)
                               /\ \A s \in Slots : ~ Filled(e, e.blocks[i][k], s),
         \A k, l \in Indices : e.blocks[i][k] # 0 /\ e.blocks[i][k] = e.blocks[i][l] => k = l,
         \A k, l \in Indices : e.blocks[i][k] # 0 /\ l < k => e.blocks[i][l] # 0,
         \A b \in Owned(d, L) : \A s \in Slots : Filled(e, b, s) => At(e, b, s) = At(d, b, s)
  PROVE  Good(e, L)
<1>0. L \subseteq Inodes
  BY DEF Good, InUse
<1>1. \A b \in Owned(e, L) : b \in Owned(d, L) \/ \A s \in Slots : ~ Filled(e, b, s)
  <2>1. TAKE b \in Owned(e, L)
  <2>2. PICK j \in L, k \in Indices : e.blocks[j][k] = b
    BY DEF Owned
  <2>3. b \in Blocks
    BY DEF Owned
  <2>4. CASE j # i
    BY <2>2, <2>3, <2>4 DEF Owned
  <2>5. CASE j = i
    BY <2>2, <2>3, <2>5 DEF Owned
  <2>6. QED
    BY <2>4, <2>5
<1>2. \A b \in Owned(e, L) : \A s \in Slots :
        Filled(e, b, s) => b \in Owned(d, L) /\ Filled(d, b, s) /\ At(e, b, s) = At(d, b, s)
  BY <1>1 DEF Filled
<1>3. InUse(e, L)
  BY DEF InUse, Good
<1>4. Listed(e, L)
  <2>1. ASSUME NEW j \in L, NEW m \in L, NEW k \in Indices, NEW l \in Indices,
               e.blocks[j][k] # 0, e.blocks[j][k] = e.blocks[m][l]
        PROVE  j = m /\ k = l
    <3>1. \A n \in L : \A q \in Indices : e.blocks[n][q] \in 0 .. NBlocks /\ d.blocks[n][q] \in 0 .. NBlocks
      BY <1>0 DEF Typed
    <3>2. NBlocks \in Nat
      BY DiskAssumption
    <3>3. \A n \in L : \A q \in Indices : d.blocks[n][q] # 0 => d.blocks[n][q] \in Owned(d, L)
      BY <3>1, <3>2 DEF Owned, Blocks
    <3>4. CASE j = i /\ m = i
      BY <2>1, <3>4
    <3>5. CASE j # i /\ m # i
      BY <2>1, <3>5 DEF Good, Listed
    <3>6. CASE j = i /\ m # i
      <4>1. e.blocks[m][l] = d.blocks[m][l]
        BY <3>6
      <4>2. e.blocks[i][k] \in Owned(d, L)
        BY <2>1, <3>3, <3>6, <4>1
      <4>3. e.blocks[i][k] = d.blocks[i][k]
        BY <4>2
      <4>4. QED
        BY <2>1, <3>6, <4>1, <4>3 DEF Good, Listed
    <3>7. CASE j # i /\ m = i
      <4>1. e.blocks[j][k] = d.blocks[j][k]
        BY <3>7
      <4>2. e.blocks[i][l] \in Owned(d, L)
        BY <2>1, <3>3, <3>7, <4>1
      <4>3. e.blocks[i][l] = d.blocks[i][l]
        BY <4>2
      <4>4. QED
        BY <2>1, <3>7, <4>1, <4>3 DEF Good, Listed
    <3>8. QED
      BY <3>4, <3>5, <3>6, <3>7
  <2>2. \A j \in L : \A k, l \in Indices : e.blocks[j][k] # 0 /\ l < k => e.blocks[j][l] # 0
    BY DEF Good, Listed
  <2>3. QED
    BY <2>1, <2>2 DEF Listed
<1>5. NamesOnce(e, L)
  BY <1>2 DEF NamesOnce, Good
<1>6. NamesDiffer(e, L)
  <2>1. ASSUME NEW j \in L, NEW b \in Owned(e, {j}), NEW s \in Slots, Filled(e, b, s)
        PROVE  b \in Owned(d, {j}) /\ Filled(d, b, s) /\ At(e, b, s) = At(d, b, s)
    <3>1. b \in Owned(e, L) /\ b \in Blocks
      BY DEF Owned
    <3>2. b \in Owned(d, L) /\ Filled(d, b, s) /\ At(e, b, s) = At(d, b, s)
      BY <1>2, <2>1, <3>1
    <3>3. PICK k \in Indices : e.blocks[j][k] = b
      BY DEF Owned
    <3>4. d.blocks[j][k] = b
      BY <2>1, <3>2, <3>3
    <3>5. QED
      BY <3>1, <3>2, <3>4 DEF Owned
  <2>2. ASSUME NEW j \in L, NEW b \in Owned(e, {j}), NEW c \in Owned(e, {j}),
               NEW s \in Slots, NEW t \in Slots,
               Filled(e, b, s), Filled(e, c, t), At(e, b, s).name = At(e, c, t).name
        PROVE  b = c /\ s = t
    <3>1. b \in Owned(d, {j}) /\ Filled(d, b, s) /\ At(e, b, s) = At(d, b, s)
      BY <2>1, <2>2
    <3>2. c \in Owned(d, {j}) /\ Filled(d, c, t) /\ At(e, c, t) = At(d, c, t)
      BY <2>1, <2>2
    <3>3. At(d, b, s).name = At(d, c, t).name
      BY <2>2, <3>1, <3>2
    <3>4. QED
      BY <3>1, <3>2, <3>3 DEF NamesDiffer, Good
  <2>3. QED
    BY <2>2 DEF NamesDiffer
<1>7. OnlyDirectories(e, L)
  <2>1. ASSUME NEW j \in L, NEW b \in Owned(e, {j}), NEW s \in Slots, Filled(e, b, s)
        PROVE  e.type[j] = "directory"
    <3>1. b \in Owned(e, L) /\ b \in Blocks
      BY DEF Owned
    <3>2. b \in Owned(d, L) /\ Filled(d, b, s)
      BY <1>2, <2>1, <3>1
    <3>3. PICK k \in Indices : e.blocks[j][k] = b
      BY DEF Owned
    <3>4. d.blocks[j][k] = b
      BY <3>2, <3>3
    <3>5. b \in Owned(d, {j})
      BY <3>1, <3>4 DEF Owned
    <3>6. QED
      BY <3>2, <3>5 DEF Good, OnlyDirectories
  <2>2. QED
    BY <2>1 DEF OnlyDirectories
<1>8. QED
  BY <1>3, <1>4, <1>5, <1>6, <1>7 DEF Good

\* An inode outside L that could become a member: its blocks are its own, and
\* hold no entry.
Fresh(d, L, i) ==
  /\ i \in Inodes \ L /\ d.type[i] # "free"
  /\ Owned(d, {i}) \subseteq d.used
  /\ Owned(d, {i}) \cap Owned(d, L) = {}
  /\ \A k, l \in Indices : d.blocks[i][k] # 0 /\ d.blocks[i][k] = d.blocks[i][l] => k = l
  /\ \A k, l \in Indices : d.blocks[i][k] # 0 /\ l < k => d.blocks[i][l] # 0
  /\ \A b \in Owned(d, {i}) : \A s \in Slots : ~ Filled(d, b, s)

\* The disk e is d with one entry more; a name directory dir does not have.
Gains(d, e, b, s, x) ==
  /\ e.blocks = d.blocks /\ e.type = d.type /\ e.used = d.used
  /\ \A c \in Blocks : \A t \in Slots :
       At(e, c, t) = IF c = b /\ t = s THEN x ELSE At(d, c, t)
NameFree(d, dir, n) ==
  \A c \in Owned(d, {dir}) : \A t \in Slots : Filled(d, c, t) => At(d, c, t).name # n

\* It becomes one when an entry of a member's block names it.
LEMMA GoodJoins ==
  ASSUME NEW d, Typed(d), NEW L, Good(d, L), NEW i, Fresh(d, L, i),
         NEW dir \in L, d.type[dir] = "directory",
         NEW b \in Owned(d, {dir}), NEW s \in Slots, ~ Filled(d, b, s),
         NEW x, x.inode = i, NameFree(d, dir, x.name),
         NEW e, Typed(e), Gains(d, e, b, s, x)
  PROVE  Good(e, L \cup {i})
<1> DEFINE M == L \cup {i}
           n == x.name
<1>12. /\ e.blocks = d.blocks /\ e.type = d.type /\ e.used = d.used
       /\ \A c \in Owned(d, {dir}) : \A t \in Slots : Filled(d, c, t) => At(d, c, t).name # n
  BY DEF Gains, NameFree
<1> USE <1>12
<1>0. L \subseteq Inodes /\ i \in Inodes /\ dir \in Inodes /\ b \in Blocks /\ b \in Owned(d, L)
  BY DEF Good, InUse, Fresh, Owned
<1>1. Owned(e, M) = Owned(d, L) \cup Owned(d, {i}) /\ \A j : Owned(e, {j}) = Owned(d, {j})
  BY DEF Owned
<1>2. \A c \in Blocks : \A t \in Slots :
        At(e, c, t) = IF c = b /\ t = s THEN x ELSE At(d, c, t)
  BY DEF Gains
<1>3. i # RootInode /\ RootInode \in L
  BY DEF Good, InUse, Fresh
<1>4. Filled(e, b, s) /\ At(e, b, s).inode = i /\ At(e, b, s).name = n
  BY <1>0, <1>2, <1>3 DEF Filled, NoEntry, RootInode
<1>5. \A c \in Owned(e, M) : \A t \in Slots :
        Filled(e, c, t) /\ ~ (c = b /\ t = s)
          => c \in Owned(d, L) /\ Filled(d, c, t) /\ At(e, c, t) = At(d, c, t)
  <2>1. ASSUME NEW c \in Owned(e, M), NEW t \in Slots, Filled(e, c, t), ~ (c = b /\ t = s)
        PROVE  c \in Owned(d, L) /\ Filled(d, c, t) /\ At(e, c, t) = At(d, c, t)
    <3>1. c \in Blocks
      BY DEF Owned
    <3>2. At(e, c, t) = At(d, c, t)
      BY <1>2, <2>1, <3>1
    <3>3. Filled(d, c, t)
      BY <2>1, <3>2 DEF Filled
    <3>4. c \in Owned(d, L)
      BY <1>1, <3>3 DEF Fresh
    <3>5. QED
      BY <3>2, <3>3, <3>4
  <2>2. QED
    BY <2>1
<1>6. InUse(e, M)
  BY <1>0 DEF Good, InUse, Fresh
<1>7. Listed(e, M)
  <2>1. Owned(e, M) \subseteq e.used
    BY <1>1 DEF Good, Listed, Fresh
  <2>2. ASSUME NEW j \in M, NEW m \in M, NEW k \in Indices, NEW l \in Indices,
               d.blocks[j][k] # 0, d.blocks[j][k] = d.blocks[m][l]
        PROVE  j = m /\ k = l
    <3>1. \A q \in M : d.blocks[q][k] \in 0 .. NBlocks /\ d.blocks[q][l] \in 0 .. NBlocks
      BY <1>0 DEF Typed
    <3>2. d.blocks[j][k] \in Blocks
      BY <2>2, <3>1, DiskAssumption DEF Blocks
    <3>3. d.blocks[j][k] \in Owned(d, {j}) /\ d.blocks[j][k] \in Owned(d, {m})
      BY <2>2, <3>2 DEF Owned
    <3>4. \A q \in L : Owned(d, {q}) \subseteq Owned(d, L)
      BY DEF Owned
    <3>5. CASE j \in L /\ m \in L
      BY <2>2, <3>5 DEF Good, Listed
    <3>6. CASE j = i /\ m = i
      BY <2>2, <3>6 DEF Fresh
    <3>7. CASE j = i /\ m \in L
      BY <3>3, <3>4, <3>7 DEF Fresh
    <3>8. CASE m = i /\ j \in L
      BY <3>3, <3>4, <3>8 DEF Fresh
    <3>9. QED
      BY <3>5, <3>6, <3>7, <3>8
  <2>3. \A j \in M : \A k, l \in Indices : d.blocks[j][k] # 0 /\ l < k => d.blocks[j][l] # 0
    BY DEF Good, Listed, Fresh
  <2> HIDE DEF M
  <2>4. QED
    BY <2>1, <2>2, <2>3 DEF Listed
<1>8. NamesOnce(e, M)
  <2>1. \A c \in Owned(d, L) : \A t \in Slots : Filled(d, c, t) => At(d, c, t).inode \in L \ {RootInode}
    BY DEF Good, NamesOnce
  <2>2. i \notin L
    BY DEF Fresh
  <2>3. \A c \in Owned(e, M) : \A t \in Slots : Filled(e, c, t) => At(e, c, t).inode \in M \ {RootInode}
    BY <1>3, <1>4, <1>5, <2>1
  <2>4. ASSUME NEW c \in Owned(e, M), NEW g \in Owned(e, M), NEW t \in Slots, NEW u \in Slots,
               Filled(e, c, t), Filled(e, g, u), At(e, c, t).inode = At(e, g, u).inode
        PROVE  c = g /\ t = u
    <3>1. CASE (c = b /\ t = s) /\ (g = b /\ u = s)
      BY <3>1
    <3>2. CASE ~ (c = b /\ t = s) /\ ~ (g = b /\ u = s)
      <4>1. /\ c \in Owned(d, L) /\ Filled(d, c, t) /\ At(e, c, t) = At(d, c, t)
            /\ g \in Owned(d, L) /\ Filled(d, g, u) /\ At(e, g, u) = At(d, g, u)
        BY <1>5, <2>4, <3>2
      <4>2. At(d, c, t).inode = At(d, g, u).inode
        BY <2>4, <4>1
      <4>3. QED
        BY <4>1, <4>2 DEF Good, NamesOnce
    <3>3. CASE (c = b /\ t = s) /\ ~ (g = b /\ u = s)
      <4>1. g \in Owned(d, L) /\ Filled(d, g, u) /\ At(e, g, u) = At(d, g, u)
        BY <1>5, <2>4, <3>3
      <4>2. At(e, g, u).inode \in L
        BY <2>1, <4>1
      <4>3. At(e, c, t).inode = i
        BY <1>4, <3>3
      <4>4. QED
        BY <2>2, <2>4, <4>2, <4>3
    <3>4. CASE ~ (c = b /\ t = s) /\ (g = b /\ u = s)
      <4>1. c \in Owned(d, L) /\ Filled(d, c, t) /\ At(e, c, t) = At(d, c, t)
        BY <1>5, <2>4, <3>4
      <4>2. At(e, c, t).inode \in L
        BY <2>1, <4>1
      <4>3. At(e, g, u).inode = i
        BY <1>4, <3>4
      <4>4. QED
        BY <2>2, <2>4, <4>2, <4>3
    <3>5. QED
      BY <3>1, <3>2, <3>3, <3>4
  <2> HIDE DEF M
  <2>5. QED
    BY <2>3, <2>4 DEF NamesOnce
<1>9. NamesDiffer(e, M)
  <2>1. ASSUME NEW j \in M, NEW c \in Owned(d, {j}), NEW g \in Owned(d, {j}),
               NEW t \in Slots, NEW u \in Slots,
               Filled(e, c, t), Filled(e, g, u), At(e, c, t).name = At(e, g, u).name
        PROVE  c = g /\ t = u
    <3>1. c \in Owned(e, M) /\ g \in Owned(e, M) /\ c \in Owned(d, {j}) /\ g \in Owned(d, {j})
      BY DEF Owned
    <3>2. \A h \in Owned(d, {j}) : h = b => j = dir
      <4>1. TAKE h \in Owned(d, {j})
      <4>2. HAVE h = b
      <4>3. j \in L
        BY <1>0, <4>2 DEF Fresh, Owned
      <4>4. PICK k \in Indices, l \in Indices : d.blocks[j][k] = b /\ d.blocks[dir][l] = b
        BY <4>2 DEF Owned
      <4>5. b # 0
        BY <1>0, DiskAssumption DEF Blocks
      <4>6. QED
        BY <4>3, <4>4, <4>5 DEF Good, Listed
    <3>3. CASE (c = b /\ t = s) /\ (g = b /\ u = s)
      BY <3>3
    <3>4. CASE ~ (c = b /\ t = s) /\ ~ (g = b /\ u = s)
      <4>1. Filled(d, c, t) /\ Filled(d, g, u) /\ At(d, c, t).name = At(d, g, u).name
        BY <1>5, <2>1, <3>1, <3>4
      <4>2. c \in Owned(d, L) /\ g \in Owned(d, L)
        BY <1>5, <2>1, <3>1, <3>4
      <4>3. CASE j \in L
        BY <4>1, <4>3 DEF Good, NamesDiffer
      <4>4. CASE j = i
        BY <4>1, <4>2, <4>4 DEF Fresh
      <4>5. QED
        BY <4>3, <4>4
    <3>5. CASE (c = b /\ t = s) /\ ~ (g = b /\ u = s)
      <4>1. Filled(d, g, u) /\ At(e, g, u) = At(d, g, u)
        BY <1>5, <2>1, <3>1, <3>5
      <4>2. At(e, c, t).name = n /\ j = dir
        BY <1>4, <3>2, <3>5
      <4>3. At(d, g, u).name # n
        BY <4>1, <4>2
      <4>4. QED
        BY <2>1, <4>1, <4>2, <4>3
    <3>6. CASE ~ (c = b /\ t = s) /\ (g = b /\ u = s)
      <4>1. Filled(d, c, t) /\ At(e, c, t) = At(d, c, t)
        BY <1>5, <2>1, <3>1, <3>6
      <4>2. At(e, g, u).name = n /\ j = dir
        BY <1>4, <3>2, <3>6
      <4>3. QED
        BY <2>1, <4>1, <4>2
    <3>7. QED
      BY <3>3, <3>4, <3>5, <3>6
  <2>2. \A j \in M : Owned(e, {j}) = Owned(d, {j})
    BY <1>1
  <2> HIDE DEF M
  <2>3. QED
    BY <2>1, <2>2 DEF NamesDiffer
<1>10. OnlyDirectories(e, M)
  <2>1. ASSUME NEW j \in M, NEW c \in Owned(d, {j}), NEW t \in Slots, Filled(e, c, t)
        PROVE  d.type[j] = "directory"
    <3>1. c \in Owned(e, M)
      BY DEF Owned
    <3>2. CASE c = b /\ t = s
      <4>1. j \in L
        BY <1>0, <3>2 DEF Fresh, Owned
      <4>2. PICK k \in Indices, l \in Indices : d.blocks[j][k] = b /\ d.blocks[dir][l] = b
        BY <3>2 DEF Owned
      <4>3. b # 0
        BY <1>0, DiskAssumption DEF Blocks
      <4>4. j = dir
        BY <4>1, <4>2, <4>3 DEF Good, Listed
      <4>5. QED
        BY <4>4
    <3>3. CASE ~ (c = b /\ t = s)
      <4>1. c \in Owned(d, L) /\ Filled(d, c, t)
        BY <1>5, <2>1, <3>1, <3>3
      <4>2. j \in L
        BY <4>1 DEF Fresh
      <4>3. QED
        BY <4>1, <4>2 DEF Good, OnlyDirectories
    <3>4. QED
      BY <3>2, <3>3
  <2>2. QED
    BY <1>1, <2>1 DEF OnlyDirectories
<1>11. QED
  BY <1>6, <1>7, <1>8, <1>9, <1>10 DEF Good

-----------------------------------------------------------------------------
(* What the operations on blocks and inodes leave *)

Succeeds(o, d, v) == o = Done(d, v) /\ o.ok /\ o.disk = d /\ o.val = v
Fails(o, d)       == o = Failed(d) /\ ~ o.ok /\ o.disk = d

\* An outcome, by what it says.
LEMMA Outcomes ==
  ASSUME NEW o, NEW d, NEW v
  PROVE  /\ o = Done(d, v) => Succeeds(o, d, v)
         /\ o = Failed(d) => Fails(o, d)
  BY DEF Done, Failed, Succeeds, Fails

\* Of a disk without power only the power is different.
LEMMA OffTyped ==
  ASSUME NEW d, Typed(d)
  PROVE  /\ Typed(Off(d)) /\ Off(d).power = "off"
         /\ Off(d).used = d.used /\ Off(d).type = d.type /\ Off(d).blocks = d.blocks
         /\ Off(d).entries = d.entries /\ Off(d).free_inodes = d.free_inodes
         /\ d.power = "off" => Off(d) = d
  BY DEF Typed, Off

\* A transfer of a drive that reports no errors succeeds, or the power is off.
LEMMA TransferIs ==
  ASSUME NEW d, NEW e, Typed(d), NEW o \in Transfer(d, e)
  PROVE  \/ Succeeds(o, e, 0) /\ d.power = "on"
         \/ Fails(o, Off(d))
<1>1. d.errors = 0 /\ d.power \in {"on", "off"} /\ {d.errors - 1} \cap Nat = {}
  BY DEF Typed
<1>2. d.power = "off" => d = Off(d)
  BY OffTyped
<1>3. (o = Done(e, 0) /\ d.power = "on") \/ o = Failed(Off(d))
  BY <1>1, <1>2 DEF Transfer, Off
<1>4. QED
  BY <1>3, Outcomes

Marked(d, b) == [d EXCEPT !.used = @ \cup {b}]
Taken(d, b)  == [d EXCEPT !.used = @ \cup {b}, !.free_blocks = @ - 1]
Cleared(d, b)  == [d EXCEPT !.used = @ \ {b}]
Returned(d, b) == [d EXCEPT !.used = @ \ {b}, !.free_blocks = @ + 1]
Put(d, i, type, blocks) == [d EXCEPT !.type[i] = type, !.blocks[i] = blocks]

\* Of two disks all but the bitmap and its counter, and the power.
Alike(d, e) ==
  /\ e.entries = d.entries /\ e.type = d.type /\ e.blocks = d.blocks
  /\ e.free_inodes = d.free_inodes

\* Marking and freeing a block change the bitmap and its counter only.
LEMMA BitmapChanges ==
  ASSUME NEW d, Typed(d), NEW b
  PROVE  /\ Typed(Cleared(d, b)) /\ Typed(Returned(d, b))
         /\ Cleared(d, b).used = d.used \ {b} /\ Returned(d, b).used = d.used \ {b}
         /\ Alike(d, Cleared(d, b)) /\ Alike(d, Returned(d, b))
         /\ Cleared(d, b).power = d.power /\ Returned(d, b).power = d.power
         /\ b \in Blocks =>
              /\ Typed(Marked(d, b)) /\ Typed(Taken(d, b))
              /\ Marked(d, b).used = d.used \cup {b} /\ Taken(d, b).used = d.used \cup {b}
              /\ Alike(d, Marked(d, b)) /\ Alike(d, Taken(d, b))
              /\ Marked(d, b).power = d.power /\ Taken(d, b).power = d.power
<1>0. d.free_blocks + 1 \in Int /\ d.free_blocks - 1 \in Int
  BY DEF Typed
<1> DEFINE more == d.free_blocks + 1
           less == d.free_blocks - 1
<1>1. Typed(Cleared(d, b)) /\ Typed(Returned(d, b))
  <2>1. Returned(d, b) = [d EXCEPT !.used = @ \ {b}, !.free_blocks = more]
    BY DEF Returned
  <2>2. more \in Int
    BY <1>0
  <2> HIDE DEF more
  <2>3. QED
    BY <2>1, <2>2 DEF Typed, Cleared
<1>2. ASSUME b \in Blocks PROVE Typed(Marked(d, b)) /\ Typed(Taken(d, b))
  <2> DEFINE set == d.used \cup {b}
  <2>0. set \in SUBSET Blocks
    BY <1>2 DEF Typed
  <2>1. Taken(d, b) = [d EXCEPT !.used = set, !.free_blocks = less]
    BY DEF Taken
  <2>2. less \in Int /\ Marked(d, b) = [d EXCEPT !.used = set]
    BY <1>0 DEF Marked
  <2> HIDE DEF less, set
  <2>3. Typed(Marked(d, b))
    BY <2>0, <2>2 DEF Typed
  <2>4. Typed(Taken(d, b))
    BY <2>0, <2>1, <2>2 DEF Typed
  <2>5. QED
    BY <2>3, <2>4
<1>3. /\ Cleared(d, b).used = d.used \ {b} /\ Returned(d, b).used = d.used \ {b}
      /\ Cleared(d, b).power = d.power /\ Returned(d, b).power = d.power
  BY DEF Typed, Cleared, Returned
<1>7. /\ Marked(d, b).used = d.used \cup {b} /\ Taken(d, b).used = d.used \cup {b}
      /\ Marked(d, b).power = d.power /\ Taken(d, b).power = d.power
  BY DEF Typed, Marked, Taken
<1>4. Alike(d, Cleared(d, b)) /\ Alike(d, Returned(d, b))
  BY DEF Typed, Alike, Cleared, Returned
<1>5. Alike(d, Marked(d, b)) /\ Alike(d, Taken(d, b))
  BY DEF Typed, Alike, Marked, Taken
<1>6. QED
  BY <1>1, <1>2, <1>3, <1>7, <1>4, <1>5

\* A block given out is marked, and nothing else is different.
LEMMA TakenIs ==
  ASSUME NEW d, Typed(d), NEW b \in Blocks
  PROVE  /\ Typed(Taken(d, b)) /\ Taken(d, b).used = d.used \cup {b}
         /\ Taken(d, b).entries = d.entries /\ Taken(d, b).power = d.power
<1>1. /\ Typed(Taken(d, b)) /\ Taken(d, b).used = d.used \cup {b}
      /\ Alike(d, Taken(d, b)) /\ Taken(d, b).power = d.power
  BY BitmapChanges
<1>2. QED
  BY <1>1 DEF Alike

\* The block list of a new inode.
LEMMA NoBlocksTyped ==
  NoBlocks \in [Indices -> 0 .. NBlocks] /\ \A k \in Indices : NoBlocks[k] = 0
  BY DiskAssumption DEF NoBlocks, Indices

\* Writing an inode changes that inode only.
LEMMA PutTyped ==
  ASSUME NEW d, Typed(d), NEW i \in Inodes, NEW type \in Types,
         NEW blocks \in [Indices -> 0 .. NBlocks]
  PROVE  /\ Typed(Put(d, i, type, blocks))
         /\ Put(d, i, type, blocks).type = [d.type EXCEPT ![i] = type]
         /\ Put(d, i, type, blocks).blocks = [d.blocks EXCEPT ![i] = blocks]
         /\ Put(d, i, type, blocks).used = d.used
         /\ Put(d, i, type, blocks).entries = d.entries
         /\ Put(d, i, type, blocks).power = d.power
  BY DEF Typed, Put

\* The allocator gives a block that was not marked, or none is left, or the
\* power went.
LEMMA AllocBlock ==
  ASSUME NEW d, Typed(d), NEW o \in fs_alloc_block(d)
  PROVE  \/ Fails(o, d) /\ Blocks \subseteq d.used
         \/ Fails(o, Off(d))
         \/ \E b \in Blocks \ d.used :
              \/ Succeeds(o, Taken(d, b), b) /\ d.power = "on"
              \/ Fails(o, Off(Marked(d, b)))
<1> DEFINE b == Least(Blocks \ d.used)
<1>1. PICK r \in Read(d) :
        IF r.ok
        THEN o \in IF Blocks \subseteq d.used THEN {Failed(r.disk)}
                   ELSE Then(Transfer(r.disk, [r.disk EXCEPT !.used = @ \cup {b}]), LAMBDA w :
                        Then(Transfer(w.disk, [w.disk EXCEPT !.free_blocks = @ - 1]), LAMBDA s :
                          {Done(s.disk, b)}))
        ELSE o = Failed(r.disk)
  BY DEF fs_alloc_block, Then, Each
<1>2. Succeeds(r, d, 0) \/ Fails(r, Off(d))
  BY TransferIs DEF Read
<1>3. CASE ~ r.ok
  BY <1>1, <1>2, <1>3, Outcomes DEF Succeeds, Fails
<1>4. CASE r.ok /\ Blocks \subseteq d.used
  <2>1. r.disk = d
    BY <1>2, <1>4 DEF Succeeds, Fails
  <2>2. o = Failed(d)
    BY <1>1, <1>4, <2>1
  <2>3. QED
    BY <1>4, <2>2, Outcomes
<1>5. CASE r.ok /\ ~ (Blocks \subseteq d.used)
  <2>1. r.disk = d
    BY <1>2, <1>5, Outcomes DEF Succeeds, Fails
  <2>2. b \in Blocks \ d.used
    <3>1. Blocks \ d.used \subseteq Nat /\ Blocks \ d.used # {}
      BY <1>5 DEF Blocks
    <3>2. QED
      BY <3>1, LeastIn
  <2>3. PICK w \in Transfer(r.disk, [r.disk EXCEPT !.used = @ \cup {b}]) :
          IF w.ok
          THEN o \in Then(Transfer(w.disk, [w.disk EXCEPT !.free_blocks = @ - 1]), LAMBDA s :
                          {Done(s.disk, b)})
          ELSE o = Failed(w.disk)
    BY <1>1, <1>5 DEF Then, Each
  <2> HIDE DEF b
  <2>4. \/ Succeeds(w, Marked(d, b), 0) /\ d.power = "on"
        \/ Fails(w, Off(d))
    BY <2>1, TransferIs DEF Marked
  <2>5. CASE ~ w.ok
    BY <2>3, <2>4, <2>5, Outcomes DEF Succeeds, Fails
  <2>6. CASE w.ok
    <3>1. w.disk = Marked(d, b) /\ d.power = "on"
      BY <2>4, <2>6, Outcomes DEF Succeeds, Fails
    <3>2. PICK s \in Transfer(w.disk, [w.disk EXCEPT !.free_blocks = @ - 1]) :
            IF s.ok THEN o = Done(s.disk, b) ELSE o = Failed(s.disk)
      BY <2>3, <2>6 DEF Then, Each
    <3>3. Typed(Marked(d, b)) /\ [Marked(d, b) EXCEPT !.free_blocks = @ - 1] = Taken(d, b)
      BY <2>2 DEF Typed, Marked, Taken
    <3>4. Succeeds(s, Taken(d, b), 0) \/ Fails(s, Off(Marked(d, b)))
      BY <3>1, <3>3, TransferIs
    <3>5. QED
      BY <2>2, <3>1, <3>2, <3>4, Outcomes DEF Succeeds, Fails
  <2>7. QED
    BY <2>5, <2>6
<1>6. QED
  BY <1>3, <1>4, <1>5

\* fs_free_block frees the block, or the power goes before or after the bit is cleared.
LEMMA FreeBlock ==
  ASSUME NEW d, Typed(d), NEW b, NEW o \in fs_free_block(d, b)
  PROVE  \/ Succeeds(o, Returned(d, b), 0) /\ d.power = "on"
         \/ Fails(o, Off(d))
         \/ Fails(o, Off(Cleared(d, b))) /\ d.power = "on"
<1>1. PICK r \in Read(d) :
        IF r.ok
        THEN o \in Then(Transfer(r.disk, [r.disk EXCEPT !.used = @ \ {b}]), LAMBDA w :
                        Transfer(w.disk, [w.disk EXCEPT !.free_blocks = @ + 1]))
        ELSE o = Failed(r.disk)
  BY DEF fs_free_block, Then, Each
<1>2. Succeeds(r, d, 0) \/ Fails(r, Off(d))
  BY TransferIs DEF Read
<1>3. CASE ~ r.ok
  BY <1>1, <1>2, <1>3, Outcomes DEF Succeeds, Fails
<1>4. CASE r.ok
  <2>1. r.disk = d
    BY <1>2, <1>4, Outcomes DEF Succeeds, Fails
  <2>2. PICK w \in Transfer(r.disk, [r.disk EXCEPT !.used = @ \ {b}]) :
          IF w.ok THEN o \in Transfer(w.disk, [w.disk EXCEPT !.free_blocks = @ + 1])
          ELSE o = Failed(w.disk)
    BY <1>1, <1>4 DEF Then, Each
  <2>3. \/ Succeeds(w, Cleared(d, b), 0) /\ d.power = "on"
        \/ Fails(w, Off(d))
    BY <2>1, TransferIs DEF Cleared
  <2>4. Typed(Cleared(d, b)) /\ [Cleared(d, b) EXCEPT !.free_blocks = @ + 1] = Returned(d, b)
    BY DEF Typed, Cleared, Returned
  <2>5. CASE w.ok
    <3>1. w.disk = Cleared(d, b) /\ d.power = "on"
      BY <2>3, <2>5, Outcomes DEF Succeeds, Fails
    <3>2. Succeeds(o, Returned(d, b), 0) \/ Fails(o, Off(Cleared(d, b)))
      BY <2>2, <2>4, <2>5, <3>1, TransferIs
    <3>3. QED
      BY <3>1, <3>2
  <2>6. CASE ~ w.ok
    BY <2>2, <2>3, <2>6, Outcomes DEF Succeeds, Fails
  <2>7. QED
    BY <2>5, <2>6
<1>5. QED
  BY <1>3, <1>4

\* fs_write_inode writes the inode, or the power goes before.
LEMMA WriteInode ==
  ASSUME NEW d, Typed(d), NEW i, NEW type, NEW blocks, NEW o \in fs_write_inode(d, i, type, blocks)
  PROVE  \/ Succeeds(o, Put(d, i, type, blocks), 0) /\ d.power = "on"
         \/ Fails(o, Off(d))
<1>1. PICK r \in Read(d) :
        IF r.ok
        THEN o \in Transfer(r.disk, [r.disk EXCEPT !.type[i] = type, !.blocks[i] = blocks])
        ELSE o = Failed(r.disk)
  BY DEF fs_write_inode, Then, Each
<1>2. Succeeds(r, d, 0) \/ Fails(r, Off(d))
  BY TransferIs DEF Read
<1>3. CASE ~ r.ok
  BY <1>1, <1>2, <1>3, Outcomes DEF Succeeds, Fails
<1>4. CASE r.ok
  <2>1. r.disk = d
    BY <1>2, <1>4, Outcomes DEF Succeeds, Fails
  <2>2. QED
    BY <1>1, <1>4, <2>1, TransferIs DEF Put
<1>5. QED
  BY <1>3, <1>4

Counted(d, i, type) ==
  [d EXCEPT !.type[i] = type, !.blocks[i] = NoBlocks, !.free_inodes = @ - 1]

\* fs_alloc_inode finds none, takes a free one, or the power goes on the way.
LEMMA AllocInode ==
  ASSUME NEW d, Typed(d), NEW type \in Types, NEW o \in fs_alloc_inode(d, type)
  PROVE  \/ Fails(o, d)
         \/ Fails(o, Off(d))
         \/ \E i \in Inodes :
              /\ d.type[i] = "free"
              /\ \/ Succeeds(o, Counted(d, i, type), i) /\ d.power = "on"
                 \/ Fails(o, Off(Put(d, i, type, NoBlocks)))
<1> DEFINE free == {i \in Inodes : d.type[i] = "free"}
           i    == Least(free)
<1>1. PICK r \in Read(d) :
        IF r.ok
        THEN o \in IF free = {} THEN {Failed(r.disk)}
                   ELSE Then(fs_write_inode(r.disk, Least(free), type, NoBlocks), LAMBDA w :
                        Then(Transfer(w.disk, [w.disk EXCEPT !.free_inodes = @ - 1]), LAMBDA s :
                          {Done(s.disk, Least(free))}))
        ELSE o = Failed(r.disk)
  BY DEF fs_alloc_inode, Then, Each
<1>2. Succeeds(r, d, 0) \/ Fails(r, Off(d))
  BY TransferIs DEF Read
<1>3. CASE ~ r.ok
  BY <1>1, <1>2, <1>3, Outcomes DEF Succeeds, Fails
<1>4. CASE r.ok /\ free = {}
  BY <1>1, <1>2, <1>4, Outcomes DEF Succeeds, Fails
<1>5. CASE r.ok /\ free # {}
  <2>1. r.disk = d
    BY <1>2, <1>5, Outcomes DEF Succeeds, Fails
  <2>2. i \in Inodes /\ d.type[i] = "free"
    <3>1. free \subseteq Nat /\ free # {}
      BY <1>5 DEF Inodes
    <3>2. i \in free
      BY <3>1, LeastIn
    <3>3. QED
      BY <3>2
  <2>3. PICK w \in fs_write_inode(r.disk, Least(free), type, NoBlocks) :
          IF w.ok
          THEN o \in Then(Transfer(w.disk, [w.disk EXCEPT !.free_inodes = @ - 1]), LAMBDA s :
                          {Done(s.disk, Least(free))})
          ELSE o = Failed(w.disk)
    BY <1>1, <1>5 DEF Then, Each
  <2> HIDE DEF i
  <2>4. \/ Succeeds(w, Put(d, i, type, NoBlocks), 0) /\ d.power = "on"
        \/ Fails(w, Off(d))
    BY <2>1, WriteInode DEF i
  <2>5. CASE ~ w.ok
    BY <2>3, <2>4, <2>5, Outcomes DEF Succeeds, Fails
  <2>6. CASE w.ok
    <3>1. w.disk = Put(d, i, type, NoBlocks) /\ d.power = "on"
      BY <2>4, <2>6, Outcomes DEF Succeeds, Fails
    <3>2. PICK s \in Transfer(w.disk, [w.disk EXCEPT !.free_inodes = @ - 1]) :
            IF s.ok THEN o = Done(s.disk, i) ELSE o = Failed(s.disk)
      BY <2>3, <2>6 DEF Then, Each, i
    <3>3. Typed(Put(d, i, type, NoBlocks))
      BY <2>2, PutTyped, NoBlocksTyped
    <3>4. [Put(d, i, type, NoBlocks) EXCEPT !.free_inodes = @ - 1] = Counted(d, i, type)
      BY DEF Typed, Put, Counted
    <3>5. Succeeds(s, Counted(d, i, type), 0) \/ Fails(s, Off(Put(d, i, type, NoBlocks)))
      BY <3>1, <3>3, <3>4, TransferIs
    <3>6. QED
      BY <2>2, <3>1, <3>2, <3>5, Outcomes DEF Succeeds, Fails
  <2>7. QED
    BY <2>5, <2>6
<1>6. QED
  BY <1>3, <1>4, <1>5

-----------------------------------------------------------------------------
(* Freeing an inode *)

\* Some of inode i's blocks have been returned.
Released(d, i, e) ==
  /\ Typed(e) /\ Alike(d, e)
  /\ \A b \in d.used : b \in e.used \/ b \in Owned(d, {i})
  /\ d.power = "off" => e = d

FreeTurn(S, d, i, k) ==
  IF d.blocks[i][k] = 0 THEN S
  ELSE UNION {{[f EXCEPT !.ok = f.ok /\ o.ok] : f \in fs_free_block(o.disk, d.blocks[i][k])} :
              o \in S}

NoneFreed(d) == {Done(d, 0)}

\* The outcomes of the first n turns of fs_free_inode's loop.
IsFreed(t, n, d, i) ==
  t = [k \in 0 .. n |-> IF k = 0 THEN NoneFreed(d) ELSE FreeTurn(t[k - 1], d, i, k)]

\* The loop of fs_free_inode is well defined.
LEMMA FreedExists ==
  ASSUME NEW d, NEW i
  PROVE  \A n \in 0 .. MaxBlocks : \E t : IsFreed(t, n, d, i)
<1> DEFINE T == {n \in Nat : \E t : IsFreed(t, n, d, i)}
<1>1. 0 \in T
  <2> DEFINE t == [k \in 0 .. 0 |-> NoneFreed(d)]
  <2>1. IsFreed(t, 0, d, i)
    BY DEF IsFreed
  <2>2. QED
    BY <2>1
<1>2. ASSUME NEW n \in 0 .. MaxBlocks - 1, n \in T PROVE n + 1 \in T
  <2>1. PICK t : IsFreed(t, n, d, i)
    BY <1>2
  <2> DEFINE u == [k \in 0 .. n + 1 |-> IF k = 0 THEN NoneFreed(d) ELSE FreeTurn(t[k - 1], d, i, k)]
  <2>2. \A k \in 0 .. n : u[k] = t[k]
    BY <2>1 DEF IsFreed
  <2>3. \A k \in 0 .. n + 1 : k # 0 => u[k - 1] = t[k - 1]
    <3>1. \A k \in 0 .. n + 1 : k # 0 => k - 1 \in 0 .. n
      OBVIOUS
    <3>2. QED
      BY <2>2, <3>1
  <2>4. u = [k \in 0 .. n + 1 |-> IF k = 0 THEN NoneFreed(d) ELSE FreeTurn(u[k - 1], d, i, k)]
    BY <2>3
  <2>5. IsFreed(u, n + 1, d, i)
    BY <2>4 DEF IsFreed
  <2>6. QED
    BY <2>5
<1>3. MaxBlocks \in Nat
  BY DiskAssumption
<1> HIDE DEF T
<1>4. \A n \in 0 .. MaxBlocks : n \in T
  BY <1>1, <1>2, <1>3, UpTo
<1>5. QED
  BY <1>4 DEF T

\* A turn keeps what is left to be said of the disk.
LEMMA FreeTurnKeeps ==
  ASSUME NEW d, Typed(d), NEW i \in Inodes, NEW S, NEW k \in Indices,
         \A o \in S : Released(d, i, o.disk) /\ (o.ok \/ o.disk.power = "off"),
         NEW g \in FreeTurn(S, d, i, k)
  PROVE  Released(d, i, g.disk) /\ (g.ok \/ g.disk.power = "off")
<1> DEFINE b == d.blocks[i][k]
<1>1. CASE b = 0
  BY <1>1 DEF FreeTurn
<1>2. CASE b # 0
  <2>0. PICK o \in S : \E f \in fs_free_block(o.disk, b) : g = [f EXCEPT !.ok = f.ok /\ o.ok]
    BY <1>2 DEF FreeTurn
  <2>1. PICK f \in fs_free_block(o.disk, b) : g = [f EXCEPT !.ok = f.ok /\ o.ok]
    BY <2>0
  <2>2. Released(d, i, o.disk) /\ (o.ok \/ o.disk.power = "off") /\ Typed(o.disk)
    BY DEF Released
  <2>13. o.disk.power \in {"on", "off"}
    BY <2>2 DEF Typed
  <2>3. \/ Succeeds(f, Returned(o.disk, b), 0) /\ o.disk.power = "on"
        \/ Fails(f, Off(o.disk))
        \/ Fails(f, Off(Cleared(o.disk, b))) /\ o.disk.power = "on"
    BY <2>2, FreeBlock
  <2>4. g.disk = f.disk /\ (f.ok /\ o.ok => g.ok)
    BY <2>1, <2>3 DEF Succeeds, Fails, Done, Failed
  <2>5. b \in Owned(d, {i})
    <3>1. b \in 0 .. NBlocks
      BY DEF Typed
    <3>2. b \in Blocks
      BY <1>2, <3>1, DiskAssumption DEF Blocks
    <3>3. QED
      BY <3>2 DEF Owned
  <2> HIDE DEF b
  <2>6. Released(d, i, Cleared(o.disk, b)) \/ o.disk.power = "off"
    <3>1. o.disk.power # "off" => d.power # "off"
      BY <2>2 DEF Released
    <3>2. /\ Typed(Cleared(o.disk, b)) /\ Cleared(o.disk, b).used = o.disk.used \ {b}
          /\ Alike(o.disk, Cleared(o.disk, b))
      BY <2>2, BitmapChanges
    <3>3. \A c \in d.used : c \in o.disk.used \ {b} \/ c \in Owned(d, {i})
      BY <2>2, <2>5 DEF Released
    <3>4. /\ o.disk.entries = d.entries /\ o.disk.type = d.type /\ o.disk.blocks = d.blocks
          /\ o.disk.free_inodes = d.free_inodes
      BY <2>2 DEF Released, Alike
    <3>5. QED
      BY <2>13, <3>1, <3>2, <3>3, <3>4 DEF Released, Alike
  <2>7. Released(d, i, Returned(o.disk, b)) \/ o.disk.power = "off"
    <3>1. o.disk.power # "off" => d.power # "off"
      BY <2>2 DEF Released
    <3>2. /\ Typed(Returned(o.disk, b)) /\ Returned(o.disk, b).used = o.disk.used \ {b}
          /\ Alike(o.disk, Returned(o.disk, b))
      BY <2>2, BitmapChanges
    <3>3. \A c \in d.used : c \in o.disk.used \ {b} \/ c \in Owned(d, {i})
      BY <2>2, <2>5 DEF Released
    <3>4. /\ o.disk.entries = d.entries /\ o.disk.type = d.type /\ o.disk.blocks = d.blocks
          /\ o.disk.free_inodes = d.free_inodes
      BY <2>2 DEF Released, Alike
    <3>5. QED
      BY <2>13, <3>1, <3>2, <3>3, <3>4 DEF Released, Alike
  <2>8. \A e : Released(d, i, e) => Released(d, i, Off(e)) /\ Off(e).power = "off"
    <3>1. TAKE e
    <3>2. HAVE Released(d, i, e)
    <3>3. Typed(e)
      BY <3>2 DEF Released
    <3>4. QED
      BY <3>2, <3>3, OffTyped DEF Released, Alike
  <2>9. CASE Succeeds(f, Returned(o.disk, b), 0) /\ o.disk.power = "on"
    BY <2>2, <2>4, <2>7, <2>9 DEF Succeeds
  <2>10. CASE Fails(f, Off(o.disk))
    BY <2>2, <2>4, <2>8, <2>10 DEF Fails
  <2>11. CASE Fails(f, Off(Cleared(o.disk, b))) /\ o.disk.power = "on"
    BY <2>4, <2>6, <2>8, <2>11 DEF Fails
  <2>12. QED
    BY <2>3, <2>9, <2>10, <2>11
<1>3. QED
  BY <1>1, <1>2

\* What fs_free_inode does when the blocks are freed with the outcomes S.
Frees(o, d, i, S) ==
  o \in Then(Read(d), LAMBDA s :
       Then(S, LAMBDA f :
       Then(fs_write_inode(f.disk, i, "free", NoBlocks), LAMBDA w :
       Then(Read(w.disk), LAMBDA r :
            Transfer(r.disk, [r.disk EXCEPT !.free_inodes = @ + 1])))))

Freed(e, i) == [e EXCEPT !.type[i] = "free", !.blocks[i] = NoBlocks, !.free_inodes = @ + 1]

\* fs_free_inode frees blocks of that inode only; the inode goes last.
LEMMA FreeInode ==
  ASSUME NEW d, Typed(d), NEW i \in Inodes, NEW o \in fs_free_inode(d, i)
  PROVE  \E e : /\ Released(d, i, e)
                /\ \/ Succeeds(o, Freed(e, i), 0) /\ d.power = "on"
                   \/ Fails(o, e) /\ e.power = "off"
                   \/ Fails(o, Off(Put(e, i, "free", NoBlocks))) /\ d.power = "on"
<1>1. PICK t :
        /\ IsFreed(t, MaxBlocks, d, i)
        /\ Frees(o, d, i, t[MaxBlocks])
  <2> DEFINE t == CHOOSE t : IsFreed(t, MaxBlocks, d, i)
  <2>1. MaxBlocks \in 0 .. MaxBlocks
    BY DiskAssumption
  <2>2. IsFreed(t, MaxBlocks, d, i)
    BY <2>1, FreedExists
  <2>3. Frees(o, d, i, t[MaxBlocks])
    BY DEF fs_free_inode, IsFreed, FreeTurn, NoneFreed, Frees, Then, Each
  <2> HIDE DEF t
  <2>4. QED
    BY <2>2, <2>3
<1>2. MaxBlocks \in Nat
  BY DiskAssumption
<1>3. t[0] = NoneFreed(d) /\ \A k \in Indices : t[k] = FreeTurn(t[k - 1], d, i, k)
  <2>1. IsFreed(t, MaxBlocks, d, i)
    BY <1>1
  <2>2. \A k \in 0 .. MaxBlocks : t[k] = IF k = 0 THEN NoneFreed(d) ELSE FreeTurn(t[k - 1], d, i, k)
    BY <2>1 DEF IsFreed
  <2>3. 0 \in 0 .. MaxBlocks /\ \A k \in Indices : k \in 0 .. MaxBlocks /\ k # 0
    BY <1>2 DEF Indices
  <2>4. QED
    BY <2>2, <2>3
<1>4. \A g \in t[MaxBlocks] : Released(d, i, g.disk) /\ (g.ok \/ g.disk.power = "off")
  <2> DEFINE T == {k \in Nat : \A g \in t[k] : Released(d, i, g.disk) /\ (g.ok \/ g.disk.power = "off")}
  <2>1. 0 \in T
    <3>1. Done(d, 0).disk = d /\ Done(d, 0).ok
      BY DEF Done
    <3>2. Released(d, i, d)
      BY DEF Released, Alike
    <3>3. QED
      BY <1>3, <3>1, <3>2 DEF NoneFreed
  <2>2. \A k \in 0 .. MaxBlocks - 1 : k \in T => k + 1 \in T
    <3>1. SUFFICES ASSUME NEW k \in 0 .. MaxBlocks - 1, k \in T PROVE k + 1 \in T
      OBVIOUS
    <3>2. k + 1 \in Indices /\ (k + 1) - 1 = k
      BY <1>2 DEF Indices
    <3>3. t[k + 1] = FreeTurn(t[k], d, i, k + 1)
      BY <1>3, <3>2
    <3>4. QED
      BY <3>1, <3>2, <3>3, FreeTurnKeeps
  <2> HIDE DEF T
  <2>3. \A k \in 0 .. MaxBlocks : k \in T
    BY <1>2, <2>1, <2>2, UpTo
  <2>4. MaxBlocks \in T
    BY <1>2, <2>3
  <2>5. QED
    BY <2>4 DEF T
<1>5. PICK s \in Read(d) :
        IF s.ok
        THEN o \in Then(t[MaxBlocks], LAMBDA f :
                   Then(fs_write_inode(f.disk, i, "free", NoBlocks), LAMBDA w :
                   Then(Read(w.disk), LAMBDA r :
                        Transfer(r.disk, [r.disk EXCEPT !.free_inodes = @ + 1]))))
        ELSE o = Failed(s.disk)
  BY <1>1 DEF Frees, Then, Each
<1>6. CASE ~ s.ok
  <2>1. Succeeds(s, d, 0) \/ Fails(s, Off(d))
    BY TransferIs DEF Read
  <2>2. s.disk = Off(d)
    BY <1>6, <2>1 DEF Succeeds, Fails
  <2>3. Released(d, i, Off(d)) /\ Off(d).power = "off"
    BY OffTyped DEF Released, Alike
  <2>4. QED
    BY <1>5, <1>6, <2>2, <2>3, Outcomes
<1>7. CASE s.ok
  <2>5. PICK f \in t[MaxBlocks] :
          IF f.ok
          THEN o \in Then(fs_write_inode(f.disk, i, "free", NoBlocks), LAMBDA w :
                     Then(Read(w.disk), LAMBDA r :
                          Transfer(r.disk, [r.disk EXCEPT !.free_inodes = @ + 1])))
          ELSE o = Failed(f.disk)
    BY <1>5, <1>7 DEF Then, Each
  <2>6. Released(d, i, f.disk) /\ (f.ok \/ f.disk.power = "off") /\ Typed(f.disk)
    BY <1>4 DEF Released
  <2>7. CASE ~ f.ok
    BY <2>5, <2>6, <2>7, Outcomes
  <2>8. CASE f.ok
    <3> DEFINE e == f.disk
               p == Put(e, i, "free", NoBlocks)
    <3>1. PICK w \in fs_write_inode(f.disk, i, "free", NoBlocks) :
            IF w.ok
            THEN o \in Then(Read(w.disk), LAMBDA r :
                          Transfer(r.disk, [r.disk EXCEPT !.free_inodes = @ + 1]))
            ELSE o = Failed(w.disk)
      BY <2>5, <2>8 DEF Then, Each
    <3>2. (Succeeds(w, p, 0) /\ e.power = "on") \/ Fails(w, Off(e))
      BY <2>6, WriteInode
    <3>3. Released(d, i, Off(e)) /\ Off(e).power = "off"
      BY <2>6, OffTyped DEF Released, Alike
    <3>4. CASE ~ w.ok
      BY <3>1, <3>2, <3>3, <3>4, Outcomes DEF Succeeds, Fails
    <3>5. CASE w.ok
      <4>1. w.disk = p /\ e.power = "on"
        BY <3>2, <3>5 DEF Succeeds, Fails
      <4>2. PICK r \in Read(w.disk) :
              IF r.ok THEN o \in Transfer(r.disk, [r.disk EXCEPT !.free_inodes = @ + 1])
              ELSE o = Failed(r.disk)
        BY <3>1, <3>5 DEF Then, Each
      <4>3. Typed(p)
        BY <2>6, PutTyped, NoBlocksTyped DEF Types
      <4>4. Succeeds(r, p, 0) \/ Fails(r, Off(p))
        BY <4>1, <4>3, TransferIs DEF Read
      <4>5. d.power = "on"
        BY <2>6, <4>1 DEF Released, Typed
      <4>6. CASE ~ r.ok
        BY <2>6, <4>2, <4>4, <4>5, <4>6, Outcomes DEF Succeeds, Fails
      <4>7. CASE r.ok
        <5>1. r.disk = p
          BY <4>4, <4>7 DEF Succeeds, Fails
        <5>2. [p EXCEPT !.free_inodes = @ + 1] = Freed(e, i)
          BY <2>6 DEF Put, Freed, Typed
        <5>3. Succeeds(o, Freed(e, i), 0) \/ Fails(o, Off(p))
          BY <4>2, <4>3, <4>7, <5>1, <5>2, TransferIs
        <5>4. QED
          BY <2>6, <4>5, <5>3
      <4>8. QED
        BY <4>6, <4>7
    <3>6. QED
      BY <3>4, <3>5
  <2>9. QED
    BY <2>7, <2>8
<1>8. QED
  BY <1>6, <1>7

-----------------------------------------------------------------------------
(* What a step does to the tree *)

\* What is entered in an inode's blocks.
Listing(d, i) ==
  {x \in Entry : \E b \in Owned(d, {i}) : \E s \in Slots : Filled(d, b, s) /\ At(d, b, s) = x}

\* Without holes that is all the code's walks over a directory see.
LEMMA EntriesAre ==
  ASSUME NEW d, Typed(d), NEW L, Good(d, L), NEW i \in L
  PROVE  Entries(d, i) = Listing(d, i)
<1>0. i \in Inodes /\ MaxBlocks \in Nat /\ NBlocks \in Nat
  BY DiskAssumption DEF Good, InUse
<1>1. \A k \in Indices : d.blocks[i][k] \in 0 .. NBlocks
  BY <1>0 DEF Typed
<1>2. \A b \in Blocks : \A s \in Slots : Filled(d, b, s) => At(d, b, s) \in Entry
  BY DEF Typed, Filled, At
<1>3. \A k \in Indices : k \in Assigned(d.blocks[i]) <=> d.blocks[i][k] # 0
  <2>1. TAKE k \in Indices
  <2>2. k \in 1 .. k /\ \A j \in 1 .. k : j = k \/ (j \in Indices /\ j < k)
    BY <1>0 DEF Indices
  <2>3. QED
    BY <2>2 DEF Assigned, Indices, Good, Listed
<1>4. \A b : b \in Owned(d, {i}) <=> \E k \in Assigned(d.blocks[i]) : b = d.blocks[i][k]
  <2>1. \A k \in Indices : d.blocks[i][k] # 0 => d.blocks[i][k] \in Blocks
    BY <1>0, <1>1 DEF Blocks
  <2>2. \A b \in Blocks : b # 0
    BY DEF Blocks
  <2>3. Assigned(d.blocks[i]) \subseteq Indices
    BY DEF Assigned, Indices
  <2>4. QED
    BY <1>3, <2>1, <2>2, <2>3 DEF Owned
<1>5. ASSUME NEW x \in Entries(d, i) PROVE x \in Listing(d, i)
  <2>1. PICK p \in Places(d, i) : d.entries[p[1]][p[2]] # NoEntry /\ x = d.entries[p[1]][p[2]]
    BY DEF Entries
  <2>2. PICK k \in Assigned(d.blocks[i]), s \in Slots : p = <<d.blocks[i][k], s>>
    BY DEF Places
  <2>3. d.blocks[i][k] \in Owned(d, {i}) /\ d.blocks[i][k] \in Blocks
    BY <1>4 DEF Owned
  <2>4. Filled(d, d.blocks[i][k], s) /\ At(d, d.blocks[i][k], s) = x
    BY <2>1, <2>2 DEF Filled, At
  <2>5. QED
    BY <1>2, <2>3, <2>4 DEF Listing
<1>6. ASSUME NEW x \in Listing(d, i) PROVE x \in Entries(d, i)
  <2>1. PICK b \in Owned(d, {i}), s \in Slots : Filled(d, b, s) /\ At(d, b, s) = x
    BY DEF Listing
  <2>2. PICK k \in Assigned(d.blocks[i]) : b = d.blocks[i][k]
    BY <1>4
  <2> DEFINE p == <<b, s>>
  <2>3. p \in Places(d, i)
    BY <2>2 DEF Places
  <2>4. d.entries[p[1]][p[2]] # NoEntry /\ x = d.entries[p[1]][p[2]]
    BY <2>1 DEF Filled, At
  <2>5. QED
    BY <2>3, <2>4 DEF Entries
<1>7. QED
  BY <1>5, <1>6

\* The members of L are what they were and list what they listed.
Unchanged(d, e, L) ==
  /\ Good(e, L)
  /\ \A i \in L : e.type[i] = d.type[i] /\ Listing(e, i) = Listing(d, i)

\* Inode i has become a member: it is empty, and directory dir names it.
Joined(d, e, L, dir, i, name) ==
  /\ Good(e, L \cup {i}) /\ Listing(e, i) = {}
  /\ \A j \in L :
       /\ e.type[j] = d.type[j]
       /\ Listing(e, j) = IF j = dir THEN Listing(d, j) \cup {[inode |-> i, name |-> name]}
                          ELSE Listing(d, j)

\* Member i is gone, and its name in dir with it.
Removed(d, e, L, dir, i, name) ==
  /\ i \in L \ {RootInode} /\ [inode |-> i, name |-> name] \in Listing(d, dir)
  /\ Good(e, L \ {i})
  /\ \A j \in L \ {i} :
       /\ e.type[j] = d.type[j]
       /\ Listing(e, j) = IF j = dir THEN Listing(d, j) \ {[inode |-> i, name |-> name]}
                          ELSE Listing(d, j)

\* A disk on which the members' inodes and blocks are the same.
LEMMA UnchangedIf ==
  ASSUME NEW d, Typed(d), NEW L, Good(d, L), NEW e, Typed(e),
         \A i \in L : e.type[i] = d.type[i] /\ e.blocks[i] = d.blocks[i],
         Owned(d, L) \subseteq e.used,
         \A b \in Owned(d, L) : e.entries[b] = d.entries[b]
  PROVE  Unchanged(d, e, L)
<1>1. \A b \in Owned(d, L) : \A s \in Slots :
        At(e, b, s) = At(d, b, s) /\ (Filled(e, b, s) <=> Filled(d, b, s))
  BY DEF At, Filled
<1>2. \A b \in Owned(d, L) : \A s \in Slots : Filled(e, b, s) => At(e, b, s).inode \in L
  BY <1>1 DEF Good, NamesOnce
<1>3. RootInode \in L
  BY DEF Good, InUse
<1>4. Good(e, L)
  BY <1>1, <1>2, <1>3, GoodKeeps
<1>5. ASSUME NEW i \in L PROVE Listing(e, i) = Listing(d, i)
  <2>1. Owned(e, {i}) = Owned(d, {i}) /\ Owned(d, {i}) \subseteq Owned(d, L)
    BY DEF Owned
  <2>2. ASSUME NEW x \in Entry, NEW b \in Owned(d, {i}), NEW s \in Slots
        PROVE  Filled(e, b, s) /\ At(e, b, s) = x <=> Filled(d, b, s) /\ At(d, b, s) = x
    BY <1>1, <2>1
  <2>3. \A x \in Entry : x \in Listing(e, i) <=> x \in Listing(d, i)
    BY <2>1, <2>2 DEF Listing
  <2>4. QED
    BY <2>3 DEF Listing
<1>6. QED
  BY <1>4, <1>5 DEF Unchanged

\* Two steps nobody sees are one.
LEMMA UnchangedTwice ==
  ASSUME NEW d, NEW e, NEW f, NEW L, Unchanged(d, e, L), Unchanged(e, f, L)
  PROVE  Unchanged(d, f, L)
  BY DEF Unchanged

\* Losing the power is not seen.
LEMMA UnchangedOff ==
  ASSUME NEW d, Typed(d), NEW L, Good(d, L)
  PROVE  Unchanged(d, d, L) /\ Unchanged(d, Off(d), L) /\ Typed(Off(d))
<1>1. Owned(d, L) \subseteq d.used
  BY DEF Good, Listed
<1>2. QED
  BY <1>1, OffTyped, UnchangedIf

\* A disk differs from one that Unchanged, Joined or Removed is about by the
\* power only.
LEMMA PowerGoes ==
  ASSUME NEW d, NEW e, Typed(e), NEW L
  PROVE  /\ Unchanged(d, e, L) => Unchanged(d, Off(e), L)
         /\ \A dir, i, n : Joined(d, e, L, dir, i, n) => Joined(d, Off(e), L, dir, i, n)
         /\ \A dir, i, n : Removed(d, e, L, dir, i, n) => Removed(d, Off(e), L, dir, i, n)
<1>1. \A M : Good(e, M) => Good(Off(e), M)
  BY UnchangedOff DEF Unchanged
<1>2. \A j : Listing(Off(e), j) = Listing(e, j)
  BY OffTyped DEF Listing, Owned, Filled, At
<1>3. Off(e).type = e.type
  BY OffTyped
<1>4. Unchanged(d, e, L) => Unchanged(d, Off(e), L)
  BY <1>1, <1>2, <1>3 DEF Unchanged
<1>5. ASSUME NEW dir, NEW i, NEW n, Joined(d, e, L, dir, i, n)
      PROVE  Joined(d, Off(e), L, dir, i, n)
  BY <1>1, <1>2, <1>3, <1>5 DEF Joined
<1>6. ASSUME NEW dir, NEW i, NEW n, Removed(d, e, L, dir, i, n)
      PROVE  Removed(d, Off(e), L, dir, i, n)
  BY <1>1, <1>2, <1>3, <1>6 DEF Removed
<1>7. QED
  BY <1>4, <1>5, <1>6

WithEntry(d, b, s, x) == [d EXCEPT !.entries[b][s] = x]

\* Writing an entry changes directory blocks only.
LEMMA WithEntryIs ==
  ASSUME NEW d, Typed(d), NEW b \in Blocks, NEW s \in Slots,
         NEW x, x \in Entry \/ x = NoEntry
  PROVE  /\ Typed(WithEntry(d, b, s, x))
         /\ WithEntry(d, b, s, x).used = d.used /\ WithEntry(d, b, s, x).type = d.type
         /\ WithEntry(d, b, s, x).blocks = d.blocks /\ WithEntry(d, b, s, x).power = d.power
         /\ WithEntry(d, b, s, x).free_inodes = d.free_inodes
  BY DEF Typed, WithEntry

\* One entry changes, and no other.
LEMMA WithEntryGains ==
  ASSUME NEW d, Typed(d), NEW b \in Blocks, NEW s \in Slots, NEW x
  PROVE  Gains(d, WithEntry(d, b, s, x), b, s, x)
<1> DEFINE e == WithEntry(d, b, s, x)
<1>1. /\ e.used = d.used /\ e.type = d.type /\ e.blocks = d.blocks
      /\ e.entries = [d.entries EXCEPT ![b][s] = x]
  BY DEF Typed, WithEntry
<1> HIDE DEF e
<1>2. ASSUME NEW c \in Blocks, NEW t \in Slots
      PROVE  At(e, c, t) = IF c = b /\ t = s THEN x ELSE At(d, c, t)
  BY <1>1 DEF Typed, At
<1>3. Gains(d, e, b, s, x)
  BY <1>1, <1>2 DEF Gains
<1>4. QED
  BY <1>3 DEF e

\* A fresh inode joins when an entry names it, and the tree shows just that.
LEMMA EntryJoins ==
  ASSUME NEW d, Typed(d), NEW L, Good(d, L), NEW i, Fresh(d, L, i),
         NEW dir \in L, d.type[dir] = "directory",
         NEW b \in Owned(d, {dir}), NEW s \in Slots, ~ Filled(d, b, s),
         NEW n \in Names, \A x \in Listing(d, dir) : x.name # n
  PROVE  Joined(d, WithEntry(d, b, s, [inode |-> i, name |-> n]), L, dir, i, n)
<1> DEFINE x == [inode |-> i, name |-> n]
           e == WithEntry(d, b, s, x)
<1>1. /\ x \in Entry /\ b \in Blocks /\ x # NoEntry /\ b \in Owned(d, L)
      /\ i \in Inodes /\ i \notin L /\ i # RootInode
  BY DEF Entry, Owned, NoEntry, Fresh, Good, InUse, RootInode
<1>2. /\ Typed(e) /\ e.blocks = d.blocks /\ e.type = d.type /\ e.used = d.used
      /\ Gains(d, e, b, s, x)
      /\ \A c \in Blocks : \A t \in Slots :
           At(e, c, t) = IF c = b /\ t = s THEN x ELSE At(d, c, t)
  <2>1. Typed(e)
    BY <1>1, WithEntryIs
  <2>2. Gains(d, e, b, s, x)
    BY <1>1, WithEntryGains
  <2>3. QED
    BY <2>1, <2>2 DEF Gains
<1>3. \A c \in Blocks : \A t \in Slots : Filled(d, c, t) => At(d, c, t) \in Entry
  BY DEF Typed, Filled, At
<1>4. \A c \in Owned(d, {dir}) : \A t \in Slots : Filled(d, c, t) => At(d, c, t).name # n
  BY <1>3 DEF Listing, Owned
<1>5. Good(e, L \cup {i})
  <2>1. x.inode = i /\ x.name = n
    OBVIOUS
  <2> HIDE DEF e, x
  <2>3. Gains(d, e, b, s, x)
    BY <1>2
  <2>4. NameFree(d, dir, x.name)
    BY <1>4, <2>1 DEF NameFree
  <2>2. QED
    BY <1>2, <1>4, <2>1, <2>3, <2>4, GoodJoins
<1> HIDE DEF e, x
<1>6. \A c \in Blocks : \A t \in Slots :
        /\ ~ (c = b /\ t = s) => At(e, c, t) = At(d, c, t) /\ (Filled(e, c, t) <=> Filled(d, c, t))
        /\ c = b /\ t = s => At(e, c, t) = x /\ Filled(e, c, t)
  <2>1. TAKE c \in Blocks
  <2>3. TAKE t \in Slots
  <2>2. At(e, c, t) = IF c = b /\ t = s THEN x ELSE At(d, c, t)
    BY <1>2
  <2>4. QED
    BY <1>1, <2>2 DEF Filled
<1>7. \A j : Owned(e, {j}) = Owned(d, {j}) /\ Owned(d, {j}) \subseteq Blocks
  BY <1>2 DEF Owned
<1>8. \A j \in L \cup {i} : b \in Owned(d, {j}) => j = dir
  <2>1. TAKE j \in L \cup {i}
  <2>2. HAVE b \in Owned(d, {j})
  <2>3. j \in L
    BY <1>1, <2>2 DEF Fresh
  <2>4. PICK k \in Indices, l \in Indices : d.blocks[j][k] = b /\ d.blocks[dir][l] = b
    BY <2>2 DEF Owned
  <2>5. b # 0
    BY <1>1 DEF Blocks
  <2>6. QED
    BY <2>3, <2>4, <2>5 DEF Good, Listed
<1>9. ASSUME NEW j \in L \cup {i}, j # dir PROVE Listing(e, j) = Listing(d, j)
  <2>1. b \notin Owned(d, {j})
    BY <1>8, <1>9
  <2>2. ASSUME NEW y \in Entry, NEW c \in Owned(d, {j}), NEW t \in Slots
        PROVE  Filled(e, c, t) /\ At(e, c, t) = y <=> Filled(d, c, t) /\ At(d, c, t) = y
    <3>1. c \in Blocks /\ c # b
      BY <1>7, <2>1
    <3>2. QED
      BY <1>6, <3>1
  <2>3. \A y \in Entry : y \in Listing(e, j) <=> y \in Listing(d, j)
    BY <1>7, <2>2 DEF Listing
  <2>4. QED
    BY <2>3 DEF Listing
<1>10. Listing(e, dir) = Listing(d, dir) \cup {x}
  <2>1. ASSUME NEW y \in Listing(e, dir) PROVE y \in Listing(d, dir) \cup {x}
    <3>1. PICK c \in Owned(d, {dir}), t \in Slots : Filled(e, c, t) /\ At(e, c, t) = y
      BY <1>7 DEF Listing
    <3>2. CASE c = b /\ t = s
      BY <1>1, <1>6, <3>1, <3>2
    <3>3. CASE ~ (c = b /\ t = s)
      <4>1. c \in Blocks
        BY <1>7
      <4>2. Filled(d, c, t) /\ At(d, c, t) = y
        BY <1>6, <3>1, <3>3, <4>1
      <4>3. y \in Entry
        BY DEF Listing
      <4>4. QED
        BY <4>2, <4>3 DEF Listing
    <3>4. QED
      BY <3>2, <3>3
  <2>2. x \in Listing(e, dir)
    BY <1>1, <1>6, <1>7 DEF Listing
  <2>3. ASSUME NEW y \in Listing(d, dir) PROVE y \in Listing(e, dir)
    <3>1. PICK c \in Owned(d, {dir}), t \in Slots : Filled(d, c, t) /\ At(d, c, t) = y
      BY DEF Listing
    <3>2. ~ (c = b /\ t = s) /\ c \in Blocks /\ y \in Entry
      BY <1>7, <3>1 DEF Listing
    <3>3. Filled(e, c, t) /\ At(e, c, t) = y
      BY <1>6, <3>1, <3>2
    <3>4. QED
      BY <1>7, <3>2, <3>3 DEF Listing
  <2>4. QED
    BY <2>1, <2>2, <2>3
<1>11. Listing(d, i) = {}
  BY DEF Listing, Fresh
<1>12. Joined(d, e, L, dir, i, n)
  <2>1. Listing(e, i) = {}
    BY <1>1, <1>9, <1>11
  <2>2. QED
    BY <1>1, <1>2, <1>5, <1>9, <1>10, <2>1 DEF Joined, x
<1>13. QED
  BY <1>12 DEF e, x

\* A member that takes blocks without entries shows what it showed.
LEMMA GrowthUnseen ==
  ASSUME NEW d, Typed(d), NEW L, Good(d, L), NEW e, Typed(e), Good(e, L), NEW i \in L,
         \A j \in L : e.type[j] = d.type[j],
         \A j \in L : j # i => e.blocks[j] = d.blocks[j],
         \A k \in Indices : \/ e.blocks[i][k] = d.blocks[i][k]
                            \/ /\ d.blocks[i][k] = 0
                               /\ \A s \in Slots : ~ Filled(e, e.blocks[i][k], s),
         \A b \in Owned(d, L) : \A s \in Slots :
           At(e, b, s) = At(d, b, s) \/ (d.type[i] # "directory" /\ b \in Owned(d, {i}) /\ ~ Filled(e, b, s))
  PROVE  Unchanged(d, e, L)
<1>1. \A b \in Owned(d, {i}) : b \in Owned(e, {i})
  <2>1. TAKE b \in Owned(d, {i})
  <2>2. PICK k \in Indices : d.blocks[i][k] = b
    BY DEF Owned
  <2>3. b \in Blocks /\ b # 0
    BY DEF Owned, Blocks
  <2>4. e.blocks[i][k] = b
    BY <2>2, <2>3
  <2>5. QED
    BY <2>3, <2>4 DEF Owned
<1>2. \A b \in Owned(e, {i}) : b \in Owned(d, {i}) \/ \A s \in Slots : ~ Filled(e, b, s)
  BY DEF Owned
<1>3. \A j \in L : Owned(d, {j}) \subseteq Owned(d, L) /\ (j # i => Owned(e, {j}) = Owned(d, {j}))
  BY DEF Owned
<1>4. ASSUME NEW j \in L, d.type[j] # "directory" PROVE Listing(e, j) = Listing(d, j)
  BY <1>4 DEF Good, OnlyDirectories, Listing
<1>5. ASSUME NEW j \in L, d.type[j] = "directory" PROVE Listing(e, j) = Listing(d, j)
  <2>1. ASSUME NEW b \in Owned(d, {j}), NEW s \in Slots
        PROVE  At(e, b, s) = At(d, b, s)
    <3>1. b \in Owned(d, L)
      BY <1>3
    <3>2. CASE b \in Owned(d, {i}) /\ d.type[i] # "directory"
      <4>1. PICK k \in Indices, l \in Indices : d.blocks[i][k] = b /\ d.blocks[j][l] = b
        BY <3>2 DEF Owned
      <4>2. b # 0
        BY <3>1 DEF Owned, Blocks
      <4>3. i = j
        BY <4>1, <4>2 DEF Good, Listed
      <4>4. QED
        BY <1>5, <3>2, <4>3
    <3>3. QED
      BY <3>1, <3>2
  <2>2. \A b \in Owned(d, {j}) : \A s \in Slots : Filled(e, b, s) <=> Filled(d, b, s)
    BY <2>1 DEF Filled
  <2>3. \A b \in Owned(d, {j}) : b \in Owned(e, {j})
    BY <1>1, <1>3
  <2>4. \A b \in Owned(e, {j}) : \A s \in Slots : Filled(e, b, s) => b \in Owned(d, {j})
    BY <1>2, <1>3
  <2>5. \A y \in Entry : y \in Listing(e, j) <=> y \in Listing(d, j)
    BY <2>1, <2>2, <2>3, <2>4 DEF Listing
  <2>6. QED
    BY <2>5 DEF Listing
<1>6. QED
  BY <1>4, <1>5 DEF Unchanged

-----------------------------------------------------------------------------
(* Adding an entry *)

\* PutEntry writes the entry and the inode, or the power goes before, or in between.
LEMMA PutEntryIs ==
  ASSUME NEW d, Typed(d), NEW dir \in Inodes, NEW blocks, NEW k, NEW s \in Slots,
         blocks[k] \in Blocks, NEW x \in Entry, NEW o \in PutEntry(d, dir, blocks, k, s, x)
  PROVE  \/ Fails(o, Off(d))
         \/ Fails(o, Off(WithEntry(d, blocks[k], s, x)))
         \/ /\ Succeeds(o, Put(WithEntry(d, blocks[k], s, x), dir, d.type[dir], blocks), 0)
            /\ d.power = "on"
<1> DEFINE e == WithEntry(d, blocks[k], s, x)
<1>1. PICK r \in Read(d) :
        IF r.ok
        THEN o \in Then(Transfer(r.disk, [r.disk EXCEPT !.entries[blocks[k]][s] = x]), LAMBDA w :
                        fs_write_inode(w.disk, dir, w.disk.type[dir], blocks))
        ELSE o = Failed(r.disk)
  BY DEF PutEntry, Then, Each
<1>2. Succeeds(r, d, 0) \/ Fails(r, Off(d))
  BY TransferIs DEF Read
<1>3. CASE ~ r.ok
  BY <1>1, <1>2, <1>3, Outcomes DEF Succeeds, Fails
<1>4. CASE r.ok
  <2>1. r.disk = d
    BY <1>2, <1>4 DEF Succeeds, Fails
  <2>2. PICK w \in Transfer(r.disk, [r.disk EXCEPT !.entries[blocks[k]][s] = x]) :
          IF w.ok THEN o \in fs_write_inode(w.disk, dir, w.disk.type[dir], blocks)
          ELSE o = Failed(w.disk)
    BY <1>1, <1>4 DEF Then, Each
  <2>3. (Succeeds(w, e, 0) /\ d.power = "on") \/ Fails(w, Off(d))
    BY <2>1, TransferIs DEF WithEntry
  <2>4. Typed(e) /\ e.type = d.type
    <3> DEFINE b == blocks[k]
    <3>1. b \in Blocks /\ e = WithEntry(d, b, s, x)
      OBVIOUS
    <3> HIDE DEF b, e
    <3>2. Typed(WithEntry(d, b, s, x)) /\ WithEntry(d, b, s, x).type = d.type
      BY <3>1, WithEntryIs
    <3>3. QED
      BY <3>1, <3>2
  <2> HIDE DEF e
  <2>5. CASE ~ w.ok
    BY <2>2, <2>3, <2>5, Outcomes DEF Succeeds, Fails
  <2>6. CASE w.ok
    <3>1. w.disk = e /\ d.power = "on"
      BY <2>3, <2>6 DEF Succeeds, Fails
    <3>2. o \in fs_write_inode(e, dir, d.type[dir], blocks)
      BY <2>2, <2>4, <2>6, <3>1
    <3>3. Succeeds(o, Put(e, dir, d.type[dir], blocks), 0) \/ Fails(o, Off(e))
      BY <2>4, <3>2, WriteInode
    <3>4. QED
      BY <3>1, <3>3 DEF e
  <2>7. QED
    BY <2>5, <2>6
<1>5. QED
  BY <1>3, <1>4

\* What is left of the disk when an entry was to be added.
Added(o, d, L, dir, i, n) ==
  /\ Typed(o.disk) /\ o.disk.type = d.type /\ o.disk.free_inodes = d.free_inodes
  /\ o.disk.power = "on" => d.power = "on"
  /\ \/ o.ok /\ Joined(d, o.disk, L, dir, i, n)
     \/ /\ ~ o.ok /\ o.disk.power = "off"
        /\ Unchanged(d, o.disk, L) \/ Joined(d, o.disk, L, dir, i, n)
     \/ ~ o.ok /\ o.disk = d

\* The entry goes into a block the directory has.
LEMMA AddToBlock ==
  ASSUME NEW d, Typed(d), NEW L, Good(d, L), NEW i, Fresh(d, L, i),
         NEW dir \in L, d.type[dir] = "directory",
         NEW n \in Names, \A x \in Listing(d, dir) : x.name # n,
         NEW k \in Indices, d.blocks[dir][k] # 0,
         NEW s \in Slots, ~ Filled(d, d.blocks[dir][k], s),
         NEW o \in PutEntry(d, dir, d.blocks[dir], k, s, [inode |-> i, name |-> n])
  PROVE  Added(o, d, L, dir, i, n)
<1> DEFINE b == d.blocks[dir][k]
           x == [inode |-> i, name |-> n]
           e == WithEntry(d, b, s, x)
<1>1. dir \in Inodes /\ i \in Inodes
  BY DEF Good, InUse, Fresh
<1>2. b \in Blocks /\ b \in Owned(d, {dir}) /\ x \in Entry
  <2>1. b \in 0 .. NBlocks
    BY <1>1 DEF Typed
  <2>2. b \in Blocks
    BY <2>1, DiskAssumption DEF Blocks
  <2>3. QED
    BY <1>1, <2>2 DEF Owned, Entry
<1>3. Joined(d, e, L, dir, i, n)
  BY <1>2, EntryJoins
<1>4. /\ Typed(e) /\ e.type = d.type /\ e.blocks = d.blocks /\ e.power = d.power
      /\ e.free_inodes = d.free_inodes
  <2> HIDE DEF b, x
  <2>1. QED
    BY <1>2, WithEntryIs
<1>5. \/ Fails(o, Off(d)) \/ Fails(o, Off(e))
      \/ Succeeds(o, Put(e, dir, d.type[dir], d.blocks[dir]), 0) /\ d.power = "on"
  <2> DEFINE bs == d.blocks[dir]
  <2>1. o \in PutEntry(d, dir, bs, k, s, x) /\ bs[k] = b
    OBVIOUS
  <2>2. \/ Fails(o, Off(d)) \/ Fails(o, Off(WithEntry(d, bs[k], s, x)))
        \/ Succeeds(o, Put(WithEntry(d, bs[k], s, x), dir, d.type[dir], bs), 0) /\ d.power = "on"
    <3> HIDE DEF bs, x, b
    <3>1. QED
      BY <1>1, <1>2, <2>1, PutEntryIs
  <2>3. QED
    BY <2>2
<1> HIDE DEF b, x, e
<1>6. Put(e, dir, d.type[dir], d.blocks[dir]) = e
  <2>1. Put(e, dir, e.type[dir], e.blocks[dir]) = e
    BY <1>1, <1>4 DEF Put, Typed
  <2>2. QED
    BY <1>4, <2>1
<1>7. CASE Fails(o, Off(d))
  <2>1. Unchanged(d, Off(d), L) /\ Typed(Off(d))
    BY UnchangedOff
  <2>2. QED
    BY <1>7, <2>1, OffTyped DEF Fails, Added
<1>8. CASE Fails(o, Off(e))
  BY <1>3, <1>4, <1>8, OffTyped, PowerGoes DEF Fails, Added
<1>9. CASE Succeeds(o, e, 0) /\ d.power = "on"
  BY <1>3, <1>4, <1>9 DEF Succeeds, Added
<1>10. QED
  BY <1>5, <1>6, <1>7, <1>8, <1>9

WithEmpty(d, b) == [d EXCEPT !.entries[b] = EmptyBlock]

\* Zeroing a block changes that block only.
LEMMA WithEmptyIs ==
  ASSUME NEW d, Typed(d), NEW b \in Blocks
  PROVE  /\ Typed(WithEmpty(d, b))
         /\ WithEmpty(d, b).used = d.used /\ WithEmpty(d, b).type = d.type
         /\ WithEmpty(d, b).blocks = d.blocks /\ WithEmpty(d, b).power = d.power
         /\ WithEmpty(d, b).free_inodes = d.free_inodes
         /\ \A s \in Slots : ~ Filled(WithEmpty(d, b), b, s)
         /\ \A c \in Blocks : c # b => WithEmpty(d, b).entries[c] = d.entries[c]
<1>1. EmptyBlock \in [Slots -> Entry \cup {NoEntry}] /\ \A s \in Slots : EmptyBlock[s] = NoEntry
  BY DEF EmptyBlock
<1>2. /\ Typed(WithEmpty(d, b))
      /\ WithEmpty(d, b).entries = [d.entries EXCEPT ![b] = EmptyBlock]
      /\ WithEmpty(d, b).used = d.used /\ WithEmpty(d, b).type = d.type
      /\ WithEmpty(d, b).blocks = d.blocks /\ WithEmpty(d, b).power = d.power
      /\ WithEmpty(d, b).free_inodes = d.free_inodes
  BY <1>1 DEF Typed, WithEmpty
<1>3. \A c \in Blocks : WithEmpty(d, b).entries[c] = IF c = b THEN EmptyBlock ELSE d.entries[c]
  BY <1>2 DEF Typed
<1>4. QED
  BY <1>1, <1>2, <1>3 DEF Filled, At

\* What a block not marked on disk d cannot be.
LEMMA UnmarkedUnowned ==
  ASSUME NEW d, NEW L, Good(d, L), NEW b, b \notin d.used
  PROVE  b \notin Owned(d, L)
  BY DEF Good, Listed

\* A step nobody sees, then a new member.
LEMMA UnchangedJoined ==
  ASSUME NEW d, NEW e, NEW f, NEW L, Unchanged(d, e, L), NEW dir \in L, NEW i, NEW n,
         Joined(e, f, L, dir, i, n)
  PROVE  Joined(d, f, L, dir, i, n)
  BY DEF Unchanged, Joined

\* A directory with a block more, and the entry in it.
WithBlock(d, dir, k, b) ==
  Put(WithEmpty(Taken(d, b), b), dir, d.type[dir], [d.blocks[dir] EXCEPT ![k] = b])

\* An entry in a block the directory did not have makes its inode a member.
LEMMA NewBlockJoins ==
  ASSUME NEW d, Typed(d), NEW L, Good(d, L), NEW i, Fresh(d, L, i),
         NEW dir \in L, d.type[dir] = "directory",
         NEW n \in Names, \A x \in Listing(d, dir) : x.name # n,
         NEW k \in Indices, d.blocks[dir][k] = 0, \A l \in Indices : l < k => d.blocks[dir][l] # 0,
         NEW b \in Blocks \ d.used,
         NEW f, f = WithEntry(WithBlock(d, dir, k, b), b, 1, [inode |-> i, name |-> n])
  PROVE  /\ Joined(d, f, L, dir, i, n)
         /\ Typed(f) /\ f.type = d.type /\ f.free_inodes = d.free_inodes /\ f.power = d.power
         /\ f.used = d.used \cup {b} /\ \A c \in Blocks : c # b => f.entries[c] = d.entries[c]
<1> DEFINE x  == [inode |-> i, name |-> n]
           z  == WithEmpty(Taken(d, b), b)
           bs == [d.blocks[dir] EXCEPT ![k] = b]
           g  == Put(z, dir, d.type[dir], bs)
<1>0. f = WithEntry(g, b, 1, x)
  BY DEF WithBlock
<1> HIDE DEF x
<1>1. /\ dir \in Inodes /\ i \in Inodes /\ i # dir /\ i \notin L /\ L \subseteq Inodes
      /\ x \in Entry /\ 1 \in Slots /\ b # 0 /\ b \in 0 .. NBlocks
  BY DiskAssumption DEF Good, InUse, Fresh, Entry, Slots, Blocks, x
<1>2. b \notin Owned(d, L) /\ b \notin Owned(d, {i})
  BY DEF Good, Listed, Fresh
<1>3. bs \in [Indices -> 0 .. NBlocks] /\ bs[k] = b /\ \A l \in Indices : l # k => bs[l] = d.blocks[dir][l]
  BY <1>1 DEF Typed
<1>5. /\ Typed(z) /\ z.used = d.used \cup {b} /\ z.type = d.type /\ z.blocks = d.blocks
      /\ z.power = d.power /\ z.free_inodes = d.free_inodes
      /\ \A s \in Slots : ~ Filled(z, b, s)
      /\ \A c \in Blocks : c # b => z.entries[c] = d.entries[c]
  <2>1. /\ Typed(Taken(d, b)) /\ Taken(d, b).used = d.used \cup {b} /\ Taken(d, b).power = d.power
        /\ Alike(d, Taken(d, b))
    BY BitmapChanges
  <2>2. QED
    BY <2>1, WithEmptyIs DEF Alike
<1> HIDE DEF z, bs
<1>6. Unchanged(d, z, L)
  <2>1. Owned(d, L) \subseteq z.used /\ \A c \in Owned(d, L) : c \in Blocks /\ c # b
    BY <1>2, <1>5 DEF Good, Listed, Owned
  <2>2. QED
    BY <1>5, <2>1, UnchangedIf
<1>7. Good(z, L)
  BY <1>6 DEF Unchanged
<1>8. Owned(z, L) = Owned(d, L) /\ Owned(z, {i}) = Owned(d, {i})
  BY <1>5 DEF Owned
<1>10. d.type[dir] \in Types
  BY <1>1 DEF Typed
<1>11. /\ Typed(g) /\ g.type = d.type /\ g.used = z.used /\ g.entries = z.entries
       /\ g.free_inodes = z.free_inodes /\ g.power = z.power
       /\ g.blocks[dir] = bs /\ \A j \in Inodes : j # dir => g.blocks[j] = d.blocks[j]
  <2>1. /\ Typed(g) /\ g.type = [z.type EXCEPT ![dir] = d.type[dir]]
        /\ g.blocks = [z.blocks EXCEPT ![dir] = bs]
        /\ g.used = z.used /\ g.entries = z.entries /\ g.power = z.power
    BY <1>1, <1>3, <1>5, <1>10, PutTyped
  <2>2. g.free_inodes = z.free_inodes
    BY <1>5 DEF Typed, Put
  <2>3. g.type = d.type
    BY <1>1, <1>5, <2>1 DEF Typed
  <2>4. \A j \in Inodes : g.blocks[j] = IF j = dir THEN bs ELSE d.blocks[j]
    BY <1>1, <1>5, <2>1 DEF Typed
  <2>5. QED
    BY <1>1, <2>1, <2>2, <2>3, <2>4
<1> HIDE DEF g
<1>13. /\ \A j \in L : g.type[j] = z.type[j]
       /\ \A j \in L : j # dir => g.blocks[j] = z.blocks[j]
       /\ \A l \in Indices : \/ g.blocks[dir][l] = z.blocks[dir][l]
                             \/ /\ z.blocks[dir][l] = 0
                                /\ g.blocks[dir][l] \in Blocks \ Owned(z, L)
                                /\ \A s \in Slots : ~ Filled(g, g.blocks[dir][l], s)
       /\ \A c \in Owned(z, L) : \A s \in Slots : At(g, c, s) = At(z, c, s)
  <2>1. \A c : \A s \in Slots : At(g, c, s) = At(z, c, s) /\ (Filled(g, c, s) <=> Filled(z, c, s))
    BY <1>11 DEF At, Filled
  <2>2. QED
    BY <1>1, <1>2, <1>3, <1>5, <1>8, <1>11, <2>1
<1>14. Owned(g, L) = Owned(d, L) \cup {b} /\ Owned(g, {i}) = Owned(d, {i})
  <2>1. \A j \in L : \A l \in Indices : g.blocks[j][l] = IF j = dir /\ l = k THEN b ELSE d.blocks[j][l]
    BY <1>1, <1>3, <1>11
  <2>2. \A c \in Blocks : c # 0
    BY DEF Blocks
  <2>3. Owned(g, L) = Owned(d, L) \cup {b}
    BY <2>1, <2>2 DEF Owned
  <2>4. Owned(g, {i}) = Owned(d, {i})
    BY <1>1, <1>11 DEF Owned
  <2>5. QED
    BY <2>3, <2>4
<1>15. Good(g, L)
  <2>1. Owned(g, L) \subseteq g.used
    BY <1>5, <1>11, <1>14 DEF Good, Listed
  <2>2. \A l, m \in Indices : g.blocks[dir][l] # 0 /\ g.blocks[dir][l] = g.blocks[dir][m] => l = m
    <3>1. \A l, m \in Indices : d.blocks[dir][l] # 0 /\ d.blocks[dir][l] = d.blocks[dir][m] => l = m
      BY DEF Good, Listed
    <3>2. \A l \in Indices : d.blocks[dir][l] # b
      BY <1>2 DEF Owned
    <3>3. QED
      BY <1>3, <1>11, <3>1, <3>2
  <2>3. \A l, m \in Indices : g.blocks[dir][l] # 0 /\ m < l => g.blocks[dir][m] # 0
    <3>1. \A l, m \in Indices : d.blocks[dir][l] # 0 /\ m < l => d.blocks[dir][m] # 0
      BY DEF Good, Listed
    <3>2. QED
      BY <1>1, <1>3, <1>11, <3>1
  <2>4. \A c \in Owned(z, L) : \A s \in Slots : Filled(g, c, s) => At(g, c, s) = At(z, c, s)
    BY <1>13
  <2>5. QED
    BY <1>5, <1>7, <1>11, <1>13, <2>1, <2>2, <2>3, <2>4, GoodGrows
<1>16. Unchanged(z, g, L)
  <2>1. \A l \in Indices : \/ g.blocks[dir][l] = z.blocks[dir][l]
                           \/ /\ z.blocks[dir][l] = 0
                              /\ \A s \in Slots : ~ Filled(g, g.blocks[dir][l], s)
    BY <1>13
  <2>2. \A c \in Owned(z, L) : \A s \in Slots :
          At(g, c, s) = At(z, c, s)
            \/ (z.type[dir] # "directory" /\ c \in Owned(z, {dir}) /\ ~ Filled(g, c, s))
    BY <1>13
  <2>3. /\ \A j \in L : g.type[j] = z.type[j]
        /\ \A j \in L : j # dir => g.blocks[j] = z.blocks[j]
    BY <1>13
  <2>4. Typed(z) /\ Typed(g)
    BY <1>5, <1>11
  <2>5. QED
    BY <1>7, <1>15, <2>1, <2>2, <2>3, <2>4, GrowthUnseen
<1>17. Unchanged(d, g, L)
  BY <1>6, <1>16, UnchangedTwice
<1>18. Fresh(g, L, i)
  <2>1. g.type[i] # "free" /\ g.blocks[i] = d.blocks[i]
    BY <1>1, <1>11 DEF Fresh
  <2>2. \A c \in Owned(d, {i}) : c \in Blocks /\ c # b
    BY <1>2 DEF Owned
  <2>3. \A c \in Owned(d, {i}) : \A s \in Slots : ~ Filled(g, c, s)
    <3>1. \A c \in Owned(d, {i}) : g.entries[c] = d.entries[c]
      BY <1>5, <1>11, <2>2
    <3>2. \A c \in Owned(d, {i}) : \A s \in Slots : ~ Filled(d, c, s)
      BY DEF Fresh
    <3>3. QED
      BY <3>1, <3>2 DEF Filled, At
  <2>4. Owned(g, {i}) \subseteq g.used /\ Owned(g, {i}) \cap Owned(g, L) = {}
    BY <1>2, <1>5, <1>11, <1>14 DEF Fresh
  <2>5. QED
    BY <1>1, <1>14, <2>1, <2>3, <2>4 DEF Fresh
<1>19. Joined(g, f, L, dir, i, n)
  <2>1. b \in Owned(g, {dir})
    BY <1>3, <1>11 DEF Owned
  <2>2. ~ Filled(g, b, 1)
    BY <1>1, <1>5, <1>11 DEF Filled, At
  <2>3. \A y \in Listing(g, dir) : y.name # n
    BY <1>17 DEF Unchanged
  <2>4. Joined(g, WithEntry(g, b, 1, [inode |-> i, name |-> n]), L, dir, i, n)
    BY <1>1, <1>11, <1>15, <1>18, <2>1, <2>2, <2>3, EntryJoins
  <2>5. QED
    BY <1>0, <2>4 DEF x
<1>20. Joined(d, f, L, dir, i, n)
  BY <1>17, <1>19, UnchangedJoined
<1>21. /\ Typed(f) /\ f.type = d.type /\ f.free_inodes = d.free_inodes /\ f.power = d.power
       /\ f.used = d.used \cup {b}
  BY <1>0, <1>1, <1>5, <1>11, WithEntryIs
<1>22. \A c \in Blocks : c # b => f.entries[c] = d.entries[c]
  <2>1. \A c \in Blocks : c # b => f.entries[c] = g.entries[c]
    BY <1>0, <1>1, <1>11 DEF Typed, WithEntry
  <2>2. QED
    BY <1>5, <1>11, <2>1
<1>23. QED
  BY <1>20, <1>21, <1>22


\* The entry goes into a block the directory is given.
LEMMA AddNewBlock ==
  ASSUME NEW d, Typed(d), NEW L, Good(d, L), NEW i, Fresh(d, L, i),
         NEW dir \in L, d.type[dir] = "directory",
         NEW n \in Names, \A x \in Listing(d, dir) : x.name # n,
         NEW k \in Indices, d.blocks[dir][k] = 0, \A l \in Indices : l < k => d.blocks[dir][l] # 0,
         NEW b \in Blocks \ d.used,
         NEW o \in PutEntry(WithEmpty(Taken(d, b), b), dir, [d.blocks[dir] EXCEPT ![k] = b], k, 1,
                            [inode |-> i, name |-> n]),
         d.power = "on"
  PROVE  Added(o, d, L, dir, i, n)
<1> DEFINE x  == [inode |-> i, name |-> n]
           z  == WithEmpty(Taken(d, b), b)
           bs == [d.blocks[dir] EXCEPT ![k] = b]
           w  == WithEntry(z, b, 1, x)
           f  == WithEntry(WithBlock(d, dir, k, b), b, 1, x)
<1>1. /\ dir \in Inodes /\ i \in Inodes /\ i # dir /\ i \notin L /\ L \subseteq Inodes
      /\ x \in Entry /\ 1 \in Slots /\ b # 0 /\ b \in 0 .. NBlocks
  BY DiskAssumption DEF Good, InUse, Fresh, Entry, Slots, Blocks
<1>2. b \notin Owned(d, L) /\ b \notin Owned(d, {i})
  BY DEF Good, Listed, Fresh
<1>3. bs \in [Indices -> 0 .. NBlocks] /\ bs[k] = b /\ \A l \in Indices : l # k => bs[l] = d.blocks[dir][l]
  BY <1>1 DEF Typed
<1>4. o \in PutEntry(z, dir, bs, k, 1, x)
  OBVIOUS
<1>5. /\ Typed(z) /\ z.used = d.used \cup {b} /\ z.type = d.type /\ z.blocks = d.blocks
      /\ z.power = "on" /\ z.free_inodes = d.free_inodes
      /\ \A s \in Slots : ~ Filled(z, b, s)
      /\ \A c \in Blocks : c # b => z.entries[c] = d.entries[c]
  <2>1. /\ Typed(Taken(d, b)) /\ Taken(d, b).used = d.used \cup {b} /\ Taken(d, b).power = "on"
        /\ Alike(d, Taken(d, b))
    BY BitmapChanges
  <2>2. QED
    BY <2>1, WithEmptyIs DEF Alike
<1>11. f = WithEntry(Put(z, dir, d.type[dir], bs), b, 1, x)
  BY DEF WithBlock
<1> HIDE DEF f
<1>20. Joined(d, f, L, dir, i, n) /\ Typed(f) /\ f.type = d.type /\ f.free_inodes = d.free_inodes
  BY NewBlockJoins DEF f
<1> HIDE DEF x, z, bs
<1>6. Unchanged(d, z, L)
  <2>1. Owned(d, L) \subseteq z.used /\ \A c \in Owned(d, L) : c \in Blocks /\ c # b
    BY <1>2, <1>5 DEF Good, Listed, Owned
  <2>2. QED
    BY <1>5, <2>1, UnchangedIf
<1>7. Good(z, L)
  BY <1>6 DEF Unchanged
<1>8. Owned(z, L) = Owned(d, L) /\ Owned(z, {i}) = Owned(d, {i})
  BY <1>5 DEF Owned
<1>9. /\ Typed(w) /\ w.type = d.type /\ w.free_inodes = d.free_inodes
      /\ Unchanged(z, w, L)
  <2>1. /\ Typed(w) /\ w.used = z.used /\ w.type = z.type /\ w.blocks = z.blocks
        /\ w.free_inodes = z.free_inodes
    BY <1>1, <1>5, WithEntryIs
  <2>2. \A c \in Owned(z, L) : w.entries[c] = z.entries[c]
    <3>1. \A c \in Blocks : c # b => w.entries[c] = z.entries[c]
      BY <1>5 DEF Typed, WithEntry
    <3>2. QED
      BY <1>2, <1>8, <3>1 DEF Owned
  <2>3. Owned(z, L) \subseteq w.used
    BY <1>7, <2>1 DEF Good, Listed
  <2> HIDE DEF w
  <2>4. QED
    BY <1>5, <1>7, <2>1, <2>2, <2>3, UnchangedIf
<1>10. d.type[dir] \in Types
  BY <1>1 DEF Typed
<1>12. f = Put(w, dir, d.type[dir], bs)
  BY <1>5, <1>11 DEF Put, WithEntry, Typed
<1>22. Fails(o, Off(z)) \/ Fails(o, Off(w)) \/ Succeeds(o, f, 0)
  <2>1. \/ Fails(o, Off(z))
        \/ Fails(o, Off(WithEntry(z, bs[k], 1, x)))
        \/ Succeeds(o, Put(WithEntry(z, bs[k], 1, x), dir, z.type[dir], bs), 0)
    BY <1>1, <1>3, <1>4, <1>5, PutEntryIs
  <2>2. QED
    BY <1>3, <1>5, <1>12, <2>1
<1> HIDE DEF w
<1>23. Unchanged(d, Off(z), L) /\ Typed(Off(z)) /\ Off(z).power = "off" /\ Off(z).type = d.type
       /\ Off(z).free_inodes = d.free_inodes
  BY <1>5, <1>6, OffTyped, PowerGoes
<1>24. Unchanged(d, Off(w), L) /\ Typed(Off(w)) /\ Off(w).power = "off" /\ Off(w).type = d.type
       /\ Off(w).free_inodes = d.free_inodes
  <2>1. Unchanged(d, w, L)
    BY <1>6, <1>9, UnchangedTwice
  <2>2. QED
    BY <1>9, <2>1, OffTyped, PowerGoes
<1>25. QED
  BY <1>20, <1>22, <1>23, <1>24 DEF Succeeds, Fails, Added

\* Adding an entry ends early: nothing has changed but the bitmap.
LEMMA AddingStops ==
  ASSUME NEW d, NEW e, Typed(e), NEW L, Unchanged(d, e, L),
         e.type = d.type, e.free_inodes = d.free_inodes,
         NEW o, Fails(o, Off(e)), NEW dir, NEW i, NEW n
  PROVE  Added(o, d, L, dir, i, n)
<1>1. /\ Typed(Off(e)) /\ Off(e).power = "off" /\ Off(e).type = e.type
      /\ Off(e).free_inodes = e.free_inodes
  BY OffTyped
<1>2. Unchanged(d, Off(e), L)
  BY PowerGoes
<1>3. ~ o.ok /\ o.disk = Off(e)
  BY DEF Fails
<1>4. QED
  BY <1>1, <1>2, <1>3 DEF Added

\* More blocks are marked, on a disk that is otherwise the same.
LEMMA MarkingUnseen ==
  ASSUME NEW d, Typed(d), NEW L, Good(d, L), NEW e, Typed(e), Alike(d, e),
         d.used \subseteq e.used
  PROVE  Unchanged(d, e, L)
<1>1. Owned(d, L) \subseteq e.used
  BY DEF Good, Listed
<1>2. QED
  BY <1>1, UnchangedIf DEF Alike

\* fs_add_directory_entry makes the inode a member, or does nothing that is seen.
LEMMA AddEntry ==
  ASSUME NEW d, Typed(d), NEW L, Good(d, L), NEW i, Fresh(d, L, i),
         NEW dir \in L, d.type[dir] = "directory",
         NEW n \in Names, \A x \in Listing(d, dir) : x.name # n,
         NEW o \in fs_add_directory_entry(d, dir, i, n)
  PROVE  Added(o, d, L, dir, i, n)
<1> DEFINE blocks  == d.blocks[dir]
           free(k) == {s \in Slots : d.entries[blocks[k]][s] = NoEntry}
           room    == {k \in 1 .. MaxBlocks : blocks[k] = 0 \/ free(k) # {}}
           k       == Least(room)
           x       == [inode |-> i, name |-> n]
           Rest(e) ==
             IF room = {} THEN {Failed(e)}
             ELSE IF blocks[k] # 0
             THEN PutEntry(e, dir, blocks, k, Least(free(k)), x)
             ELSE Then(fs_alloc_block(e), LAMBDA a :
                  Each(Transfer(a.disk, [a.disk EXCEPT !.entries[a.val] = EmptyBlock]), LAMBDA z :
                    IF z.ok THEN PutEntry(z.disk, dir, [blocks EXCEPT ![k] = a.val], k, 1, x)
                    ELSE {Failed(f.disk) : f \in fs_free_block(z.disk, a.val)}))
<1>1. PICK r \in Read(d) : IF r.ok THEN o \in Rest(r.disk) ELSE o = Failed(r.disk)
  BY DEF fs_add_directory_entry, Then, Each
<1>2. Unchanged(d, d, L)
  BY UnchangedOff
<1>3. (Succeeds(r, d, 0) /\ d.power = "on") \/ Fails(r, Off(d))
  BY <1>1, TransferIs DEF Read
<1>4. CASE Fails(r, Off(d))
  <2>1. Fails(o, Off(d))
    BY <1>1, <1>4, Outcomes DEF Fails
  <2>2. QED
    BY <1>2, <2>1, AddingStops
<1>5. CASE Succeeds(r, d, 0) /\ d.power = "on"
  <2>1. o \in Rest(d)
    BY <1>1, <1>5 DEF Succeeds
  <2>2. CASE room = {}
    <3>1. Fails(o, d)
      BY <2>1, <2>2, Outcomes
    <3>2. QED
      BY <1>5, <3>1 DEF Fails, Added
  <2>3. CASE room # {}
    <3>1. k \in room
      <4>1. room \subseteq Nat
        OBVIOUS
      <4> HIDE DEF room
      <4>2. QED
        BY <2>3, <4>1, LeastIn
    <3>2. k \in Indices
      BY <3>1 DEF Indices
    <3>3. CASE blocks[k] # 0
      <4>1. o \in PutEntry(d, dir, blocks, k, Least(free(k)), x)
        BY <2>1, <2>3, <3>3
      <4>2. free(k) # {}
        BY <3>1, <3>3
      <4>3. Least(free(k)) \in free(k)
        <5>1. free(k) \subseteq Nat
          <6> HIDE DEF k
          <6>1. QED
            BY DEF Slots
        <5> HIDE DEF free
        <5>2. QED
          BY <4>2, <5>1, LeastIn
      <4>4. Least(free(k)) \in Slots /\ ~ Filled(d, d.blocks[dir][k], Least(free(k)))
        BY <4>3 DEF Filled, At
      <4> DEFINE s == Least(free(k))
      <4>5. s \in Slots /\ ~ Filled(d, d.blocks[dir][k], s)
        BY <4>4
      <4>6. o \in PutEntry(d, dir, d.blocks[dir], k, s, [inode |-> i, name |-> n])
        BY <4>1
      <4>7. d.blocks[dir][k] # 0
        BY <3>3
      <4> HIDE DEF s, k
      <4>8. QED
        BY <3>2, <4>5, <4>6, <4>7, AddToBlock
    <3>4. CASE blocks[k] = 0
      <4>1. \A l \in Indices : l < k => d.blocks[dir][l] # 0
        <5>1. \A l \in room : k <= l
          <6>1. room \subseteq Nat
            OBVIOUS
          <6> HIDE DEF room
          <6>2. QED
            BY <2>3, <6>1, LeastNumber DEF Least
        <5>2. \A l \in Indices : d.blocks[dir][l] = 0 => l \in room
          BY DEF Indices
        <5>3. \A l \in Indices : l \in Int
          BY DEF Indices
        <5> HIDE DEF room, k
        <5>4. QED
          BY <3>2, <5>1, <5>2, <5>3
      <4>2. PICK a \in fs_alloc_block(d) :
              IF a.ok
              THEN o \in Each(Transfer(a.disk, [a.disk EXCEPT !.entries[a.val] = EmptyBlock]), LAMBDA z :
                    IF z.ok THEN PutEntry(z.disk, dir, [blocks EXCEPT ![k] = a.val], k, 1, x)
                    ELSE {Failed(f.disk) : f \in fs_free_block(z.disk, a.val)})
              ELSE o = Failed(a.disk)
        <5>1. o \in Then(fs_alloc_block(d), LAMBDA a :
                  Each(Transfer(a.disk, [a.disk EXCEPT !.entries[a.val] = EmptyBlock]), LAMBDA z :
                    IF z.ok THEN PutEntry(z.disk, dir, [blocks EXCEPT ![k] = a.val], k, 1, x)
                    ELSE {Failed(f.disk) : f \in fs_free_block(z.disk, a.val)}))
          BY <2>1, <2>3, <3>4
        <5> HIDE DEF k, blocks, x
        <5>2. QED
          BY <5>1 DEF Then, Each
      <4> HIDE DEF k
      <4>3. CASE Fails(a, d)
        <5>1. Fails(o, d)
          BY <4>2, <4>3, Outcomes DEF Fails
        <5>2. QED
          BY <1>5, <5>1 DEF Fails, Added
      <4>4. CASE Fails(a, Off(d))
        <5>1. Fails(o, Off(d))
          BY <4>2, <4>4, Outcomes DEF Fails
        <5>2. QED
          BY <1>2, <5>1, AddingStops
      <4>5. ASSUME NEW b \in Blocks \ d.used, Fails(a, Off(Marked(d, b)))
            PROVE  Added(o, d, L, dir, i, n)
        <5>1. Fails(o, Off(Marked(d, b)))
          BY <4>2, <4>5, Outcomes DEF Fails
        <5>2. /\ Typed(Marked(d, b)) /\ Alike(d, Marked(d, b))
              /\ Marked(d, b).used = d.used \cup {b}
          BY BitmapChanges
        <5>3. Unchanged(d, Marked(d, b), L)
          BY <5>2, MarkingUnseen
        <5>4. QED
          BY <5>1, <5>2, <5>3, AddingStops DEF Alike
      <4>6. ASSUME NEW b \in Blocks \ d.used, Succeeds(a, Taken(d, b), b)
            PROVE  Added(o, d, L, dir, i, n)
        <5> DEFINE e == Taken(d, b)
        <5>1. /\ Typed(e) /\ Alike(d, e) /\ e.used = d.used \cup {b} /\ e.power = "on"
          BY <1>5, BitmapChanges
        <5>2. Unchanged(d, e, L)
          BY <5>1, MarkingUnseen
        <5>3. a.ok /\ a.disk = e /\ a.val = b
          BY <4>6 DEF Succeeds
        <5> HIDE DEF e
        <5>4. \E z \in Transfer(a.disk, [a.disk EXCEPT !.entries[a.val] = EmptyBlock]) :
                o \in IF z.ok THEN PutEntry(z.disk, dir, [blocks EXCEPT ![k] = a.val], k, 1, x)
                      ELSE {Failed(f.disk) : f \in fs_free_block(z.disk, a.val)}
          BY <4>2, <5>3 DEF Each
        <5>5. PICK z \in Transfer(e, WithEmpty(e, b)) :
                o \in IF z.ok THEN PutEntry(z.disk, dir, [blocks EXCEPT ![k] = b], k, 1, x)
                      ELSE {Failed(f.disk) : f \in fs_free_block(z.disk, b)}
          <6>1. WithEmpty(e, b) = [a.disk EXCEPT !.entries[a.val] = EmptyBlock]
            BY <5>3 DEF WithEmpty
          <6>2. QED
            BY <5>3, <5>4, <6>1
        <5>6. CASE Succeeds(z, WithEmpty(e, b), 0)
          <6>1. o \in PutEntry(WithEmpty(Taken(d, b), b), dir, [d.blocks[dir] EXCEPT ![k] = b], k, 1,
                               [inode |-> i, name |-> n])
            BY <5>5, <5>6 DEF Succeeds, e
          <6>2. d.blocks[dir][k] = 0
            BY <3>4
          <6> HIDE DEF blocks, x
          <6>3. QED
            BY <1>5, <3>2, <4>1, <6>1, <6>2, AddNewBlock
        <5>7. CASE Fails(z, Off(e))
          <6>1. PICK f \in fs_free_block(Off(e), b) : o = Failed(f.disk)
            BY <5>5, <5>7 DEF Fails
          <6>2. Typed(Off(e)) /\ Off(e).power = "off" /\ Off(Off(e)) = Off(e)
            BY <5>1, OffTyped
          <6>3. Fails(f, Off(e))
            BY <6>1, <6>2, FreeBlock
          <6>4. Fails(o, Off(e))
            BY <6>1, <6>3, Outcomes DEF Fails
          <6>5. QED
            BY <5>1, <5>2, <6>4, AddingStops DEF Alike
        <5>8. QED
          BY <5>1, <5>5, <5>6, <5>7, TransferIs
      <4>7. QED
        BY <4>2, <4>3, <4>4, <4>5, <4>6, AllocBlock
    <3>5. QED
      BY <3>3, <3>4
  <2>4. QED
    BY <2>2, <2>3
<1>6. QED
  BY <1>3, <1>4, <1>5

-----------------------------------------------------------------------------
(* The counter of free inodes *)

Free(d)    == {i \in Inodes : d.type[i] = "free"}
Balance(d) == d.free_inodes - Cardinality(Free(d))

\* Disk e is one an operation may leave of d: as long as the power stays, the
\* counter is as right as it was.
Kept(d, e) ==
  Typed(e) /\ (e.power = "on" => d.power = "on" /\ Balance(e) = Balance(d))

\* Two steps that keep the count keep it.
LEMMA KeptTwice ==
  ASSUME NEW d, NEW e, NEW f, Kept(d, e), Kept(e, f)
  PROVE  Kept(d, f)
  BY DEF Kept

\* Without power nothing is said of the count.
LEMMA KeptOff ==
  ASSUME NEW d, NEW e, Typed(e)
  PROVE  Kept(d, Off(e))
<1>1. Typed(Off(e)) /\ Off(e).power = "off"
  BY OffTyped
<1>2. QED
  BY <1>1 DEF Kept

\* The count is kept where no inode is taken or freed.
LEMMA KeptIf ==
  ASSUME NEW d, NEW e, Typed(e), e.type = d.type, e.free_inodes = d.free_inodes,
         e.power = "on" => d.power = "on"
  PROVE  Kept(d, e)
  BY DEF Kept, Balance, Free

\* Free inodes can be counted.
LEMMA FreeFinite ==
  ASSUME NEW d
  PROVE  IsFiniteSet(Free(d)) /\ Cardinality(Free(d)) \in Nat
<1>1. IsFiniteSet(Inodes)
  BY DiskAssumption, FS_Interval DEF Inodes
<1>2. Free(d) \subseteq Inodes
  BY DEF Free
<1>3. QED
  BY <1>1, <1>2, FS_Subset, FS_CardinalityType

\* An inode taken or freed with its count keeps the balance.
LEMMA BalanceTaken ==
  ASSUME NEW d, Typed(d), NEW e, Typed(e), NEW i \in Inodes, d.type[i] = "free", e.type[i] # "free",
         \A j \in Inodes : j # i => e.type[j] = d.type[j],
         e.free_inodes = d.free_inodes - 1
  PROVE  Balance(e) = Balance(d)
<1>1. Free(e) = Free(d) \ {i} /\ i \in Free(d)
  BY DEF Free
<1>2. Cardinality(Free(e)) = Cardinality(Free(d)) - 1
  BY <1>1, FreeFinite, FS_RemoveElement
<1>3. Cardinality(Free(d)) \in Int /\ d.free_inodes \in Int
  BY FreeFinite DEF Typed
<1>4. QED
  BY <1>2, <1>3 DEF Balance

\* An inode is returned and counted.
LEMMA BalanceReturned ==
  ASSUME NEW d, Typed(d), NEW e, Typed(e), NEW i \in Inodes, d.type[i] # "free", e.type[i] = "free",
         \A j \in Inodes : j # i => e.type[j] = d.type[j],
         e.free_inodes = d.free_inodes + 1
  PROVE  Balance(e) = Balance(d)
<1>1. d.free_inodes = e.free_inodes - 1
  BY DEF Typed
<1>2. \A j \in Inodes : j # i => d.type[j] = e.type[j]
  OBVIOUS
<1>3. QED
  BY <1>1, <1>2, BalanceTaken

-----------------------------------------------------------------------------
(* What becomes of a disk when something no path leads to is freed *)

\* Freeing a block no member lists is not seen.
LEMMA FreeBlockLoose ==
  ASSUME NEW d, Typed(d), NEW L, Good(d, L), NEW b, b \notin Owned(d, L), NEW o \in fs_free_block(d, b)
  PROVE  Unchanged(d, o.disk, L) /\ Kept(d, o.disk) /\ Alike(d, o.disk)
<1>1. ASSUME NEW e, Typed(e), Alike(d, e), e.used = d.used \ {b}
      PROVE  Unchanged(d, e, L)
  <2>1. Owned(d, L) \subseteq e.used
    BY <1>1 DEF Good, Listed
  <2>2. QED
    BY <1>1, <2>1, UnchangedIf DEF Alike
<1>2. CASE Succeeds(o, Returned(d, b), 0) /\ d.power = "on"
  <2>1. Typed(Returned(d, b)) /\ Alike(d, Returned(d, b)) /\ Returned(d, b).used = d.used \ {b}
    BY BitmapChanges
  <2>2. Unchanged(d, Returned(d, b), L)
    BY <1>1, <2>1
  <2>3. Kept(d, Returned(d, b))
    BY <1>2, <2>1, KeptIf DEF Alike
  <2>4. QED
    BY <1>2, <2>1, <2>2, <2>3 DEF Succeeds
<1>3. CASE Fails(o, Off(d))
  <2>1. Unchanged(d, Off(d), L) /\ Kept(d, Off(d))
    BY UnchangedOff, KeptOff
  <2>2. Alike(d, Off(d))
    BY OffTyped DEF Alike
  <2>3. QED
    BY <1>3, <2>1, <2>2 DEF Fails
<1>4. CASE Fails(o, Off(Cleared(d, b)))
  <2>1. Typed(Cleared(d, b)) /\ Alike(d, Cleared(d, b)) /\ Cleared(d, b).used = d.used \ {b}
    BY BitmapChanges
  <2>2. Unchanged(d, Cleared(d, b), L)
    BY <1>1, <2>1
  <2>3. Unchanged(d, Off(Cleared(d, b)), L) /\ Kept(d, Off(Cleared(d, b)))
    BY <2>1, <2>2, PowerGoes, KeptOff
  <2>4. Alike(d, Off(Cleared(d, b)))
    BY <2>1, OffTyped DEF Alike
  <2>5. QED
    BY <1>4, <2>3, <2>4 DEF Fails
<1>5. QED
  BY <1>2, <1>3, <1>4, FreeBlock

\* Freeing an inode that is not a member is not seen.
LEMMA FreeLoose ==
  ASSUME NEW d, Typed(d), NEW L, Good(d, L), NEW i \in Inodes \ L,
         d.type[i] # "free", Owned(d, {i}) \cap Owned(d, L) = {},
         NEW o \in fs_free_inode(d, i)
  PROVE  Unchanged(d, o.disk, L) /\ Kept(d, o.disk)
<1>1. PICK e : /\ Released(d, i, e)
               /\ \/ Succeeds(o, Freed(e, i), 0) /\ d.power = "on"
                  \/ Fails(o, e) /\ e.power = "off"
                  \/ Fails(o, Off(Put(e, i, "free", NoBlocks))) /\ d.power = "on"
  BY FreeInode
<1>2. Typed(e) /\ Alike(d, e) /\ Owned(d, L) \subseteq e.used
  BY <1>1 DEF Released, Good, Listed
<1>3. Unchanged(d, e, L)
  BY <1>2, UnchangedIf DEF Alike
<1>4. \A j \in L : j \in Inodes /\ j # i
  BY DEF Good, InUse
<1>5. CASE Succeeds(o, Freed(e, i), 0) /\ d.power = "on"
  <2> DEFINE f == Freed(e, i)
  <2>1. /\ Typed(f) /\ f.used = e.used /\ f.entries = e.entries
        /\ f.type = [d.type EXCEPT ![i] = "free"]
        /\ f.blocks = [d.blocks EXCEPT ![i] = NoBlocks]
        /\ f.free_inodes = d.free_inodes + 1
    <3> DEFINE n == e.free_inodes + 1
    <3>1. n \in Int
      BY <1>2 DEF Typed
    <3>2. f = [e EXCEPT !.type[i] = "free", !.blocks[i] = NoBlocks, !.free_inodes = n]
      BY DEF Freed
    <3>3. e.free_inodes + 1 = d.free_inodes + 1
      BY <1>2 DEF Alike
    <3> HIDE DEF n, f
    <3>4. /\ Typed(f) /\ f.used = e.used /\ f.entries = e.entries
          /\ f.type = [e.type EXCEPT ![i] = "free"]
          /\ f.blocks = [e.blocks EXCEPT ![i] = NoBlocks]
          /\ f.free_inodes = n
      BY <1>2, <3>1, <3>2, NoBlocksTyped DEF Typed, Types
    <3>5. QED
      BY <1>2, <3>3, <3>4 DEF Alike, n
  <2>2. \A j \in Inodes : j # i => f.type[j] = d.type[j] /\ f.blocks[j] = d.blocks[j]
    <3> HIDE DEF f
    <3>1. QED
      BY <2>1 DEF Typed
  <2>3. f.type[i] = "free"
    <3> HIDE DEF f
    <3>1. QED
      BY <2>1 DEF Typed
  <2> HIDE DEF f
  <2>4. Unchanged(d, f, L)
    BY <1>2, <1>4, <2>1, <2>2, UnchangedIf DEF Alike
  <2>5. Balance(f) = Balance(d)
    <3>1. i \in Inodes /\ Typed(f) /\ f.free_inodes = d.free_inodes + 1
      BY <2>1
    <3>2. QED
      BY <2>2, <2>3, <3>1, BalanceReturned
  <2>6. Kept(d, f)
    BY <1>5, <2>1, <2>5 DEF Kept
  <2>7. QED
    BY <1>5, <2>4, <2>6 DEF Succeeds, f
<1>6. CASE Fails(o, e) /\ e.power = "off"
  BY <1>2, <1>3, <1>6 DEF Fails, Kept
<1>7. CASE Fails(o, Off(Put(e, i, "free", NoBlocks)))
  <2> DEFINE f == Put(e, i, "free", NoBlocks)
  <2>1. /\ Typed(f) /\ f.used = e.used /\ f.entries = e.entries
        /\ f.type = [e.type EXCEPT ![i] = "free"]
        /\ f.blocks = [e.blocks EXCEPT ![i] = NoBlocks]
    <3>1. i \in Inodes /\ "free" \in Types /\ NoBlocks \in [Indices -> 0 .. NBlocks]
      BY NoBlocksTyped DEF Types
    <3>2. QED
      BY <1>2, <3>1, PutTyped
  <2> HIDE DEF f
  <2>2. \A j \in Inodes : j # i => f.type[j] = d.type[j] /\ f.blocks[j] = d.blocks[j]
    BY <1>2, <2>1 DEF Typed, Alike
  <2>3. Unchanged(d, f, L)
    BY <1>2, <1>4, <2>1, <2>2, UnchangedIf DEF Alike
  <2>4. Unchanged(d, Off(f), L) /\ Kept(d, Off(f))
    BY <2>1, <2>3, PowerGoes, KeptOff
  <2>5. QED
    BY <1>7, <2>4 DEF Fails, f
<1>8. QED
  BY <1>1, <1>5, <1>6, <1>7

-----------------------------------------------------------------------------
(* Looking a name up, taking an inode *)

\* What looking up a name in directory i finds: nothing, a member, or no power.
Found(o, d, L, i, n) ==
  /\ o.ok
  /\ \/ /\ o.disk = d /\ d.power = "on" /\ o.val = 0
        /\ \A x \in Listing(d, i) : x.name # n
     \/ /\ o.disk = d /\ d.power = "on" /\ o.val \in L \ {RootInode} /\ o.val # 0
        /\ [inode |-> o.val, name |-> n] \in Listing(d, i)
     \/ o.disk = Off(d) /\ o.val = 0

\* fs_find_directory_entry finds the member that has the name, or 0; or the power goes.
LEMMA FindEntry ==
  ASSUME NEW d, Typed(d), NEW L, Good(d, L), NEW i \in L, NEW n,
         NEW o \in fs_find_directory_entry(d, i, n)
  PROVE  Found(o, d, L, i, n)
<1> DEFINE x == CHOOSE e \in Named(d, i, n) : TRUE
<1>1. PICK r \in Read(d) : o = Done(r.disk, IF r.ok /\ Named(d, i, n) # {} THEN x.inode ELSE 0)
  BY DEF fs_find_directory_entry, Each
<1>2. /\ o.ok /\ o.disk = r.disk
      /\ o.val = IF r.ok /\ Named(d, i, n) # {} THEN x.inode ELSE 0
  BY <1>1 DEF Done
<1>3. (Succeeds(r, d, 0) /\ d.power = "on") \/ Fails(r, Off(d))
  BY <1>1, TransferIs DEF Read
<1>4. Named(d, i, n) = {y \in Listing(d, i) : y.name = n}
  BY EntriesAre DEF Named
<1>5. CASE Fails(r, Off(d))
  BY <1>2, <1>5 DEF Fails, Found
<1>6. CASE Succeeds(r, d, 0) /\ d.power = "on" /\ Named(d, i, n) = {}
  BY <1>2, <1>4, <1>6 DEF Succeeds, Found
<1>7. CASE Succeeds(r, d, 0) /\ d.power = "on" /\ Named(d, i, n) # {}
  <2>1. o.disk = d /\ d.power = "on" /\ o.val = x.inode
    BY <1>2, <1>7 DEF Succeeds
  <2>2. x \in Named(d, i, n)
    BY <1>7
  <2> HIDE DEF x
  <2>3. x \in Listing(d, i) /\ x.name = n /\ x \in Entry
    BY <1>4, <2>2 DEF Listing
  <2>4. x = [inode |-> x.inode, name |-> n]
    BY <2>3 DEF Entry
  <2>5. PICK b \in Owned(d, {i}), s \in Slots : Filled(d, b, s) /\ At(d, b, s) = x
    BY <2>3 DEF Listing
  <2>6. b \in Owned(d, L)
    BY DEF Owned
  <2>7. x.inode \in L \ {RootInode}
    BY <2>5, <2>6 DEF Good, NamesOnce
  <2>8. QED
    BY <1>2, <2>1, <2>3, <2>4, <2>7 DEF RootInode, Found
<1>8. QED
  BY <1>3, <1>5, <1>6, <1>7

\* An inode is taken and counted.
LEMMA CountedTyped ==
  ASSUME NEW d, Typed(d), NEW i \in Inodes, NEW type \in Types
  PROVE  /\ Typed(Counted(d, i, type))
         /\ Counted(d, i, type).type = [d.type EXCEPT ![i] = type]
         /\ Counted(d, i, type).blocks = [d.blocks EXCEPT ![i] = NoBlocks]
         /\ Counted(d, i, type).used = d.used
         /\ Counted(d, i, type).entries = d.entries
         /\ Counted(d, i, type).power = d.power
         /\ Counted(d, i, type).free_inodes = d.free_inodes - 1
<1> DEFINE n == d.free_inodes - 1
           f == Counted(d, i, type)
<1>1. n \in Int
  BY DEF Typed
<1>2. f = [d EXCEPT !.type[i] = type, !.blocks[i] = NoBlocks, !.free_inodes = n]
  BY DEF Counted
<1> HIDE DEF n, f
<1>3. /\ Typed(f) /\ f.used = d.used /\ f.entries = d.entries /\ f.power = d.power
      /\ f.type = [d.type EXCEPT ![i] = type]
      /\ f.blocks = [d.blocks EXCEPT ![i] = NoBlocks]
      /\ f.free_inodes = n
  BY <1>1, <1>2, NoBlocksTyped DEF Typed
<1>4. QED
  BY <1>3 DEF f, n

\* Disk e is d with inode i taken for an empty file or directory.
TakenFor(d, e, i, type) ==
  /\ Typed(e) /\ e.used = d.used /\ e.entries = d.entries /\ e.power = d.power
  /\ e.type = [d.type EXCEPT ![i] = type] /\ e.blocks = [d.blocks EXCEPT ![i] = NoBlocks]

\* A new inode is nobody's.
LEMMA NewInode ==
  ASSUME NEW d, Typed(d), NEW L, Good(d, L), NEW i \in Inodes, i \notin L,
         NEW type \in Types, type # "free", NEW e, TakenFor(d, e, i, type)
  PROVE  Unchanged(d, e, L) /\ Fresh(e, L, i) /\ e.type[i] = type
<1>1. \A j \in L : j \in Inodes /\ j # i
  BY DEF Good, InUse
<1>2. /\ \A j \in Inodes : j # i => e.type[j] = d.type[j] /\ e.blocks[j] = d.blocks[j]
      /\ e.type[i] = type /\ e.blocks[i] = NoBlocks
  BY DEF TakenFor, Typed
<1>3. Unchanged(d, e, L)
  <2>1. Owned(d, L) \subseteq e.used
    BY DEF Good, Listed, TakenFor
  <2>2. QED
    BY <1>1, <1>2, <2>1, UnchangedIf DEF TakenFor
<1>4. \A k \in Indices : e.blocks[i][k] = 0
  BY <1>2, NoBlocksTyped
<1>5. Owned(e, {i}) = {}
  <2>1. \A b \in Blocks : b # 0
    BY DEF Blocks
  <2>2. QED
    BY <1>4, <2>1 DEF Owned
<1>6. Fresh(e, L, i)
  BY <1>2, <1>4, <1>5 DEF Fresh
<1>7. QED
  BY <1>2, <1>3, <1>5, <1>6

\* What taking an inode leaves.
LEMMA TakeInode ==
  ASSUME NEW d, Typed(d), NEW L, Good(d, L), NEW type \in Types, type # "free",
         NEW o \in fs_alloc_inode(d, type)
  PROVE  /\ ~ o.ok => Unchanged(d, o.disk, L) /\ Kept(d, o.disk)
         /\ o.ok => /\ o.val \in Inodes /\ o.val \notin L
                    /\ TakenFor(d, o.disk, o.val, type) /\ Kept(d, o.disk) /\ d.power = "on"
<1>1. CASE Fails(o, d)
  <2>1. Kept(d, d)
    BY DEF Kept
  <2>2. QED
    BY <1>1, <2>1, UnchangedOff DEF Fails
<1>2. CASE Fails(o, Off(d))
  BY <1>2, UnchangedOff, KeptOff DEF Fails
<1>3. ASSUME NEW i \in Inodes, d.type[i] = "free", Succeeds(o, Counted(d, i, type), i), d.power = "on"
      PROVE  /\ o.ok /\ o.val \in Inodes /\ o.val \notin L
             /\ TakenFor(d, o.disk, o.val, type) /\ Kept(d, o.disk)
  <2> DEFINE e == Counted(d, i, type)
  <2>1. TakenFor(d, e, i, type) /\ e.free_inodes = d.free_inodes - 1
    BY CountedTyped DEF TakenFor
  <2>2. i \notin L
    BY <1>3 DEF Good, InUse
  <2>3. /\ o.ok /\ o.disk = e /\ o.val = i
    BY <1>3 DEF Succeeds
  <2> HIDE DEF e
  <2>4. Typed(e) /\ e.type[i] # "free" /\ \A j \in Inodes : j # i => e.type[j] = d.type[j]
    BY <2>1 DEF TakenFor, Typed
  <2>5. Balance(e) = Balance(d)
    BY <1>3, <2>1, <2>4, BalanceTaken
  <2>6. Kept(d, e)
    BY <1>3, <2>4, <2>5 DEF Kept
  <2>7. QED
    BY <2>1, <2>2, <2>3, <2>6
<1>4. ASSUME NEW i \in Inodes, d.type[i] = "free", Fails(o, Off(Put(d, i, type, NoBlocks)))
      PROVE  ~ o.ok /\ Unchanged(d, o.disk, L) /\ Kept(d, o.disk)
  <2> DEFINE e == Put(d, i, type, NoBlocks)
  <2>1. TakenFor(d, e, i, type)
    BY NoBlocksTyped, PutTyped DEF TakenFor
  <2>2. i \notin L
    BY <1>4 DEF Good, InUse
  <2>3. ~ o.ok /\ o.disk = Off(e)
    BY <1>4 DEF Fails
  <2> HIDE DEF e
  <2>4. Typed(e) /\ Unchanged(d, e, L)
    BY <2>1, <2>2, NewInode DEF TakenFor
  <2>5. QED
    BY <2>3, <2>4, PowerGoes, KeptOff
<1>5. QED
  BY <1>1, <1>2, <1>3, <1>4, AllocInode DEF Fails

\* What is left of the disk when a file or directory was to be created.
Created(d, e, L, dir, n, type) ==
  /\ Kept(d, e)
  /\ \/ Unchanged(d, e, L)
     \/ \E i \in Inodes \ L : e.type[i] = type /\ Joined(d, e, L, dir, i, n)

\* Without power nothing changes.
LEMMA FreeInodeOff ==
  ASSUME NEW d, Typed(d), d.power = "off", NEW i \in Inodes, NEW o \in fs_free_inode(d, i)
  PROVE  o.disk = d
<1>1. PICK e : /\ Released(d, i, e)
               /\ \/ Succeeds(o, Freed(e, i), 0) /\ d.power = "on"
                  \/ Fails(o, e) /\ e.power = "off"
                  \/ Fails(o, Off(Put(e, i, "free", NoBlocks))) /\ d.power = "on"
  BY FreeInode
<1>2. QED
  BY <1>1 DEF Released, Fails

\* Nor does fs_free_block change anything.
LEMMA FreeBlockOff ==
  ASSUME NEW d, Typed(d), d.power = "off", NEW b, NEW o \in fs_free_block(d, b)
  PROVE  o.disk = d
<1>1. Fails(o, Off(d))
  BY FreeBlock
<1>2. QED
  BY <1>1, OffTyped DEF Fails

\* Nor does fs_alloc_inode.
LEMMA AllocInodeOff ==
  ASSUME NEW d, Typed(d), d.power = "off", NEW type \in Types, NEW o \in fs_alloc_inode(d, type)
  PROVE  Fails(o, d)
<1> DEFINE free == {i \in Inodes : d.type[i] = "free"}
<1>1. PICK r \in Read(d) :
        IF r.ok
        THEN o \in IF free = {} THEN {Failed(r.disk)}
                   ELSE Then(fs_write_inode(r.disk, Least(free), type, NoBlocks), LAMBDA w :
                        Then(Transfer(w.disk, [w.disk EXCEPT !.free_inodes = @ - 1]), LAMBDA s :
                          {Done(s.disk, Least(free))}))
        ELSE o = Failed(r.disk)
  BY DEF fs_alloc_inode, Then, Each
<1>2. Fails(r, Off(d)) /\ Off(d) = d
  BY TransferIs, OffTyped DEF Read
<1>3. QED
  BY <1>1, <1>2, Outcomes DEF Fails

\* fs_create_file makes one new file under the name, or nothing that is seen.
LEMMA CreateFile ==
  ASSUME NEW d, Typed(d), NEW L, Good(d, L), NEW dir \in L, d.type[dir] = "directory",
         NEW n \in Names, NEW o \in fs_create_file(d, dir, n)
  PROVE  Created(d, o.disk, L, dir, n, "file")
<1>1. PICK l \in fs_find_directory_entry(d, dir, n) :
        IF l.ok
        THEN o \in IF l.val # 0 THEN {Failed(l.disk)}
                   ELSE Then(fs_alloc_inode(l.disk, "file"), LAMBDA i :
                        Each(fs_add_directory_entry(i.disk, dir, i.val, n), LAMBDA a :
                          IF a.ok THEN {a}
                          ELSE {Failed(f.disk) : f \in fs_free_inode(a.disk, i.val)}))
        ELSE o = Failed(l.disk)
  BY DEF fs_create_file, Then, Each
<1>2. /\ l.ok
      /\ \/ /\ l.disk = d /\ d.power = "on" /\ l.val = 0
            /\ \A x \in Listing(d, dir) : x.name # n
         \/ /\ l.disk = d /\ d.power = "on" /\ l.val # 0
         \/ l.disk = Off(d) /\ l.val = 0
  <2>1. Found(l, d, L, dir, n)
    BY FindEntry
  <2>2. QED
    BY <2>1 DEF Found
<1>3. Unchanged(d, d, L) /\ Kept(d, d) /\ Unchanged(d, Off(d), L) /\ Kept(d, Off(d))
  BY UnchangedOff, KeptOff DEF Kept
<1>4. CASE l.val # 0
  <2>1. o.disk = l.disk
    BY <1>1, <1>2, <1>4, Outcomes DEF Fails
  <2>2. QED
    BY <1>2, <1>3, <1>4, <2>1 DEF Created
<1>5. CASE l.val = 0
  <2>1. PICK i \in fs_alloc_inode(l.disk, "file") :
          IF i.ok
          THEN o \in Each(fs_add_directory_entry(i.disk, dir, i.val, n), LAMBDA a :
                            IF a.ok THEN {a}
                            ELSE {Failed(f.disk) : f \in fs_free_inode(a.disk, i.val)})
          ELSE o = Failed(i.disk)
    <3>1. o \in Then(fs_alloc_inode(l.disk, "file"), LAMBDA i :
                        Each(fs_add_directory_entry(i.disk, dir, i.val, n), LAMBDA a :
                          IF a.ok THEN {a}
                          ELSE {Failed(f.disk) : f \in fs_free_inode(a.disk, i.val)}))
      BY <1>1, <1>2, <1>5
    <3>2. QED
      BY <3>1 DEF Then, Each
  <2>2. "file" \in Types /\ "file" # "free"
    BY DEF Types
  <2>3. CASE l.disk = Off(d)
    <3>1. Typed(Off(d)) /\ Off(d).power = "off"
      BY OffTyped
    <3>2. Fails(i, Off(d))
      BY <2>1, <2>2, <2>3, <3>1, AllocInodeOff
    <3>3. o.disk = Off(d)
      BY <2>1, <3>2, Outcomes DEF Fails
    <3>4. QED
      BY <1>3, <3>3 DEF Created
  <2>4. CASE /\ l.disk = d /\ d.power = "on"
             /\ \A x \in Listing(d, dir) : x.name # n
    <3>1. /\ ~ i.ok => Unchanged(d, i.disk, L) /\ Kept(d, i.disk)
          /\ i.ok => /\ i.val \in Inodes /\ i.val \notin L
                     /\ TakenFor(d, i.disk, i.val, "file") /\ Kept(d, i.disk)
      BY <2>1, <2>2, <2>4, TakeInode
    <3>2. CASE ~ i.ok
      <4>1. o.disk = i.disk
        BY <2>1, <3>2, Outcomes DEF Fails
      <4>2. QED
        BY <3>1, <3>2, <4>1 DEF Created
    <3>3. CASE i.ok
      <4> DEFINE e == i.disk
                 j == i.val
      <4>1. /\ j \in Inodes /\ j \notin L /\ Typed(e) /\ TakenFor(d, e, j, "file") /\ Kept(d, e)
        BY <3>1, <3>3 DEF TakenFor
      <4>2. PICK a \in fs_add_directory_entry(e, dir, j, n) :
              o \in IF a.ok THEN {a} ELSE {Failed(f.disk) : f \in fs_free_inode(a.disk, j)}
        BY <2>1, <3>3 DEF Each
      <4> HIDE DEF e, j
      <4>3. Unchanged(d, e, L) /\ Fresh(e, L, j) /\ e.type[j] = "file"
        <5> DEFINE type == "file"
        <5>1. type \in Types /\ type # "free" /\ j \in Inodes /\ j \notin L /\ TakenFor(d, e, j, type)
          BY <2>2, <4>1
        <5> HIDE DEF type
        <5>2. Unchanged(d, e, L)
          BY <5>1, NewInode
        <5>3. Fresh(e, L, j)
          BY <5>1, NewInode
        <5>4. e.type[j] = type
          BY <5>1, NewInode
        <5>5. QED
          BY <5>2, <5>3, <5>4 DEF type
      <4>4. Good(e, L) /\ e.type[dir] = "directory" /\ \A x \in Listing(e, dir) : x.name # n
        BY <2>4, <4>3 DEF Unchanged
      <4>5. Added(a, e, L, dir, j, n)
        BY <4>1, <4>2, <4>3, <4>4, AddEntry
      <4>6. Kept(e, a.disk) /\ a.disk.type[j] = "file"
        BY <4>3, <4>5, KeptIf DEF Added
      <4>7. Kept(d, a.disk)
        BY <4>1, <4>6, KeptTwice
      <4>8. Joined(e, a.disk, L, dir, j, n) => Created(d, a.disk, L, dir, n, "file")
        <5>1. Joined(e, a.disk, L, dir, j, n) => Joined(d, a.disk, L, dir, j, n)
          BY <4>3, UnchangedJoined
        <5>2. QED
          BY <4>1, <4>6, <4>7, <5>1 DEF Created
      <4>9. CASE a.ok
        BY <4>2, <4>5, <4>8, <4>9 DEF Added
      <4>10. CASE ~ a.ok /\ a.disk.power = "off"
        <5>1. PICK f \in fs_free_inode(a.disk, j) : o = Failed(f.disk)
          BY <4>2, <4>10
        <5>2. Typed(a.disk)
          BY <4>5 DEF Added
        <5>3. f.disk = a.disk
          BY <4>1, <4>10, <5>1, <5>2, FreeInodeOff
        <5>4. o.disk = a.disk
          BY <5>1, <5>3, Outcomes DEF Fails
        <5>5. CASE Joined(e, a.disk, L, dir, j, n)
          BY <4>8, <5>4, <5>5
        <5>6. CASE Unchanged(e, a.disk, L) \/ a.disk = e
          <6>1. Unchanged(d, a.disk, L)
            BY <4>3, <5>6, UnchangedTwice
          <6>2. QED
            BY <4>7, <5>4, <6>1 DEF Created
        <5>7. QED
          BY <4>5, <4>10, <5>5, <5>6 DEF Added
      <4>11. CASE ~ a.ok /\ a.disk = e
        <5>1. PICK f \in fs_free_inode(e, j) : o = Failed(f.disk)
          BY <4>2, <4>11
        <5>2. Unchanged(e, f.disk, L) /\ Kept(e, f.disk)
          <6>1. Owned(e, {j}) \cap Owned(e, L) = {} /\ e.type[j] # "free" /\ j \in Inodes \ L
            BY <4>1, <4>3 DEF Fresh
          <6>2. QED
            BY <4>1, <4>4, <5>1, <6>1, FreeLoose
        <5>3. Unchanged(d, f.disk, L) /\ Kept(d, f.disk)
          BY <4>1, <4>3, <5>2, UnchangedTwice, KeptTwice
        <5>4. o.disk = f.disk
          BY <5>1, Outcomes DEF Fails
        <5>5. QED
          BY <5>3, <5>4 DEF Created
      <4>12. QED
        BY <4>5, <4>9, <4>10, <4>11 DEF Added
    <3>4. QED
      BY <3>2, <3>3
  <2>5. QED
    BY <1>2, <1>5, <2>3, <2>4
<1>6. QED
  BY <1>4, <1>5

\* The block a new directory lists.
OneBlock(b) == [NoBlocks EXCEPT ![1] = b]

\* The block list of a new directory.
LEMMA OneBlockTyped ==
  ASSUME NEW b \in Blocks
  PROVE  /\ OneBlock(b) \in [Indices -> 0 .. NBlocks] /\ OneBlock(b)[1] = b /\ b # 0
         /\ \A k \in Indices : k # 1 => OneBlock(b)[k] = 0
         /\ 1 \in Indices
<1>1. 1 \in Indices /\ b \in 0 .. NBlocks /\ b # 0
  BY DiskAssumption DEF Indices, Blocks
<1>2. QED
  BY <1>1, NoBlocksTyped DEF OneBlock

\* An inode given a block of its own, for an entry to name.
LEMMA DirectoryFresh ==
  ASSUME NEW d, Typed(d), NEW L, Good(d, L), NEW i \in Inodes, i \notin L,
         NEW b \in Blocks, b \in d.used, b \notin Owned(d, L), \A s \in Slots : ~ Filled(d, b, s),
         NEW e, e = Put(d, i, "directory", OneBlock(b))
  PROVE  /\ Typed(e) /\ Unchanged(d, e, L) /\ Fresh(e, L, i) /\ b \notin Owned(e, L)
         /\ e.type[i] = "directory" /\ e.power = d.power
         /\ \A j \in Inodes : j # i => e.type[j] = d.type[j]
<1>1. /\ Typed(e) /\ e.type = [d.type EXCEPT ![i] = "directory"]
      /\ e.blocks = [d.blocks EXCEPT ![i] = OneBlock(b)]
      /\ e.used = d.used /\ e.entries = d.entries /\ e.power = d.power
  <2>1. "directory" \in Types /\ OneBlock(b) \in [Indices -> 0 .. NBlocks]
    BY OneBlockTyped DEF Types
  <2>2. QED
    BY <2>1, PutTyped
<1>2. /\ \A j \in Inodes : j # i => e.type[j] = d.type[j] /\ e.blocks[j] = d.blocks[j]
      /\ e.type[i] = "directory" /\ e.blocks[i] = OneBlock(b)
  BY <1>1 DEF Typed
<1>3. \A j \in L : j \in Inodes /\ j # i
  BY DEF Good, InUse
<1>4. Owned(e, L) = Owned(d, L)
  BY <1>2, <1>3 DEF Owned
<1>5. \A c \in Owned(e, {i}) : c = b
  <2>1. \A c \in Blocks : c # 0
    BY DEF Blocks
  <2>2. QED
    BY <1>2, <2>1, OneBlockTyped DEF Owned
<1>6. Unchanged(d, e, L)
  <2>1. Owned(d, L) \subseteq e.used
    BY <1>1 DEF Good, Listed
  <2>2. QED
    BY <1>1, <1>2, <1>3, <2>1, UnchangedIf
<1>7. Fresh(e, L, i)
  <2>1. i \in Inodes \ L /\ e.type[i] # "free"
    BY <1>2
  <2>2. Owned(e, {i}) \subseteq e.used /\ Owned(e, {i}) \cap Owned(e, L) = {}
    BY <1>1, <1>4, <1>5
  <2>3. \A k, l \in Indices : e.blocks[i][k] # 0 /\ e.blocks[i][k] = e.blocks[i][l] => k = l
    BY <1>2, OneBlockTyped
  <2>4. \A k, l \in Indices : e.blocks[i][k] # 0 /\ l < k => e.blocks[i][l] # 0
    BY <1>2, OneBlockTyped DEF Indices
  <2>5. \A c \in Owned(e, {i}) : \A s \in Slots : ~ Filled(e, c, s)
    BY <1>1, <1>5 DEF Filled, At
  <2>6. QED
    BY <2>1, <2>2, <2>3, <2>4, <2>5 DEF Fresh
<1>8. QED
  BY <1>1, <1>2, <1>4, <1>6, <1>7

\* What fs_create_directory has when it is about to succeed or to clean up.
Made(o, d, L, dir, i, n, b) ==
  /\ Kept(d, o.disk)
  /\ o.disk.type[i] = "directory"
  /\ \/ o.ok /\ Joined(d, o.disk, L, dir, i, n)
     \/ /\ ~ o.ok /\ o.disk.power = "off"
        /\ Unchanged(d, o.disk, L) \/ Joined(d, o.disk, L, dir, i, n)
     \/ /\ ~ o.ok /\ Unchanged(d, o.disk, L)
        /\ b \notin Owned(o.disk, L) /\ Owned(o.disk, {i}) \cap Owned(o.disk, L) = {}

\* Making a directory ends because the power goes.
LEMMA MadeStops ==
  ASSUME NEW d, NEW L, NEW dir, NEW i, NEW n, NEW b, NEW o, NEW e, Typed(e), Unchanged(d, e, L),
         e.type[i] = "directory", Fails(o, Off(e))
  PROVE  Made(o, d, L, dir, i, n, b)
<1>1. Off(e).type = e.type /\ Off(e).power = "off"
  BY OffTyped
<1>2. Unchanged(d, Off(e), L) /\ Kept(d, Off(e))
  BY PowerGoes, KeptOff
<1>3. ~ o.ok /\ o.disk = Off(e)
  BY DEF Fails
<1>4. QED
  BY <1>1, <1>2, <1>3 DEF Made

\* The part of fs_create_directory that writes the new directory, when t is the
\* outcome that gave it its block.
Making(t, dir, i, n) ==
  Then(Read(t.disk), LAMBDA r :
  Then(Transfer(r.disk, [r.disk EXCEPT !.entries[t.val] = EmptyBlock]), LAMBDA z :
  Then(fs_write_inode(z.disk, i, "directory", [NoBlocks EXCEPT ![1] = t.val]), LAMBDA w :
       fs_add_directory_entry(w.disk, dir, i, n))))

\* From the zeroed block to the name: fs_create_directory once it has inode and block.
LEMMA MakeDirectory ==
  ASSUME NEW d, Typed(d), NEW L, Good(d, L), d.power = "on",
         NEW i \in Inodes, i \notin L, d.type[i] = "directory",
         NEW dir \in L, d.type[dir] = "directory",
         NEW n \in Names, \A x \in Listing(d, dir) : x.name # n,
         NEW b \in Blocks, b \in d.used, b \notin Owned(d, L),
         NEW t, t.disk = d, t.val = b, NEW o \in Making(t, dir, i, n)
  PROVE  Made(o, d, L, dir, i, n, b)
<1> DEFINE z == WithEmpty(d, b)
           w == Put(z, i, "directory", OneBlock(b))
<1>1. PICK r \in Read(d) :
        IF r.ok
        THEN o \in Then(Transfer(r.disk, [r.disk EXCEPT !.entries[t.val] = EmptyBlock]), LAMBDA q :
                   Then(fs_write_inode(q.disk, i, "directory", [NoBlocks EXCEPT ![1] = t.val]), LAMBDA v :
                        fs_add_directory_entry(v.disk, dir, i, n)))
        ELSE o = Failed(r.disk)
  BY DEF Making, Then, Each
<1>2. CASE Fails(r, Off(d))
  <2>1. Fails(o, Off(d))
    BY <1>1, <1>2, Outcomes DEF Fails
  <2>2. QED
    BY <2>1, UnchangedOff, MadeStops
<1>3. CASE Succeeds(r, d, 0)
  <2>1. PICK q \in Transfer(d, z) :
          IF q.ok
          THEN o \in Then(fs_write_inode(q.disk, i, "directory", [NoBlocks EXCEPT ![1] = t.val]), LAMBDA v :
                          fs_add_directory_entry(v.disk, dir, i, n))
          ELSE o = Failed(q.disk)
    <3>1. PICK q \in Transfer(r.disk, [r.disk EXCEPT !.entries[t.val] = EmptyBlock]) :
            IF q.ok
            THEN o \in Then(fs_write_inode(q.disk, i, "directory", [NoBlocks EXCEPT ![1] = t.val]), LAMBDA v :
                            fs_add_directory_entry(v.disk, dir, i, n))
            ELSE o = Failed(q.disk)
      <4>1. o \in Then(Transfer(r.disk, [r.disk EXCEPT !.entries[t.val] = EmptyBlock]), LAMBDA q :
                   Then(fs_write_inode(q.disk, i, "directory", [NoBlocks EXCEPT ![1] = t.val]), LAMBDA v :
                        fs_add_directory_entry(v.disk, dir, i, n)))
        BY <1>1, <1>3 DEF Succeeds
      <4>2. QED
        BY <4>1 DEF Then, Each
    <3>2. r.disk = d /\ z = [d EXCEPT !.entries[b] = EmptyBlock]
      BY <1>3 DEF Succeeds, WithEmpty
    <3> HIDE DEF z
    <3>3. QED
      BY <3>1, <3>2
  <2>2. /\ Typed(z) /\ z.used = d.used /\ z.type = d.type /\ z.blocks = d.blocks /\ z.power = "on"
        /\ \A s \in Slots : ~ Filled(z, b, s)
        /\ \A c \in Blocks : c # b => z.entries[c] = d.entries[c]
        /\ z.free_inodes = d.free_inodes
    BY WithEmptyIs
  <2> HIDE DEF z
  <2>3. Unchanged(d, z, L)
    <3>1. \A c \in Owned(d, L) : c # b /\ c \in Blocks
      BY DEF Owned
    <3>2. Owned(d, L) \subseteq z.used
      BY <2>2 DEF Good, Listed
    <3>3. QED
      BY <2>2, <3>1, <3>2, UnchangedIf
  <2>4. Kept(d, z)
    BY <2>2, KeptIf
  <2>5. CASE Fails(q, Off(d))
    <3>1. Fails(o, Off(d))
      BY <2>1, <2>5, Outcomes DEF Fails
    <3>2. QED
      BY <3>1, UnchangedOff, MadeStops
  <2>6. CASE Succeeds(q, z, 0)
    <3>1. PICK v \in fs_write_inode(z, i, "directory", OneBlock(b)) :
            IF v.ok THEN o \in fs_add_directory_entry(v.disk, dir, i, n) ELSE o = Failed(v.disk)
      <4>1. \E v \in fs_write_inode(q.disk, i, "directory", [NoBlocks EXCEPT ![1] = t.val]) :
              IF v.ok THEN o \in fs_add_directory_entry(v.disk, dir, i, n) ELSE o = Failed(v.disk)
        BY <2>1, <2>6 DEF Then, Each, Succeeds
      <4>2. QED
        BY <2>6, <4>1 DEF Succeeds, OneBlock
    <3>2. CASE Fails(v, Off(z))
      <4>1. Fails(o, Off(z))
        BY <3>1, <3>2, Outcomes DEF Fails
      <4>2. z.type[i] = "directory"
        BY <2>2
      <4>3. QED
        BY <2>2, <2>3, <4>1, <4>2, MadeStops
    <3>3. CASE Succeeds(v, w, 0)
      <4>1. o \in fs_add_directory_entry(w, dir, i, n)
        BY <3>1, <3>3 DEF Succeeds
      <4>2. Good(z, L) /\ b \notin Owned(z, L) /\ b \in z.used
        BY <2>2, <2>3 DEF Unchanged, Owned
      <4>3. /\ Typed(w) /\ Unchanged(z, w, L) /\ Fresh(w, L, i) /\ b \notin Owned(w, L)
            /\ w.type[i] = "directory" /\ w.power = "on"
            /\ \A j \in Inodes : j # i => w.type[j] = z.type[j]
        BY <2>2, <4>2, DirectoryFresh
      <4>4. w.free_inodes = z.free_inodes
        BY <2>2 DEF Put, Typed
      <4> HIDE DEF w
      <4>5. w.type = z.type
        <5>1. w.type \in [Inodes -> Types] /\ z.type \in [Inodes -> Types]
          BY <2>2, <4>3 DEF Typed
        <5>2. \A j \in Inodes : w.type[j] = z.type[j]
          BY <2>2, <4>3
        <5>3. QED
          BY <5>1, <5>2
      <4>6. Unchanged(d, w, L)
        BY <2>3, <4>3, UnchangedTwice
      <4>7. Good(w, L) /\ w.type[dir] = "directory" /\ \A x \in Listing(w, dir) : x.name # n
        BY <4>6 DEF Unchanged
      <4>8. Added(o, w, L, dir, i, n)
        BY <4>1, <4>3, <4>7, AddEntry
      <4>9. Kept(d, o.disk) /\ o.disk.type[i] = "directory"
        <5>1. Kept(d, w) /\ Kept(w, o.disk)
          BY <2>2, <4>3, <4>4, <4>5, <4>8, KeptIf DEF Added
        <5>2. QED
          BY <4>3, <4>8, <5>1, KeptTwice DEF Added
      <4>10. Joined(w, o.disk, L, dir, i, n) => Joined(d, o.disk, L, dir, i, n)
        BY <4>6, UnchangedJoined
      <4>11. Unchanged(w, o.disk, L) => Unchanged(d, o.disk, L)
        BY <4>6, UnchangedTwice
      <4>12. o.disk = w => /\ Unchanged(d, o.disk, L) /\ b \notin Owned(o.disk, L)
                           /\ Owned(o.disk, {i}) \cap Owned(o.disk, L) = {}
        BY <4>3, <4>6 DEF Fresh
      <4>13. QED
        BY <4>8, <4>9, <4>10, <4>11, <4>12 DEF Made, Added
    <3>4. QED
      BY <2>2, <3>1, <3>2, <3>3, WriteInode
  <2>7. QED
    BY <2>1, <2>5, <2>6, TransferIs
<1>4. QED
  BY <1>1, <1>2, <1>3, TransferIs DEF Read

\* Without power nothing is cleaned up.
LEMMA CleanUpOff ==
  ASSUME NEW d, Typed(d), d.power = "off", NEW i \in Inodes, NEW b, NEW o \in CleanUp(d, i, b)
  PROVE  o.disk = d
<1>1. PICK f \in fs_free_block(d, b) : o \in {Failed(g.disk) : g \in fs_free_inode(f.disk, i)}
  BY DEF CleanUp, Each
<1>2. PICK g \in fs_free_inode(f.disk, i) : o = Failed(g.disk)
  BY <1>1
<1>3. f.disk = d
  BY <1>1, FreeBlockOff
<1>4. g.disk = d
  BY <1>2, <1>3, FreeInodeOff
<1>5. QED
  BY <1>2, <1>4, Outcomes DEF Fails

\* Cleaning up frees what no member has.
LEMMA CleanUpLoose ==
  ASSUME NEW d, Typed(d), NEW L, Good(d, L), NEW i \in Inodes, i \notin L,
         d.type[i] # "free", Owned(d, {i}) \cap Owned(d, L) = {},
         NEW b, b \notin Owned(d, L), NEW o \in CleanUp(d, i, b)
  PROVE  Unchanged(d, o.disk, L) /\ Kept(d, o.disk)
<1>1. PICK f \in fs_free_block(d, b) : o \in {Failed(g.disk) : g \in fs_free_inode(f.disk, i)}
  BY DEF CleanUp, Each
<1>2. PICK g \in fs_free_inode(f.disk, i) : o = Failed(g.disk)
  BY <1>1
<1> DEFINE e == f.disk
<1>3. Unchanged(d, e, L) /\ Kept(d, e) /\ Alike(d, e)
  BY <1>1, FreeBlockLoose
<1>4. g \in fs_free_inode(e, i)
  BY <1>2
<1> HIDE DEF e
<1>5. Typed(e) /\ Good(e, L) /\ e.type[i] # "free" /\ i \in Inodes \ L
  BY <1>3 DEF Unchanged, Kept, Alike
<1>6. Owned(e, {i}) \cap Owned(e, L) = {}
  BY <1>3 DEF Alike, Owned
<1>7. Unchanged(e, g.disk, L) /\ Kept(e, g.disk)
  BY <1>4, <1>5, <1>6, FreeLoose
<1>8. Unchanged(d, g.disk, L) /\ Kept(d, g.disk)
  BY <1>3, <1>7, UnchangedTwice, KeptTwice
<1>9. QED
  BY <1>2, <1>8, Outcomes DEF Fails

\* fs_create_directory makes one new and empty directory, or nothing that is seen.
LEMMA CreateDirectory ==
  ASSUME NEW d, Typed(d), NEW L, Good(d, L), NEW dir \in L, d.type[dir] = "directory",
         NEW n \in Names, NEW o \in fs_create_directory(d, dir, n)
  PROVE  Created(d, o.disk, L, dir, n, "directory")
<1> DEFINE Rest(i, b) ==
             IF ~ b.ok THEN {Failed(f.disk) : f \in fs_free_inode(b.disk, i)}
             ELSE Each(
               Then(Read(b.disk), LAMBDA r :
               Then(Transfer(r.disk, [r.disk EXCEPT !.entries[b.val] = EmptyBlock]), LAMBDA z :
               Then(fs_write_inode(z.disk, i, "directory", [NoBlocks EXCEPT ![1] = b.val]), LAMBDA w :
                    fs_add_directory_entry(w.disk, dir, i, n)))),
               LAMBDA a : IF a.ok THEN {a} ELSE CleanUp(a.disk, i, b.val))
<1>1. PICK l \in fs_find_directory_entry(d, dir, n) :
        IF l.ok
        THEN o \in IF l.val # 0 THEN {Failed(l.disk)}
                   ELSE Then(fs_alloc_inode(l.disk, "directory"), LAMBDA i :
                        Each(fs_alloc_block(i.disk), LAMBDA b : Rest(i.val, b)))
        ELSE o = Failed(l.disk)
  BY DEF fs_create_directory, Then, Each
<1>2. /\ l.ok
      /\ \/ /\ l.disk = d /\ d.power = "on" /\ l.val = 0
            /\ \A x \in Listing(d, dir) : x.name # n
         \/ /\ l.disk = d /\ d.power = "on" /\ l.val # 0
         \/ l.disk = Off(d) /\ l.val = 0
  <2>1. Found(l, d, L, dir, n)
    BY FindEntry
  <2>2. QED
    BY <2>1 DEF Found
<1>3. Unchanged(d, d, L) /\ Kept(d, d) /\ Unchanged(d, Off(d), L) /\ Kept(d, Off(d))
  BY UnchangedOff, KeptOff DEF Kept
<1>4. CASE l.val # 0
  <2>1. o.disk = l.disk
    BY <1>1, <1>2, <1>4, Outcomes DEF Fails
  <2>2. QED
    BY <1>2, <1>3, <1>4, <2>1 DEF Created
<1>5. CASE l.val = 0
  <2>1. PICK i \in fs_alloc_inode(l.disk, "directory") :
          IF i.ok THEN o \in Each(fs_alloc_block(i.disk), LAMBDA b : Rest(i.val, b))
          ELSE o = Failed(i.disk)
    <3>1. o \in Then(fs_alloc_inode(l.disk, "directory"), LAMBDA i :
                     Each(fs_alloc_block(i.disk), LAMBDA b : Rest(i.val, b)))
      BY <1>1, <1>2, <1>5
    <3> HIDE DEF Rest
    <3>2. QED
      BY <3>1 DEF Then, Each
  <2>2. "directory" \in Types /\ "directory" # "free"
    BY DEF Types
  <2>3. CASE l.disk = Off(d)
    <3>1. Typed(Off(d)) /\ Off(d).power = "off"
      BY OffTyped
    <3>2. Fails(i, Off(d))
      BY <2>1, <2>2, <2>3, <3>1, AllocInodeOff
    <3>3. o.disk = Off(d)
      BY <2>1, <3>2, Outcomes DEF Fails
    <3>4. QED
      BY <1>3, <3>3 DEF Created
  <2>4. CASE /\ l.disk = d /\ d.power = "on"
             /\ \A x \in Listing(d, dir) : x.name # n
    <3>1. /\ ~ i.ok => Unchanged(d, i.disk, L) /\ Kept(d, i.disk)
          /\ i.ok => /\ i.val \in Inodes /\ i.val \notin L
                     /\ TakenFor(d, i.disk, i.val, "directory") /\ Kept(d, i.disk)
      BY <2>1, <2>2, <2>4, TakeInode
    <3>2. CASE ~ i.ok
      <4>1. o.disk = i.disk
        BY <2>1, <3>2, Outcomes DEF Fails
      <4>2. QED
        BY <3>1, <3>2, <4>1 DEF Created
    <3>3. CASE i.ok
      <4> DEFINE e == i.disk
                 j == i.val
      <4>1. /\ j \in Inodes /\ j \notin L /\ Typed(e) /\ TakenFor(d, e, j, "directory") /\ Kept(d, e)
            /\ e.power = "on"
        BY <2>4, <3>1, <3>3 DEF TakenFor
      <4>2. PICK b \in fs_alloc_block(e) : o \in Rest(j, b)
        <5> HIDE DEF Rest
        <5>1. QED
          BY <2>1, <3>3 DEF Each
      <4> HIDE DEF e, j
      <4>3. Unchanged(d, e, L) /\ Fresh(e, L, j) /\ e.type[j] = "directory"
        <5> DEFINE type == "directory"
        <5>1. type \in Types /\ type # "free" /\ j \in Inodes /\ j \notin L /\ TakenFor(d, e, j, type)
          BY <2>2, <4>1
        <5> HIDE DEF type
        <5>2. Unchanged(d, e, L)
          BY <5>1, NewInode
        <5>3. Fresh(e, L, j)
          BY <5>1, NewInode
        <5>4. e.type[j] = type
          BY <5>1, NewInode
        <5>5. QED
          BY <5>2, <5>3, <5>4 DEF type
      <4>4. Good(e, L) /\ e.type[dir] = "directory" /\ \A x \in Listing(e, dir) : x.name # n
        BY <2>4, <4>3 DEF Unchanged
      <4>5. \A f : Unchanged(e, f, L) => Unchanged(d, f, L)
        BY <4>3, UnchangedTwice
      <4>6. \A f : Kept(e, f) => Kept(d, f)
        BY <4>1, KeptTwice
      <4>7. ASSUME NEW f, Typed(f), Alike(e, f), e.used \subseteq f.used
            PROVE  /\ Unchanged(e, f, L) /\ Good(f, L) /\ f.type[j] = "directory"
                   /\ Owned(f, {j}) \cap Owned(f, L) = {}
                   /\ (f.power = "on" => e.power = "on") => Kept(e, f)
        <5>1. Unchanged(e, f, L)
          BY <4>1, <4>4, <4>7, MarkingUnseen
        <5>2. Owned(f, {j}) = Owned(e, {j}) /\ Owned(f, L) = Owned(e, L)
          BY <4>7 DEF Alike, Owned
        <5>3. (f.power = "on" => e.power = "on") => Kept(e, f)
          BY <4>7, KeptIf DEF Alike
        <5>4. QED
          BY <4>3, <4>7, <5>1, <5>2, <5>3 DEF Unchanged, Alike, Fresh
      <4>8. ASSUME NEW f, Typed(f), Alike(e, f), e.used \subseteq f.used, Fails(b, f)
            PROVE  Created(d, o.disk, L, dir, n, "directory")
        <5>1. PICK g \in fs_free_inode(f, j) : o = Failed(g.disk)
          BY <4>2, <4>8 DEF Fails
        <5>2. /\ Unchanged(e, f, L) /\ Good(f, L) /\ f.type[j] = "directory"
              /\ Owned(f, {j}) \cap Owned(f, L) = {} /\ Kept(e, f)
          BY <4>1, <4>7, <4>8
        <5>3. Unchanged(f, g.disk, L) /\ Kept(f, g.disk)
          <6>1. j \in Inodes \ L /\ f.type[j] # "free"
            BY <4>1, <5>2
          <6>2. QED
            BY <4>8, <5>1, <5>2, <6>1, FreeLoose
        <5>4. Unchanged(d, g.disk, L) /\ Kept(d, g.disk)
          BY <4>5, <4>6, <5>2, <5>3, UnchangedTwice, KeptTwice
        <5>5. QED
          BY <5>1, <5>4, Outcomes DEF Fails, Created
      <4>9. ASSUME NEW c \in Blocks \ e.used, Succeeds(b, Taken(e, c), c)
            PROVE  Created(d, o.disk, L, dir, n, "directory")
        <5> DEFINE f == Taken(e, c)
        <5>1. /\ Typed(f) /\ Alike(e, f) /\ f.used = e.used \cup {c} /\ f.power = "on"
          BY <4>1, BitmapChanges
        <5>2. b.ok /\ b.disk = f /\ b.val = c
          BY <4>9 DEF Succeeds
        <5> HIDE DEF f
        <5>3. /\ Unchanged(e, f, L) /\ Good(f, L) /\ f.type[j] = "directory" /\ Kept(e, f)
          BY <4>1, <4>7, <5>1
        <5>4. f.type[dir] = "directory" /\ \A x \in Listing(f, dir) : x.name # n
          BY <4>4, <5>3 DEF Unchanged
        <5>5. c \notin Owned(f, L) /\ c \in f.used /\ c \in Blocks
          <6>1. c \notin Owned(e, L)
            BY <4>4 DEF Good, Listed
          <6>2. QED
            BY <5>1, <6>1 DEF Alike, Owned
        <5>6. PICK a \in Making(b, dir, j, n) : o \in IF a.ok THEN {a} ELSE CleanUp(a.disk, j, c)
          BY <4>2, <5>2 DEF Each, Making
        <5>7. Made(a, f, L, dir, j, n, c)
          BY <4>1, <5>1, <5>2, <5>3, <5>4, <5>5, <5>6, MakeDirectory
        <5>8. Kept(f, a.disk) /\ Typed(a.disk) /\ a.disk.type[j] = "directory"
          BY <5>7 DEF Made, Kept
        <5>9. \A g : (Unchanged(f, g, L) => Unchanged(d, g, L)) /\ (Kept(f, g) => Kept(d, g))
          BY <4>5, <4>6, <5>3, UnchangedTwice, KeptTwice
        <5>10. Joined(f, a.disk, L, dir, j, n) => Created(d, a.disk, L, dir, n, "directory")
          <6>1. Joined(f, a.disk, L, dir, j, n) => Joined(d, a.disk, L, dir, j, n)
            BY <4>5, <5>3, UnchangedJoined
          <6>2. QED
            BY <4>1, <5>8, <5>9, <6>1 DEF Created
        <5>11. Unchanged(f, a.disk, L) => Created(d, a.disk, L, dir, n, "directory")
          BY <5>8, <5>9 DEF Created
        <5>12. CASE a.ok
          BY <5>6, <5>7, <5>10, <5>12 DEF Made
        <5>13. CASE ~ a.ok /\ a.disk.power = "off" /\ (Unchanged(f, a.disk, L) \/ Joined(f, a.disk, L, dir, j, n))
          <6>1. o.disk = a.disk
            BY <4>1, <5>6, <5>8, <5>13, CleanUpOff
          <6>2. QED
            BY <5>10, <5>11, <5>13, <6>1
        <5>14. CASE /\ ~ a.ok /\ Unchanged(f, a.disk, L)
                    /\ c \notin Owned(a.disk, L) /\ Owned(a.disk, {j}) \cap Owned(a.disk, L) = {}
          <6> DEFINE g == a.disk
          <6>1. /\ o \in CleanUp(g, j, c) /\ Typed(g) /\ Good(g, L) /\ g.type[j] # "free"
                /\ Unchanged(f, g, L) /\ Kept(f, g)
                /\ c \notin Owned(g, L) /\ Owned(g, {j}) \cap Owned(g, L) = {}
            BY <5>6, <5>8, <5>14 DEF Unchanged
          <6> HIDE DEF g
          <6>2. Unchanged(g, o.disk, L) /\ Kept(g, o.disk)
            BY <4>1, <6>1, CleanUpLoose
          <6>3. Unchanged(d, o.disk, L) /\ Kept(d, o.disk)
            BY <5>9, <6>1, <6>2, UnchangedTwice, KeptTwice
          <6>4. QED
            BY <6>3 DEF Created
        <5>15. QED
          BY <5>7, <5>12, <5>13, <5>14 DEF Made
      <4>10. CASE Fails(b, e)
        BY <4>1, <4>8, <4>10 DEF Alike
      <4>11. CASE Fails(b, Off(e))
        <5>1. Typed(Off(e)) /\ Alike(e, Off(e)) /\ Off(e).used = e.used
          BY <4>1, OffTyped DEF Alike
        <5>2. QED
          BY <4>8, <4>11, <5>1
      <4>12. ASSUME NEW c \in Blocks \ e.used, Fails(b, Off(Marked(e, c)))
             PROVE  Created(d, o.disk, L, dir, n, "directory")
        <5>1. /\ Typed(Marked(e, c)) /\ Alike(e, Marked(e, c)) /\ Marked(e, c).used = e.used \cup {c}
          BY <4>1, BitmapChanges
        <5>2. /\ Typed(Off(Marked(e, c))) /\ Alike(e, Off(Marked(e, c)))
              /\ Off(Marked(e, c)).used = e.used \cup {c}
          BY <5>1, OffTyped DEF Alike
        <5>3. QED
          BY <4>8, <4>12, <5>2
      <4>13. QED
        BY <4>1, <4>2, <4>9, <4>10, <4>11, <4>12, AllocBlock
    <3>4. QED
      BY <3>2, <3>3
  <2>5. QED
    BY <1>2, <1>5, <2>3, <2>4
<1>6. QED
  BY <1>4, <1>5

-----------------------------------------------------------------------------
(* Removing an entry *)

\* Where a member's entries are.
LEMMA PlacesAre ==
  ASSUME NEW d, Typed(d), NEW L, Good(d, L), NEW i \in L
  PROVE  /\ \A p \in Places(d, i) : \E b \in Owned(d, {i}) : \E s \in Slots : p = <<b, s>>
         /\ \A b \in Owned(d, {i}) : \A s \in Slots : <<b, s>> \in Places(d, i)
<1>1. i \in Inodes
  BY DEF Good, InUse
<1>2. \A k \in Indices : d.blocks[i][k] # 0 => d.blocks[i][k] \in Blocks
  BY <1>1, DiskAssumption DEF Typed, Blocks
<1>3. \A b \in Blocks : b # 0
  BY DEF Blocks
<1>4. \A k \in Assigned(d.blocks[i]) : k \in Indices /\ d.blocks[i][k] # 0
  <2>1. \A k \in 1 .. MaxBlocks : k \in 1 .. k
    BY DiskAssumption
  <2>2. QED
    BY <2>1 DEF Assigned, Indices
<1>5. \A k \in Indices : d.blocks[i][k] # 0 => k \in Assigned(d.blocks[i])
  <2>1. TAKE k \in Indices
  <2>2. \A j \in 1 .. k : j = k \/ (j \in Indices /\ j < k)
    BY DiskAssumption DEF Indices
  <2>3. QED
    BY <2>2 DEF Assigned, Indices, Good, Listed
<1>6. ASSUME NEW p \in Places(d, i)
      PROVE  \E b \in Owned(d, {i}) : \E s \in Slots : p = <<b, s>>
  <2>1. PICK k \in Assigned(d.blocks[i]), s \in Slots : p = <<d.blocks[i][k], s>>
    BY DEF Places
  <2>2. d.blocks[i][k] \in Owned(d, {i})
    BY <1>2, <1>4 DEF Owned
  <2>3. QED
    BY <2>1, <2>2
<1>7. ASSUME NEW b \in Owned(d, {i}), NEW s \in Slots
      PROVE  <<b, s>> \in Places(d, i)
  <2>1. PICK k \in Indices : d.blocks[i][k] = b /\ b \in Blocks
    BY DEF Owned
  <2>2. k \in Assigned(d.blocks[i])
    BY <1>3, <1>5, <2>1
  <2>3. QED
    BY <2>1, <2>2 DEF Places
<1>8. QED
  BY <1>6, <1>7

\* A member leaves when its entry goes, and the tree shows just that.
LEMMA EntryLeaves ==
  ASSUME NEW d, Typed(d), NEW L, Good(d, L), NEW dir \in L, NEW i, NEW n,
         NEW b \in Owned(d, {dir}), NEW s \in Slots, Filled(d, b, s),
         At(d, b, s) = [inode |-> i, name |-> n],
         NEW e, e = WithEntry(d, b, s, NoEntry)
  PROVE  Removed(d, e, L, dir, i, n)
<1> DEFINE M == L \ {i}
           x == [inode |-> i, name |-> n]
<1>1. b \in Blocks /\ b \in Owned(d, L) /\ At(d, b, s).inode = i /\ dir \in Inodes
  BY DEF Owned, Good, InUse
<1>2. i \in L \ {RootInode}
  BY <1>1 DEF Good, NamesOnce
<1>3. x \in Listing(d, dir)
  <2>1. At(d, b, s) \in Entry
    BY <1>1 DEF Typed, Filled, At
  <2>2. QED
    BY <2>1 DEF Listing
<1>4. /\ Typed(e) /\ e.used = d.used /\ e.type = d.type /\ e.blocks = d.blocks
  BY <1>1, WithEntryIs
<1>5. \A c \in Blocks : \A t \in Slots : At(e, c, t) = IF c = b /\ t = s THEN NoEntry ELSE At(d, c, t)
  <2>1. Gains(d, e, b, s, NoEntry)
    BY <1>1, WithEntryGains
  <2>2. QED
    BY <2>1 DEF Gains
<1>6. ~ Filled(e, b, s)
  BY <1>1, <1>5 DEF Filled
<1>7. \A c \in Blocks : \A t \in Slots : Filled(e, c, t) => /\ Filled(d, c, t) /\ At(e, c, t) = At(d, c, t)
                                                             /\ ~ (c = b /\ t = s)
  BY <1>5, <1>6 DEF Filled
<1>8. \A c \in Owned(d, L) : \A t \in Slots :
        Filled(d, c, t) /\ At(d, c, t).inode = i => c = b /\ t = s
  BY <1>1 DEF Good, NamesOnce
<1>9. Good(e, M)
  <2>1. M \subseteq L /\ RootInode \in M
    BY <1>2 DEF Good, InUse
  <2>2. \A j \in M : e.type[j] = d.type[j] /\ e.blocks[j] = d.blocks[j]
    BY <1>4
  <2>3. \A c \in Owned(d, M) : c \in Owned(d, L) /\ c \in Blocks
    BY DEF Owned
  <2>4. Owned(d, M) \subseteq e.used
    BY <1>4, <2>3 DEF Good, Listed
  <2>5. \A c \in Owned(d, M) : \A t \in Slots :
          /\ Filled(e, c, t) => At(e, c, t) = At(d, c, t)
          /\ Filled(e, c, t) => At(e, c, t).inode \in M
    <3>1. \A c \in Owned(d, L) : \A t \in Slots : Filled(d, c, t) => At(d, c, t).inode \in L
      BY DEF Good, NamesOnce
    <3>2. QED
      BY <1>7, <1>8, <2>3, <3>1
  <2> HIDE DEF M
  <2>6. QED
    BY <1>4, <2>1, <2>2, <2>4, <2>5, GoodKeeps
<1>10. \A j : Owned(e, {j}) = Owned(d, {j})
  BY <1>4 DEF Owned
<1>11. \A y \in Entry : y \in Listing(e, dir) <=> y \in Listing(d, dir) /\ y # x
  <2>1. ASSUME NEW y \in Entry, y \in Listing(e, dir)
        PROVE  y \in Listing(d, dir) /\ y # x
    <3>1. PICK c \in Owned(d, {dir}), t \in Slots : Filled(e, c, t) /\ At(e, c, t) = y
      BY <1>10, <2>1 DEF Listing
    <3>2. c \in Blocks /\ c \in Owned(d, L)
      BY DEF Owned
    <3>3. Filled(d, c, t) /\ At(d, c, t) = y /\ ~ (c = b /\ t = s)
      BY <1>7, <3>1, <3>2
    <3>4. y.inode # i
      BY <1>8, <3>2, <3>3
    <3>5. QED
      BY <3>3, <3>4 DEF Listing
  <2>2. ASSUME NEW y \in Entry, y \in Listing(d, dir), y # x
        PROVE  y \in Listing(e, dir)
    <3>1. PICK c \in Owned(d, {dir}), t \in Slots : Filled(d, c, t) /\ At(d, c, t) = y
      BY <2>2 DEF Listing
    <3>2. c \in Blocks /\ ~ (c = b /\ t = s)
      BY <2>2, <3>1 DEF Owned
    <3>3. Filled(e, c, t) /\ At(e, c, t) = y
      BY <1>5, <3>1, <3>2 DEF Filled
    <3>4. QED
      BY <1>10, <3>3 DEF Listing
  <2>3. QED
    BY <2>1, <2>2
<1>12. Listing(e, dir) = Listing(d, dir) \ {x}
  <2>1. Listing(e, dir) \subseteq Entry /\ Listing(d, dir) \subseteq Entry
    BY DEF Listing
  <2> HIDE DEF x
  <2>2. QED
    BY <1>11, <2>1
<1>13. \A j \in L : j # dir => Listing(e, j) = Listing(d, j)
  <2>1. TAKE j \in L
  <2>2. HAVE j # dir
  <2>3. \A c \in Owned(d, {j}) : c \in Blocks /\ c # b
    <3>1. \A k, l \in Indices : d.blocks[j][k] # 0 /\ d.blocks[j][k] = d.blocks[dir][l] => j = dir
      BY DEF Good, Listed
    <3>2. \A c \in Blocks : c # 0
      BY DEF Blocks
    <3>3. QED
      BY <2>2, <3>1, <3>2 DEF Owned
  <2>4. \A c \in Owned(d, {j}) : \A t \in Slots : At(e, c, t) = At(d, c, t)
    BY <1>5, <2>3
  <2>5. QED
    BY <1>10, <2>4 DEF Listing, Filled
<1>14. QED
  BY <1>2, <1>3, <1>4, <1>9, <1>12, <1>13 DEF Removed

\* What is left of the disk when an entry was to be removed: e when it was.
Dropped(o, d, e, L, dir, i, n) ==
  /\ Typed(e) /\ Removed(d, e, L, dir, i, n)
  /\ e.used = d.used /\ e.type = d.type /\ e.blocks = d.blocks /\ e.free_inodes = d.free_inodes
  /\ e.power = d.power
  /\ \/ Succeeds(o, e, 0) /\ d.power = "on"
     \/ Fails(o, Off(d))
     \/ Fails(o, Off(e))

\* fs_remove_directory_entry takes the name away, or the power goes before or after.
LEMMA RemoveEntry ==
  ASSUME NEW d, Typed(d), NEW L, Good(d, L), NEW dir \in L, NEW i, NEW n,
         [inode |-> i, name |-> n] \in Listing(d, dir),
         NEW o \in fs_remove_directory_entry(d, dir, n)
  PROVE  \E e : Dropped(o, d, e, L, dir, i, n)
<1> DEFINE found == {p \in Places(d, dir) : /\ d.entries[p[1]][p[2]] # NoEntry
                                            /\ d.entries[p[1]][p[2]].name = n}
           p     == CHOOSE q \in found : TRUE
           x     == [inode |-> i, name |-> n]
<1>1. PICK b \in Owned(d, {dir}), s \in Slots : Filled(d, b, s) /\ At(d, b, s) = x
  BY DEF Listing
<1>2. <<b, s>> \in found
  BY <1>1, PlacesAre DEF Filled, At
<1>3. p = <<b, s>>
  <2>1. p \in found
    BY <1>2
  <2> HIDE DEF p
  <2>2. PICK c \in Owned(d, {dir}), t \in Slots : p = <<c, t>>
    BY <2>1, PlacesAre
  <2>3. Filled(d, c, t) /\ At(d, c, t).name = n
    BY <2>1, <2>2 DEF Filled, At
  <2>4. At(d, b, s).name = n
    BY <1>1
  <2>5. c = b /\ t = s
    BY <1>1, <2>3, <2>4 DEF Good, NamesDiffer
  <2>6. QED
    BY <2>2, <2>5
<1> DEFINE e == WithEntry(d, b, s, NoEntry)
<1>4. b \in Blocks /\ dir \in Inodes
  BY DEF Owned, Good, InUse
<1>5. /\ Typed(e) /\ e.used = d.used /\ e.type = d.type /\ e.blocks = d.blocks
      /\ e.free_inodes = d.free_inodes /\ e.power = d.power
  BY <1>4, WithEntryIs
<1>6. Removed(d, e, L, dir, i, n)
  BY <1>1, EntryLeaves
<1>7. PICK r \in Read(d) :
        IF r.ok
        THEN o \in IF found = {} THEN {Failed(r.disk)}
                   ELSE Then(Transfer(r.disk, [r.disk EXCEPT !.entries[p[1]][p[2]] = NoEntry]), LAMBDA w :
                             fs_write_inode(w.disk, dir, w.disk.type[dir], w.disk.blocks[dir]))
        ELSE o = Failed(r.disk)
  BY DEF fs_remove_directory_entry, Then, Each
<1>8. CASE Fails(r, Off(d))
  <2>1. Fails(o, Off(d))
    BY <1>7, <1>8, Outcomes DEF Fails
  <2>2. QED
    BY <1>5, <1>6, <2>1 DEF Dropped
<1>9. CASE Succeeds(r, d, 0) /\ d.power = "on"
  <2>1. PICK w \in Transfer(d, e) :
          IF w.ok THEN o \in fs_write_inode(w.disk, dir, w.disk.type[dir], w.disk.blocks[dir])
          ELSE o = Failed(w.disk)
    <3>1. r.disk = d /\ r.ok
      BY <1>9 DEF Succeeds
    <3>2. o \in Then(Transfer(r.disk, [r.disk EXCEPT !.entries[p[1]][p[2]] = NoEntry]), LAMBDA w :
                             fs_write_inode(w.disk, dir, w.disk.type[dir], w.disk.blocks[dir]))
      BY <1>2, <1>7, <3>1
    <3>3. \E w \in Transfer(r.disk, [r.disk EXCEPT !.entries[p[1]][p[2]] = NoEntry]) :
             IF w.ok THEN o \in fs_write_inode(w.disk, dir, w.disk.type[dir], w.disk.blocks[dir])
             ELSE o = Failed(w.disk)
      <4> HIDE DEF p
      <4>1. QED
        BY <3>2 DEF Then, Each
    <3>4. e = [d EXCEPT !.entries[p[1]][p[2]] = NoEntry]
      <4> HIDE DEF p
      <4>1. p[1] = b /\ p[2] = s
        BY <1>3
      <4>2. QED
        BY <4>1 DEF WithEntry
    <3> HIDE DEF e, p
    <3>5. QED
      BY <3>1, <3>3, <3>4
  <2>2. CASE Fails(w, Off(d))
    <3>1. Fails(o, Off(d))
      BY <2>1, <2>2, Outcomes DEF Fails
    <3>2. QED
      BY <1>5, <1>6, <3>1 DEF Dropped
  <2>3. CASE Succeeds(w, e, 0)
    <3>1. o \in fs_write_inode(e, dir, e.type[dir], e.blocks[dir])
      BY <2>1, <2>3 DEF Succeeds
    <3>2. Put(e, dir, e.type[dir], e.blocks[dir]) = e
      <4> HIDE DEF e
      <4>1. QED
        BY <1>4, <1>5 DEF Typed, Put
    <3>3. Succeeds(o, e, 0) \/ Fails(o, Off(e))
      <4> HIDE DEF e
      <4>1. QED
        BY <1>5, <3>1, <3>2, WriteInode
    <3> HIDE DEF e
    <3>4. QED
      BY <1>5, <1>6, <1>9, <3>3 DEF Dropped
  <2>4. QED
    BY <2>1, <2>2, <2>3, TransferIs
<1>10. QED
  BY <1>7, <1>8, <1>9, TransferIs DEF Read

\* What is left of the disk when a name was to be removed.
Deleted(d, e, L, dir, n) ==
  /\ Kept(d, e)
  /\ Unchanged(d, e, L) \/ \E i : Removed(d, e, L, dir, i, n)

\* fs_delete_file removes one member with its name, or nothing that is seen.
LEMMA DeleteFile ==
  ASSUME NEW d, Typed(d), NEW L, Good(d, L), NEW dir \in L, NEW n,
         NEW o \in fs_delete_file(d, dir, n)
  PROVE  Deleted(d, o.disk, L, dir, n)
<1>1. PICK l \in fs_find_directory_entry(d, dir, n) :
        IF l.ok
        THEN o \in IF l.val = 0 THEN {Failed(l.disk)}
                   ELSE Then(fs_remove_directory_entry(l.disk, dir, n), LAMBDA r :
                             fs_free_inode(r.disk, l.val))
        ELSE o = Failed(l.disk)
  BY DEF fs_delete_file, Then, Each
<1>2. Found(l, d, L, dir, n)
  BY FindEntry
<1>3. Unchanged(d, d, L) /\ Kept(d, d) /\ Unchanged(d, Off(d), L) /\ Kept(d, Off(d))
  BY UnchangedOff, KeptOff DEF Kept
<1>4. CASE l.val = 0
  <2>1. o.disk = l.disk
    BY <1>1, <1>2, <1>4, Outcomes DEF Fails, Found
  <2>2. QED
    BY <1>2, <1>3, <1>4, <2>1 DEF Deleted, Found
<1>5. CASE l.val # 0
  <2> DEFINE i == l.val
  <2>1. l.disk = d /\ l.ok /\ d.power = "on" /\ i \in L \ {RootInode}
        /\ [inode |-> i, name |-> n] \in Listing(d, dir)
    BY <1>2, <1>5 DEF Found
  <2>2. PICK r \in fs_remove_directory_entry(d, dir, n) :
          IF r.ok THEN o \in fs_free_inode(r.disk, i) ELSE o = Failed(r.disk)
    <3>1. o \in Then(fs_remove_directory_entry(l.disk, dir, n), LAMBDA r :
                             fs_free_inode(r.disk, l.val))
      BY <1>1, <1>5, <2>1
    <3>2. \E r \in fs_remove_directory_entry(l.disk, dir, n) :
            IF r.ok THEN o \in fs_free_inode(r.disk, l.val) ELSE o = Failed(r.disk)
      BY <3>1 DEF Then, Each
    <3>3. QED
      BY <2>1, <3>2
  <2> HIDE DEF i
  <2>3. PICK e : Dropped(r, d, e, L, dir, i, n)
    BY <2>1, <2>2, RemoveEntry
  <2>4. /\ Typed(e) /\ Removed(d, e, L, dir, i, n)
        /\ e.type = d.type /\ e.blocks = d.blocks /\ e.free_inodes = d.free_inodes /\ e.power = d.power
    BY <2>3 DEF Dropped
  <2>5. Kept(d, e) /\ Kept(d, Off(e))
    BY <2>4, KeptIf, KeptOff
  <2>6. CASE Fails(r, Off(d))
    <3>1. o.disk = Off(d)
      BY <2>2, <2>6, Outcomes DEF Fails
    <3>2. QED
      BY <1>3, <3>1 DEF Deleted
  <2>7. CASE Fails(r, Off(e))
    <3>1. o.disk = Off(e)
      BY <2>2, <2>7, Outcomes DEF Fails
    <3>2. Removed(d, Off(e), L, dir, i, n)
      BY <2>4, PowerGoes
    <3>3. QED
      BY <2>5, <3>1, <3>2 DEF Deleted
  <2>8. CASE Succeeds(r, e, 0)
    <3> DEFINE M == L \ {i}
    <3>1. o \in fs_free_inode(e, i)
      BY <2>2, <2>8 DEF Succeeds
    <3>2. Good(e, M) /\ i \in Inodes \ M /\ i \in L
      BY <2>1, <2>4 DEF Removed, Good, InUse
    <3>3. e.type[i] # "free"
      BY <2>4, <3>2 DEF Good, InUse
    <3>4. Owned(e, {i}) \cap Owned(e, M) = {}
      <4>1. \A j \in M : \A k, m \in Indices :
              d.blocks[i][k] # 0 => d.blocks[i][k] # d.blocks[j][m]
        BY <3>2 DEF Good, Listed
      <4>2. \A c \in Blocks : c # 0
        BY DEF Blocks
      <4>3. QED
        BY <2>4, <4>1, <4>2 DEF Owned
    <3> HIDE DEF M
    <3>5. Unchanged(e, o.disk, M) /\ Kept(e, o.disk)
      BY <2>4, <3>1, <3>2, <3>3, <3>4, FreeLoose
    <3>6. Removed(d, o.disk, L, dir, i, n)
      BY <2>4, <3>5 DEF Removed, Unchanged, M
    <3>7. QED
      BY <2>5, <3>5, <3>6, KeptTwice DEF Deleted
  <2>9. QED
    BY <2>3, <2>6, <2>7, <2>8 DEF Dropped
<1>6. QED
  BY <1>4, <1>5

-----------------------------------------------------------------------------
(* Writing a file *)

\* Blocks were marked, and members' blocks hold the entries they held.
Grown(d, e, L) ==
  /\ Typed(e) /\ e.type = d.type /\ e.blocks = d.blocks /\ e.free_inodes = d.free_inodes
  /\ d.used \subseteq e.used
  /\ \A b \in Owned(d, L) : e.entries[b] = d.entries[b]
  /\ e.power = "on" => d.power = "on"

\* Blocks a file has gathered are not seen before its inode is written.
LEMMA GrownIs ==
  ASSUME NEW d, Typed(d), NEW L, Good(d, L), NEW e, Grown(d, e, L)
  PROVE  Unchanged(d, e, L) /\ Kept(d, e) /\ Grown(d, Off(e), L) /\ Typed(e)
<1>1. Owned(d, L) \subseteq e.used
  BY DEF Grown, Good, Listed
<1>2. Unchanged(d, e, L)
  BY <1>1, UnchangedIf DEF Grown
<1>3. Kept(d, e)
  BY KeptIf DEF Grown
<1>4. Grown(d, Off(e), L)
  BY OffTyped DEF Grown
<1>5. QED
  BY <1>2, <1>3, <1>4 DEF Grown

\* One block more, marked and zeroed.
LEMMA GrownMore ==
  ASSUME NEW d, NEW L, NEW e, Grown(d, e, L), NEW b \in Blocks
  PROVE  /\ Grown(d, Marked(e, b), L) /\ Grown(d, Taken(e, b), L)
         /\ (b \in Owned(d, L) => d.entries[b] = EmptyBlock) => Grown(d, WithEmpty(e, b), L)
<1>1. Typed(e)
  BY DEF Grown
<1>0. ASSUME NEW f, Typed(f), Alike(e, f), f.used = e.used \cup {b}, f.power = e.power
      PROVE  Grown(d, f, L)
  BY <1>0 DEF Grown, Alike
<1>2. Grown(d, Marked(e, b), L)
  <2>1. /\ Typed(Marked(e, b)) /\ Alike(e, Marked(e, b)) /\ Marked(e, b).used = e.used \cup {b}
        /\ Marked(e, b).power = e.power
    BY <1>1, BitmapChanges
  <2>2. QED
    BY <1>0, <2>1
<1>3. Grown(d, Taken(e, b), L)
  <2>1. /\ Typed(Taken(e, b)) /\ Alike(e, Taken(e, b)) /\ Taken(e, b).used = e.used \cup {b}
        /\ Taken(e, b).power = e.power
    BY <1>1, BitmapChanges
  <2>2. QED
    BY <1>0, <2>1
<1>4. ASSUME b \in Owned(d, L) => d.entries[b] = EmptyBlock
      PROVE  Grown(d, WithEmpty(e, b), L)
  <2> DEFINE f == WithEmpty(e, b)
  <2>1. /\ Typed(f) /\ f.used = e.used /\ f.type = e.type /\ f.blocks = e.blocks /\ f.power = e.power
        /\ f.free_inodes = e.free_inodes
        /\ \A c \in Blocks : c # b => f.entries[c] = e.entries[c]
    BY <1>1, WithEmptyIs
  <2>2. f.entries[b] = EmptyBlock
    BY <1>1 DEF WithEmpty, Typed
  <2> HIDE DEF f
  <2>3. \A c \in Owned(d, L) : f.entries[c] = d.entries[c]
    BY <1>4, <2>1, <2>2 DEF Grown, Owned
  <2>4. /\ e.type = d.type /\ e.blocks = d.blocks /\ e.free_inodes = d.free_inodes
        /\ d.used \subseteq e.used /\ (e.power = "on" => d.power = "on")
    BY DEF Grown
  <2>5. /\ Typed(f) /\ f.type = d.type /\ f.blocks = d.blocks /\ f.free_inodes = d.free_inodes
        /\ d.used \subseteq f.used /\ (f.power = "on" => d.power = "on")
    BY <2>1, <2>4
  <2>6. QED
    BY <2>3, <2>5 DEF Grown, f
<1>5. QED
  BY <1>2, <1>3, <1>4

\* A file's blocks hold no entry.
LEMMA FileBlocksEmpty ==
  ASSUME NEW d, Typed(d), NEW L, Good(d, L), NEW i \in L, d.type[i] # "directory", NEW b \in Owned(d, {i})
  PROVE  d.entries[b] = EmptyBlock
<1>1. \A s \in Slots : d.entries[b][s] = NoEntry
  BY DEF Good, OnlyDirectories, Filled, At
<1>2. b \in Blocks /\ d.entries[b] \in [Slots -> Entry \cup {NoEntry}]
  BY DEF Owned, Typed
<1>3. d.entries[b] = [s \in Slots |-> d.entries[b][s]]
  BY <1>2
<1>4. QED
  BY <1>1, <1>3 DEF EmptyBlock

\* The blocks that write_file has put together for inode i, up to index k.
Assembled(v, d, e, L, i, k) ==
  /\ v \in [Indices -> 0 .. NBlocks]
  /\ \A l \in Indices :
       \/ v[l] = d.blocks[i][l]
       \/ /\ d.blocks[i][l] = 0
          /\ v[l] \in Blocks \ Owned(d, L) /\ v[l] \in e.used
          /\ \A s \in Slots : ~ Filled(e, v[l], s)
  /\ \A l, m \in Indices : v[l] # 0 /\ v[l] = v[m] => l = m
  /\ \A l \in Indices : l <= k => v[l] # 0
  /\ \A l \in Indices : l > k => v[l] = d.blocks[i][l]

Wrote(o, d, L, i, k) ==
  Grown(d, o.disk, L) /\ (o.ok => Assembled(o.val, d, o.disk, L, i, k))

\* The next block of the file is block b, new or not.
LEMMA AssembledMore ==
  ASSUME NEW d, Typed(d), NEW L, Good(d, L), NEW i \in L,
         NEW k \in Indices, NEW e, Grown(d, e, L), NEW v, Assembled(v, d, e, L, i, k - 1),
         NEW f, Grown(d, f, L), e.used \subseteq f.used, NEW b \in Blocks, b \in f.used,
         \A s \in Slots : ~ Filled(f, b, s),
         \A c \in Blocks : c # b => f.entries[c] = e.entries[c],
         \/ v[k] = b
         \/ v[k] = 0 /\ b \notin e.used
  PROVE  Assembled([v EXCEPT ![k] = b], d, f, L, i, k)
<1> DEFINE u == [v EXCEPT ![k] = b]
<1>1. b \in 0 .. NBlocks /\ b # 0 /\ k \in Int
  BY DiskAssumption DEF Blocks, Indices
<1>2. /\ u \in [Indices -> 0 .. NBlocks] /\ u[k] = b
      /\ \A l \in Indices : l # k => u[l] = v[l]
  BY <1>1 DEF Assembled
<1> HIDE DEF u
<1>3. v[k] = d.blocks[i][k]
  BY <1>1 DEF Assembled
<1>4. Owned(d, L) \subseteq e.used
  BY DEF Good, Listed, Grown
<1>5. \A l \in Indices : v[l] # 0 => v[l] \in e.used
  <2>1. TAKE l \in Indices
  <2>2. HAVE v[l] # 0
  <2>3. CASE v[l] = d.blocks[i][l]
    <3>1. v[l] \in Blocks
      BY <2>2, DiskAssumption DEF Assembled, Blocks
    <3>2. v[l] \in Owned(d, L)
      BY <2>3, <3>1 DEF Owned
    <3>3. QED
      BY <1>4, <3>2
  <2>4. CASE v[l] # d.blocks[i][l]
    BY <2>4 DEF Assembled
  <2>5. QED
    BY <2>3, <2>4
<1>6. \A l \in Indices :
        \/ u[l] = d.blocks[i][l]
        \/ /\ d.blocks[i][l] = 0
           /\ u[l] \in Blocks \ Owned(d, L) /\ u[l] \in f.used
           /\ \A s \in Slots : ~ Filled(f, u[l], s)
  <2>1. TAKE l \in Indices
  <2>2. CASE l = k /\ v[k] = b
    BY <1>2, <1>3, <2>2
  <2>3. CASE l = k /\ v[k] = 0 /\ b \notin e.used
    BY <1>2, <1>3, <1>4, <2>3
  <2>4. CASE l # k /\ u[l] # d.blocks[i][l]
    <3>1. /\ d.blocks[i][l] = 0 /\ u[l] = v[l]
          /\ v[l] \in Blocks \ Owned(d, L) /\ v[l] \in e.used
          /\ \A s \in Slots : ~ Filled(e, v[l], s)
      BY <1>2, <2>4 DEF Assembled
    <3>2. \A s \in Slots : ~ Filled(f, v[l], s)
      <4>1. CASE v[l] = b
        BY <4>1
      <4>2. CASE v[l] # b
        <5>1. f.entries[v[l]] = e.entries[v[l]]
          BY <3>1, <4>2
        <5>2. QED
          BY <3>1, <5>1 DEF Filled, At
      <4>3. QED
        BY <4>1, <4>2
    <3>3. QED
      BY <3>1, <3>2
  <2>5. QED
    BY <2>2, <2>3, <2>4
<1>7. \A l, m \in Indices : u[l] # 0 /\ u[l] = u[m] => l = m
  <2>1. \A l \in Indices : l # k => v[l] # b
    <3>1. CASE v[k] = b
      BY <1>1, <3>1 DEF Assembled
    <3>2. CASE b \notin e.used
      BY <1>1, <1>5, <3>2
    <3>3. QED
      BY <3>1, <3>2
  <2>2. \A l, m \in Indices : v[l] # 0 /\ v[l] = v[m] => l = m
    BY DEF Assembled
  <2>3. QED
    BY <1>1, <1>2, <2>1, <2>2
<1>8. \A l \in Indices : l <= k => u[l] # 0
  <2>1. \A l \in Indices : l <= k /\ l # k => l <= k - 1
    BY <1>1 DEF Indices
  <2>2. QED
    BY <1>1, <1>2, <2>1 DEF Assembled
<1>9. \A l \in Indices : l > k => u[l] = d.blocks[i][l]
  <2>1. \A l \in Indices : l > k => l > k - 1 /\ l # k
    BY <1>1 DEF Indices
  <2>2. QED
    BY <1>2, <2>1 DEF Assembled
<1>10. QED
  BY <1>2, <1>6, <1>7, <1>8, <1>9 DEF Assembled, u

\* One turn of fs_write_file's loop.
WriteTurn(S, k, type) ==
  Then(S, LAMBDA o :
  Then(IF o.val[k] = 0 THEN fs_alloc_block(o.disk)
       ELSE {[r EXCEPT !.val = o.val[k]] : r \in Read(o.disk)}, LAMBDA b :
  Then(WriteBlock(b.disk, b.val, type), LAMBDA w :
       {Done(w.disk, [o.val EXCEPT ![k] = b.val])})))

FirstRead(d, i) == {[r EXCEPT !.val = d.blocks[i]] : r \in Read(d)}

IsWritten(t, n, d, i, first) ==
  t = [k \in first - 1 .. n |-> IF k = first - 1 THEN FirstRead(d, i) ELSE WriteTurn(t[k - 1], k, d.type[i])]

\* The loop of fs_write_file is well defined.
LEMMA WrittenExists ==
  ASSUME NEW d, NEW i, NEW first \in Indices, NEW last \in Indices, first <= last
  PROVE  \E t : IsWritten(t, last, d, i, first)
<1> DEFINE T == {m \in Nat : \E t : IsWritten(t, first - 1 + m, d, i, first)}
           n == last - (first - 1)
<1>1. first - 1 \in Nat /\ n \in Nat /\ first - 1 + n = last
  BY DEF Indices
<1>2. 0 \in T
  <2> DEFINE t == [k \in first - 1 .. first - 1 |-> FirstRead(d, i)]
  <2>1. first - 1 + 0 = first - 1
    BY <1>1
  <2>2. IsWritten(t, first - 1, d, i, first)
    BY <1>1 DEF IsWritten
  <2>3. QED
    BY <2>1, <2>2
<1>3. ASSUME NEW m \in 0 .. n - 1, m \in T PROVE m + 1 \in T
  <2> DEFINE p == first - 1 + m
  <2>1. PICK t : IsWritten(t, p, d, i, first)
    BY <1>3
  <2>2. p \in Nat /\ p >= first - 1 /\ first - 1 + (m + 1) = p + 1
    BY <1>1
  <2> HIDE DEF p
  <2> DEFINE u == [k \in first - 1 .. p + 1 |->
                     IF k = first - 1 THEN FirstRead(d, i) ELSE WriteTurn(t[k - 1], k, d.type[i])]
  <2>3. \A k \in first - 1 .. p : u[k] = t[k]
    <3>1. \A k \in first - 1 .. p : k \in first - 1 .. p + 1
      BY <1>1, <2>2
    <3>2. QED
      BY <2>1, <3>1 DEF IsWritten
  <2>4. \A k \in first - 1 .. p + 1 : k # first - 1 => u[k - 1] = t[k - 1]
    <3>1. \A k \in first - 1 .. p + 1 : k # first - 1 => k - 1 \in first - 1 .. p
      BY <1>1, <2>2
    <3> HIDE DEF u
    <3>2. QED
      BY <2>3, <3>1
  <2>5. u = [k \in first - 1 .. p + 1 |->
               IF k = first - 1 THEN FirstRead(d, i) ELSE WriteTurn(u[k - 1], k, d.type[i])]
    BY <2>4
  <2> HIDE DEF u
  <2>6. IsWritten(u, p + 1, d, i, first)
    BY <2>5 DEF IsWritten
  <2>7. QED
    BY <1>1, <2>2, <2>6
<1> HIDE DEF T, n
<1>4. \A m \in 0 .. n : m \in T
  BY <1>1, <1>2, <1>3, UpTo
<1>5. n \in T
  BY <1>1, <1>4
<1>6. QED
  BY <1>1, <1>5 DEF T

\* A turn leaves the next block of the file empty, and assigned if it was not.
LEMMA WriteTurnKeeps ==
  ASSUME NEW d, Typed(d), NEW L, Good(d, L), NEW i \in L, d.type[i] # "directory",
         NEW k \in Indices, NEW S, \A o \in S : Wrote(o, d, L, i, k - 1),
         NEW g \in WriteTurn(S, k, d.type[i])
  PROVE  Wrote(g, d, L, i, k)
<1>1. PICK o \in S :
        IF o.ok
        THEN g \in Then(IF o.val[k] = 0 THEN fs_alloc_block(o.disk)
                        ELSE {[r EXCEPT !.val = o.val[k]] : r \in Read(o.disk)}, LAMBDA b :
                   Then(WriteBlock(b.disk, b.val, d.type[i]), LAMBDA w :
                        {Done(w.disk, [o.val EXCEPT ![k] = b.val])}))
        ELSE g = Failed(o.disk)
  BY DEF WriteTurn, Then, Each
<1> DEFINE e == o.disk
           v == o.val
<1>2. Grown(d, e, L) /\ (o.ok => Assembled(v, d, e, L, i, k - 1))
  BY DEF Wrote
<1>3. Typed(e) /\ Grown(d, Off(e), L) /\ Grown(d, e, L)
  BY <1>2, GrownIs
<1>4. ASSUME NEW f, Fails(g, f), Grown(d, f, L)
      PROVE  Wrote(g, d, L, i, k)
  BY <1>4 DEF Fails, Wrote
<1>5. CASE ~ o.ok
  BY <1>1, <1>3, <1>4, <1>5, Outcomes
<1>6. CASE o.ok
  <2>1. PICK b \in IF v[k] = 0 THEN fs_alloc_block(e) ELSE {[r EXCEPT !.val = v[k]] : r \in Read(e)} :
          IF b.ok
          THEN g \in Then(WriteBlock(b.disk, b.val, d.type[i]), LAMBDA w :
                          {Done(w.disk, [v EXCEPT ![k] = b.val])})
          ELSE g = Failed(b.disk)
    <3>1. g \in Then(IF o.val[k] = 0 THEN fs_alloc_block(o.disk)
                     ELSE {[r EXCEPT !.val = o.val[k]] : r \in Read(o.disk)}, LAMBDA b :
                Then(WriteBlock(b.disk, b.val, d.type[i]), LAMBDA w :
                     {Done(w.disk, [o.val EXCEPT ![k] = b.val])}))
      BY <1>1, <1>6
    <3>2. QED
      BY <3>1 DEF Then, Each
  <2> HIDE DEF e, v
  <2>2. Assembled(v, d, e, L, i, k - 1)
    BY <1>2, <1>6
  <2>3. v[k] = d.blocks[i][k] /\ d.blocks[i][k] \in 0 .. NBlocks
    <3>1. k > k - 1
      BY DEF Indices
    <3>2. v[k] = d.blocks[i][k] /\ v[k] \in 0 .. NBlocks
      BY <2>2, <3>1 DEF Assembled
    <3>3. QED
      BY <3>2
  <2>4. \/ b.ok /\ \E c \in Blocks \ e.used : b.disk = Taken(e, c) /\ b.val = c /\ v[k] = 0
        \/ b.ok /\ b.disk = e /\ b.val = v[k] /\ v[k] \in Blocks
        \/ ~ b.ok /\ Grown(d, b.disk, L)
    <3>1. CASE v[k] = 0
      <4>1. b \in fs_alloc_block(e)
        BY <2>1, <3>1
      <4>2. \/ Fails(b, e)
            \/ Fails(b, Off(e))
            \/ \E c \in Blocks \ e.used :
                 \/ Succeeds(b, Taken(e, c), c)
                 \/ Fails(b, Off(Marked(e, c)))
        BY <1>3, <4>1, AllocBlock
      <4>3. \A c \in Blocks : Grown(d, Off(Marked(e, c)), L)
        BY <1>3, GrownMore, GrownIs
      <4>4. QED
        BY <1>3, <3>1, <4>2, <4>3 DEF Succeeds, Fails
    <3>2. CASE v[k] # 0
      <4>1. PICK r \in Read(e) : b = [r EXCEPT !.val = v[k]]
        BY <2>1, <3>2
      <4>2. Succeeds(r, e, 0) \/ Fails(r, Off(e))
        BY <1>3, <4>1, TransferIs DEF Read
      <4>3. b.ok = r.ok /\ b.disk = r.disk /\ (r.ok => b.val = v[k])
        BY <4>1, <4>2 DEF Succeeds, Fails, Done, Failed
      <4>4. v[k] \in Blocks
        BY <2>3, <3>2, DiskAssumption DEF Blocks
      <4>5. QED
        BY <1>3, <4>2, <4>3, <4>4 DEF Succeeds, Fails
    <3>3. QED
      BY <3>1, <3>2
  <2>5. CASE ~ b.ok
    BY <1>4, <2>1, <2>4, <2>5, Outcomes
  <2>6. CASE b.ok
    <3> DEFINE c == b.val
               f == b.disk
    <3>1. /\ c \in Blocks /\ Grown(d, f, L) /\ c \in f.used /\ e.used \subseteq f.used
          /\ f.entries = e.entries
          /\ v[k] = c \/ (v[k] = 0 /\ c \notin e.used)
      <4>1. CASE \E x \in Blocks \ e.used : f = Taken(e, x) /\ c = x /\ v[k] = 0
        <5>1. f = Taken(e, c) /\ v[k] = 0 /\ c \in Blocks \ e.used
          BY <4>1
        <5> HIDE DEF c, f
        <5>2. Taken(e, c).used = e.used \cup {c} /\ Alike(e, Taken(e, c))
          BY <1>3, <5>1, BitmapChanges
        <5>3. Grown(d, Taken(e, c), L)
          BY <1>3, <5>1, GrownMore
        <5>4. QED
          BY <5>1, <5>2, <5>3 DEF Alike
      <4>2. CASE f = e /\ c = v[k] /\ v[k] \in Blocks
        <5>1. c \in Owned(d, L) /\ c \in d.used
          BY <2>3, <4>2 DEF Owned, Good, Listed
        <5>2. c \in e.used
          BY <1>3, <5>1 DEF Grown
        <5>3. QED
          BY <1>3, <4>2, <5>2
      <4>3. QED
        BY <2>4, <2>6, <4>1, <4>2
    <3>2. PICK w \in Transfer(f, WithEmpty(f, c)) :
            IF w.ok THEN g = Done(w.disk, [v EXCEPT ![k] = c]) ELSE g = Failed(w.disk)
      <4>1. g \in Then(WriteBlock(b.disk, b.val, d.type[i]), LAMBDA w :
                          {Done(w.disk, [v EXCEPT ![k] = b.val])})
        BY <2>1, <2>6
      <4>2. QED
        BY <4>1 DEF Then, Each, WriteBlock, WithEmpty
    <3> HIDE DEF c, f
    <3>3. Typed(f) /\ Grown(d, Off(f), L)
      BY <3>1, GrownIs
    <3>4. c \in Owned(d, L) => d.entries[c] = EmptyBlock
      <4>1. SUFFICES ASSUME c \in Owned(d, L) PROVE d.entries[c] = EmptyBlock
        OBVIOUS
      <4>2. c \in e.used
        BY <1>3, <4>1 DEF Good, Listed, Grown
      <4>3. v[k] = c
        BY <3>1, <4>2
      <4>4. c \in Owned(d, {i})
        BY <2>3, <3>1, <4>3 DEF Owned
      <4>5. QED
        BY <4>4, FileBlocksEmpty
    <3>5. Grown(d, WithEmpty(f, c), L)
      BY <3>1, <3>4, GrownMore
    <3>6. CASE Fails(w, Off(f))
      <4>1. Fails(g, Off(f))
        BY <3>2, <3>6, Outcomes DEF Fails
      <4>2. QED
        BY <1>4, <3>3, <4>1
    <3>7. CASE Succeeds(w, WithEmpty(f, c), 0)
      <4> DEFINE h == WithEmpty(f, c)
      <4>1. g.disk = h /\ g.val = [v EXCEPT ![k] = c]
        BY <3>2, <3>7 DEF Succeeds, Done
      <4>2. /\ h.used = f.used /\ \A s \in Slots : ~ Filled(h, c, s)
            /\ \A x \in Blocks : x # c => h.entries[x] = f.entries[x]
        BY <3>1, <3>3, WithEmptyIs
      <4>3. Grown(d, h, L)
        BY <3>5
      <4> HIDE DEF h
      <4>4. /\ e.used \subseteq h.used /\ c \in h.used
            /\ \A x \in Blocks : x # c => h.entries[x] = e.entries[x]
        BY <3>1, <4>2
      <4>5. Assembled([v EXCEPT ![k] = c], d, h, L, i, k)
        BY <1>3, <2>2, <3>1, <4>2, <4>3, <4>4, AssembledMore
      <4>6. QED
        BY <4>1, <4>3, <4>5 DEF Wrote
    <3>8. QED
      BY <3>2, <3>3, <3>6, <3>7, TransferIs
  <2>7. QED
    BY <2>5, <2>6
<1>7. QED
  BY <1>5, <1>6

\* fs_write_file changes nothing of the tree, whether its inode is written or not.
LEMMA WriteFile ==
  ASSUME NEW d, Typed(d), NEW L, Good(d, L), NEW i \in L, d.type[i] # "directory",
         NEW first \in Indices, NEW last \in Indices, first <= last,
         \A k \in 1 .. first - 1 : d.blocks[i][k] # 0,
         NEW o \in fs_write_file(d, i, first, last)
  PROVE  Unchanged(d, o.disk, L) /\ Kept(d, o.disk)
<1>1. PICK t : /\ IsWritten(t, last, d, i, first)
               /\ o \in Then(t[last], LAMBDA f : fs_write_inode(f.disk, i, f.disk.type[i], f.val))
  <2> DEFINE t == CHOOSE t : IsWritten(t, last, d, i, first)
  <2>1. IsWritten(t, last, d, i, first)
    BY WrittenExists
  <2>2. o \in Then(t[last], LAMBDA f : fs_write_inode(f.disk, i, f.disk.type[i], f.val))
    BY DEF fs_write_file, IsWritten, WriteTurn, FirstRead
  <2>3. QED
    BY <2>1, <2>2
<1>2. first - 1 \in Nat /\ last \in Nat /\ first - 1 <= last
  BY DEF Indices
<1>3. /\ t[first - 1] = FirstRead(d, i)
      /\ \A k \in first .. last : t[k] = WriteTurn(t[k - 1], k, d.type[i])
  <2>1. \A k \in first - 1 .. last :
          t[k] = IF k = first - 1 THEN FirstRead(d, i) ELSE WriteTurn(t[k - 1], k, d.type[i])
    BY <1>1 DEF IsWritten
  <2>2. first - 1 \in first - 1 .. last
    BY <1>2
  <2>3. \A k \in first .. last : k \in first - 1 .. last /\ k # first - 1
    BY DEF Indices
  <2>4. QED
    BY <2>1, <2>2, <2>3
<1>4. \A g \in t[last] : Wrote(g, d, L, i, last)
  <2> DEFINE n == last - (first - 1)
             T == {m \in Nat : \A g \in t[first - 1 + m] : Wrote(g, d, L, i, first - 1 + m)}
  <2>1. n \in Nat /\ first - 1 + n = last
    BY <1>2
  <2>2. 0 \in T
    <3>1. SUFFICES ASSUME NEW g \in FirstRead(d, i) PROVE Wrote(g, d, L, i, first - 1)
      <4>1. first - 1 + 0 = first - 1
        BY <1>2
      <4>2. QED
        BY <1>3, <4>1
    <3>2. PICK r \in Read(d) : g = [r EXCEPT !.val = d.blocks[i]]
      BY DEF FirstRead
    <3>3. Succeeds(r, d, 0) \/ Fails(r, Off(d))
      BY TransferIs DEF Read
    <3>4. g.ok = r.ok /\ g.disk = r.disk /\ (r.ok => g.val = d.blocks[i])
      BY <3>2, <3>3 DEF Succeeds, Fails, Done, Failed
    <3>5. Grown(d, d, L)
      BY DEF Grown
    <3>6. Grown(d, Off(d), L)
      BY <3>5, GrownIs
    <3>7. Assembled(d.blocks[i], d, d, L, i, first - 1)
      <4>1. i \in Inodes
        BY DEF Good, InUse
      <4>2. d.blocks[i] \in [Indices -> 0 .. NBlocks]
        BY <4>1 DEF Typed
      <4>3. \A l, m \in Indices : d.blocks[i][l] # 0 /\ d.blocks[i][l] = d.blocks[i][m] => l = m
        BY DEF Good, Listed
      <4>4. \A l \in Indices : l <= first - 1 => d.blocks[i][l] # 0
        <5>1. \A l \in Indices : l <= first - 1 => l \in 1 .. first - 1
          BY DEF Indices
        <5>2. QED
          BY <5>1
      <4>5. QED
        BY <4>2, <4>3, <4>4 DEF Assembled
    <3>8. QED
      BY <3>3, <3>4, <3>5, <3>6, <3>7 DEF Succeeds, Fails, Wrote
  <2>3. \A m \in 0 .. n - 1 : m \in T => m + 1 \in T
    <3>1. SUFFICES ASSUME NEW m \in 0 .. n - 1, m \in T PROVE m + 1 \in T
      OBVIOUS
    <3> DEFINE k == first - 1 + m + 1
    <3>2. k \in first .. last /\ k \in Indices /\ k - 1 = first - 1 + m /\ k = first - 1 + (m + 1)
      <4>1. m \in Nat /\ m + 1 <= n /\ first \in Int /\ first >= 1 /\ last <= MaxBlocks
        BY <2>1 DEF Indices
      <4>2. n = last - (first - 1)
        OBVIOUS
      <4> HIDE DEF n, T
      <4>3. MaxBlocks \in Nat
        BY DiskAssumption
      <4>4. QED
        BY <1>2, <4>1, <4>2, <4>3 DEF Indices
    <3>3. \A g \in t[k - 1] : Wrote(g, d, L, i, k - 1)
      BY <3>1, <3>2
    <3>4. t[k] = WriteTurn(t[k - 1], k, d.type[i])
      BY <1>3, <3>2
    <3> HIDE DEF k
    <3>5. \A g \in t[k] : Wrote(g, d, L, i, k)
      BY <3>2, <3>3, <3>4, WriteTurnKeeps
    <3>6. m + 1 \in Nat
      BY <2>1
    <3>7. QED
      BY <3>2, <3>5, <3>6
  <2> HIDE DEF T, n
  <2>4. \A m \in 0 .. n : m \in T
    BY <2>1, <2>2, <2>3, UpTo
  <2>5. n \in T
    BY <2>1, <2>4
  <2>6. QED
    BY <2>1, <2>5 DEF T
<1>5. PICK f \in t[last] :
        IF f.ok THEN o \in fs_write_inode(f.disk, i, f.disk.type[i], f.val) ELSE o = Failed(f.disk)
  BY <1>1 DEF Then, Each
<1> DEFINE e == f.disk
           v == f.val
<1>6. Grown(d, e, L) /\ (f.ok => Assembled(v, d, e, L, i, last))
  BY <1>4, <1>5 DEF Wrote
<1>7. Unchanged(d, e, L) /\ Kept(d, e) /\ Typed(e) /\ Grown(d, Off(e), L)
  BY <1>6, GrownIs
<1>8. CASE ~ f.ok
  BY <1>5, <1>7, <1>8, Outcomes DEF Fails
<1>9. CASE f.ok
  <2> DEFINE h == Put(e, i, e.type[i], v)
  <2>1. o \in fs_write_inode(e, i, e.type[i], v) /\ Assembled(v, d, e, L, i, last)
    BY <1>5, <1>6, <1>9
  <2> HIDE DEF e, v
  <2>2. Succeeds(o, h, 0) \/ Fails(o, Off(e))
    <3> HIDE DEF h
    <3>1. QED
      BY <1>7, <2>1, WriteInode DEF h
  <2>3. /\ i \in Inodes /\ e.type = d.type /\ e.blocks = d.blocks /\ Good(e, L)
    BY <1>6, <1>7 DEF Grown, Good, InUse, Unchanged
  <2>4. /\ Typed(h) /\ h.type = e.type /\ h.used = e.used /\ h.entries = e.entries
        /\ h.blocks[i] = v /\ \A j \in Inodes : j # i => h.blocks[j] = d.blocks[j]
        /\ h.free_inodes = e.free_inodes /\ h.power = e.power
    <3>1. e.type[i] \in Types /\ v \in [Indices -> 0 .. NBlocks]
      BY <1>7, <2>1, <2>3 DEF Typed, Assembled
    <3>2. /\ Typed(h) /\ h.type = [e.type EXCEPT ![i] = e.type[i]]
          /\ h.blocks = [e.blocks EXCEPT ![i] = v]
          /\ h.used = e.used /\ h.entries = e.entries /\ h.power = e.power
      BY <1>7, <2>3, <3>1, PutTyped
    <3>3. h.free_inodes = e.free_inodes
      BY <1>7 DEF Put, Typed
    <3> HIDE DEF h
    <3>4. h.type = e.type
      BY <1>7, <2>3, <3>2 DEF Typed
    <3>5. h.blocks[i] = v
      BY <1>7, <2>3, <3>2 DEF Typed
    <3>6. \A j \in Inodes : j # i => h.blocks[j] = d.blocks[j]
      BY <1>7, <2>3, <3>2 DEF Typed
    <3>7. QED
      BY <3>2, <3>3, <3>4, <3>5, <3>6
  <2> HIDE DEF h
  <2>5. Owned(e, L) = Owned(d, L) /\ L \subseteq Inodes
    BY <2>3 DEF Owned, Good, InUse
  <2>6. /\ \A j \in L : h.type[j] = e.type[j]
        /\ \A j \in L : j # i => h.blocks[j] = e.blocks[j]
    BY <2>3, <2>4, <2>5
  <2>7. \A l \in Indices : \/ h.blocks[i][l] = e.blocks[i][l]
                           \/ /\ e.blocks[i][l] = 0
                              /\ h.blocks[i][l] \in Blocks \ Owned(e, L)
                              /\ \A s \in Slots : ~ Filled(h, h.blocks[i][l], s)
    <3>1. \A b : \A s \in Slots : Filled(h, b, s) <=> Filled(e, b, s)
      BY <2>4 DEF Filled, At
    <3>2. QED
      BY <2>1, <2>3, <2>4, <2>5, <3>1 DEF Assembled
  <2>8. \A b \in Owned(e, L) : \A s \in Slots : At(h, b, s) = At(e, b, s)
    BY <2>4 DEF At
  <2>9. Owned(h, L) \subseteq h.used
    <3>1. Owned(d, L) \subseteq e.used
      BY <1>6 DEF Good, Listed, Grown
    <3>2. \A l \in Indices : v[l] \in Blocks => v[l] \in e.used
      <4>1. \A l \in Indices : d.blocks[i][l] \in Blocks => d.blocks[i][l] \in e.used
        BY <3>1 DEF Owned
      <4>2. QED
        BY <2>1, <4>1 DEF Assembled
    <3>3. SUFFICES ASSUME NEW b \in Blocks, NEW j \in L, NEW l \in Indices, h.blocks[j][l] = b
                   PROVE  b \in e.used
      BY <2>4 DEF Owned
    <3>4. CASE j = i
      BY <2>4, <3>2, <3>3, <3>4
    <3>5. CASE j # i
      BY <2>4, <2>5, <3>1, <3>3, <3>5 DEF Owned
    <3>6. QED
      BY <3>4, <3>5
  <2>10. \A l, m \in Indices : h.blocks[i][l] # 0 /\ h.blocks[i][l] = h.blocks[i][m] => l = m
    BY <2>1, <2>4 DEF Assembled
  <2>11. \A l, m \in Indices : h.blocks[i][l] # 0 /\ m < l => h.blocks[i][m] # 0
    <3>1. TAKE l, m \in Indices
    <3>2. HAVE h.blocks[i][l] # 0 /\ m < l
    <3>3. l \in Int /\ m \in Int /\ last \in Int
      BY DEF Indices
    <3>4. CASE m <= last
      BY <2>1, <2>4, <3>4 DEF Assembled
    <3>5. CASE m > last
      <4>1. v[m] = d.blocks[i][m] /\ v[l] = d.blocks[i][l]
        BY <2>1, <3>2, <3>3, <3>5 DEF Assembled
      <4>2. d.blocks[i][m] # 0
        BY <2>4, <3>2, <4>1 DEF Good, Listed
      <4>3. QED
        BY <2>4, <4>1, <4>2
    <3>6. QED
      BY <3>3, <3>4, <3>5
  <2>12. Good(h, L)
    BY <1>7, <2>3, <2>4, <2>6, <2>7, <2>8, <2>9, <2>10, <2>11, GoodGrows
  <2>13. Unchanged(e, h, L)
    <3>1. \A l \in Indices : \/ h.blocks[i][l] = e.blocks[i][l]
                             \/ /\ e.blocks[i][l] = 0
                                /\ \A s \in Slots : ~ Filled(h, h.blocks[i][l], s)
      BY <2>7
    <3>2. \A b \in Owned(e, L) : \A s \in Slots :
            \/ At(h, b, s) = At(e, b, s)
            \/ e.type[i] # "directory" /\ b \in Owned(e, {i}) /\ ~ Filled(h, b, s)
      BY <2>8
    <3>3. Typed(e) /\ Good(e, L) /\ Typed(h) /\ Good(h, L)
      BY <1>7, <2>3, <2>4, <2>12
    <3>4. QED
      BY <2>6, <3>1, <3>2, <3>3, GrowthUnseen
  <2>14. Unchanged(d, h, L) /\ Kept(d, h)
    <3>1. Kept(e, h)
      BY <2>4, KeptIf
    <3>2. QED
      BY <1>7, <2>13, <3>1, UnchangedTwice, KeptTwice
  <2>15. Unchanged(d, Off(e), L) /\ Kept(d, Off(e))
    BY <1>7, PowerGoes, KeptOff
  <2>16. QED
    BY <2>2, <2>14, <2>15 DEF Succeeds, Fails
<1>10. QED
  BY <1>8, <1>9

-----------------------------------------------------------------------------
(* The paths of a tree *)

Start       == [path |-> <<>>, inode |-> RootInode]
Below(p, x) == [path |-> Append(p.path, x.name), inode |-> x.inode]

Deeper(d, S, n) ==
  S \cup UNION {{Below(p, x) : x \in Entries(d, p.inode)} : p \in {q \in S : Len(q.path) = n - 1}}

\* The first n levels of what Resolved collects.
IsResolved(t, m, d) ==
  t = [n \in 0 .. m |-> IF n = 0 THEN {Start} ELSE Deeper(d, t[n - 1], n)]

\* The levels of Resolved are well defined.
LEMMA LevelsExist ==
  ASSUME NEW d
  PROVE  \A m \in 0 .. NInodes - 1 : \E t : IsResolved(t, m, d)
<1> DEFINE T == {m \in Nat : \E t : IsResolved(t, m, d)}
<1>1. 0 \in T
  <2> DEFINE t == [n \in 0 .. 0 |-> {Start}]
  <2>1. IsResolved(t, 0, d)
    BY DEF IsResolved
  <2>2. QED
    BY <2>1
<1>2. ASSUME NEW m \in 0 .. NInodes - 1 - 1, m \in T PROVE m + 1 \in T
  <2>1. PICK t : IsResolved(t, m, d)
    BY <1>2
  <2> DEFINE u == [n \in 0 .. m + 1 |-> IF n = 0 THEN {Start} ELSE Deeper(d, t[n - 1], n)]
  <2>2. \A n \in 0 .. m : u[n] = t[n]
    <3>1. \A n \in 0 .. m : n \in 0 .. m + 1
      OBVIOUS
    <3>2. \A n \in 0 .. m : t[n] = IF n = 0 THEN {Start} ELSE Deeper(d, t[n - 1], n)
      BY <2>1 DEF IsResolved
    <3>3. QED
      BY <3>1, <3>2
  <2>3. \A n \in 0 .. m + 1 : n # 0 => u[n - 1] = t[n - 1]
    <3>1. \A n \in 0 .. m + 1 : n # 0 => n - 1 \in 0 .. m
      OBVIOUS
    <3>2. QED
      BY <2>2, <3>1
  <2>4. u = [n \in 0 .. m + 1 |-> IF n = 0 THEN {Start} ELSE Deeper(d, u[n - 1], n)]
    BY <2>3
  <2>5. IsResolved(u, m + 1, d)
    BY <2>4 DEF IsResolved
  <2>6. QED
    BY <2>5
<1>3. NInodes - 1 \in Nat
  BY DiskAssumption
<1> HIDE DEF T
<1>4. \A m \in 0 .. NInodes - 1 : m \in T
  BY <1>1, <1>2, <1>3, UpTo
<1>5. QED
  BY <1>4 DEF T

\* Levels of a tree: level n adds what lies below the nodes of level n - 1.
Levels(t, d) ==
  /\ Resolved(d) = t[NInodes - 1]
  /\ t[0] = {Start}
  /\ \A n \in 1 .. NInodes - 1 : t[n] = Deeper(d, t[n - 1], n)

\* Resolved is the last of its levels.
LEMMA ResolvedLevels ==
  ASSUME NEW d
  PROVE  \E t : Levels(t, d)
<1> DEFINE t == CHOOSE t : IsResolved(t, NInodes - 1, d)
<1>1. NInodes - 1 \in 0 .. NInodes - 1 /\ 0 \in 0 .. NInodes - 1
  BY DiskAssumption
<1>2. IsResolved(t, NInodes - 1, d)
  BY <1>1, LevelsExist
<1>3. Resolved(d) = t[NInodes - 1]
  BY DEF Resolved, IsResolved, Deeper, Below, Start
<1> HIDE DEF t
<1>4. \A n \in 0 .. NInodes - 1 : t[n] = IF n = 0 THEN {Start} ELSE Deeper(d, t[n - 1], n)
  BY <1>2 DEF IsResolved
<1>5. \A n \in 1 .. NInodes - 1 : n \in 0 .. NInodes - 1 /\ n # 0
  BY DiskAssumption
<1>6. QED
  BY <1>1, <1>3, <1>4, <1>5 DEF Levels

\* Induction over the paths.
LEMMA ResolvedWithin ==
  ASSUME NEW d, NEW T, Start \in T, \A p \in T : \A x \in Entries(d, p.inode) : Below(p, x) \in T
  PROVE  Resolved(d) \subseteq T
<1>1. PICK t : Levels(t, d)
  BY ResolvedLevels
<1> DEFINE S == {n \in Nat : t[n] \subseteq T}
<1>2. 0 \in S
  BY <1>1 DEF Levels
<1>3. ASSUME NEW n \in 0 .. NInodes - 1 - 1, n \in S PROVE n + 1 \in S
  <2>1. n + 1 \in 1 .. NInodes - 1 /\ n + 1 \in Nat /\ (n + 1) - 1 = n
    BY DiskAssumption
  <2>2. t[n + 1] = Deeper(d, t[n], n + 1)
    BY <1>1, <2>1 DEF Levels
  <2>3. Deeper(d, t[n], n + 1) \subseteq T
    BY <1>3 DEF Deeper
  <2>4. QED
    BY <2>1, <2>2, <2>3
<1>4. NInodes - 1 \in Nat
  BY DiskAssumption
<1> HIDE DEF S
<1>5. \A n \in 0 .. NInodes - 1 : n \in S
  BY <1>2, <1>3, <1>4, UpTo
<1>6. NInodes - 1 \in S
  BY <1>4, <1>5
<1>7. QED
  BY <1>1, <1>6 DEF S, Levels

\* The root is found.
LEMMA StartResolved ==
  ASSUME NEW d
  PROVE  Start \in Resolved(d)
<1>1. PICK t : Levels(t, d)
  BY ResolvedLevels
<1> DEFINE S == {n \in Nat : Start \in t[n]}
<1>2. 0 \in S
  BY <1>1 DEF Levels
<1>3. ASSUME NEW n \in 0 .. NInodes - 1 - 1, n \in S PROVE n + 1 \in S
  <2>1. n + 1 \in 1 .. NInodes - 1 /\ n + 1 \in Nat /\ (n + 1) - 1 = n
    BY DiskAssumption
  <2>2. t[n + 1] = Deeper(d, t[n], n + 1)
    BY <1>1, <2>1 DEF Levels
  <2>3. QED
    BY <1>3, <2>1, <2>2 DEF Deeper
<1>4. NInodes - 1 \in Nat
  BY DiskAssumption
<1> HIDE DEF S
<1>5. \A n \in 0 .. NInodes - 1 : n \in S
  BY <1>2, <1>3, <1>4, UpTo
<1>6. NInodes - 1 \in S
  BY <1>4, <1>5
<1>7. QED
  BY <1>1, <1>6 DEF S, Levels

\* A node is the root, or lies below another.
LEMMA ResolvedParent ==
  ASSUME NEW d, NEW p \in Resolved(d), p # Start
  PROVE  \E q \in Resolved(d) : \E x \in Entries(d, q.inode) : p = Below(q, x)
<1>1. PICK t : Levels(t, d)
  BY ResolvedLevels
<1> DEFINE HasParent(r, n) == \E q \in t[n] : \E x \in Entries(d, q.inode) : r = Below(q, x)
           S == {n \in Nat : \A r \in t[n] : r = Start \/ HasParent(r, n)}
<1>2. 0 \in S
  BY <1>1 DEF Levels
<1>3. ASSUME NEW n \in 0 .. NInodes - 1 - 1, n \in S PROVE n + 1 \in S
  <2>1. n + 1 \in 1 .. NInodes - 1 /\ n + 1 \in Nat /\ (n + 1) - 1 = n
    BY DiskAssumption
  <2>2. t[n + 1] = Deeper(d, t[n], n + 1)
    BY <1>1, <2>1 DEF Levels
  <2>3. \A r \in t[n] : HasParent(r, n) => HasParent(r, n + 1)
    BY <2>2 DEF Deeper
  <2>4. \A r \in t[n + 1] : r \in t[n] \/ HasParent(r, n)
    BY <2>1, <2>2 DEF Deeper
  <2>5. \A r \in t[n + 1] : HasParent(r, n) => HasParent(r, n + 1)
    BY <2>2 DEF Deeper
  <2>6. \A r \in t[n + 1] : r = Start \/ HasParent(r, n + 1)
    BY <1>3, <2>4, <2>5
  <2>7. QED
    BY <2>1, <2>6
<1>4. NInodes - 1 \in Nat
  BY DiskAssumption
<1> HIDE DEF S
<1>5. \A n \in 0 .. NInodes - 1 : n \in S
  BY <1>2, <1>3, <1>4, UpTo
<1>6. NInodes - 1 \in S
  BY <1>4, <1>5
<1>7. QED
  BY <1>1, <1>6 DEF S, Levels

Nodes(L) == [path : Seq(Names), inode : L]

\* An entry of a member names a member, and is the only one with its name or its inode.
LEMMA EntriesOf ==
  ASSUME NEW d, Typed(d), NEW L, Good(d, L), NEW i \in L, NEW x \in Entries(d, i)
  PROVE  /\ x \in Entry /\ x.inode \in L /\ x.inode # RootInode /\ x.name \in Names
         /\ d.type[i] = "directory"
         /\ \A y \in Entries(d, i) : y.name = x.name => y = x
         /\ \A j \in L : \A y \in Entries(d, j) : y.inode = x.inode => j = i /\ y = x
<1>1. \A j \in L : Entries(d, j) = Listing(d, j)
  BY EntriesAre
<1>2. PICK b \in Owned(d, {i}), s \in Slots : Filled(d, b, s) /\ At(d, b, s) = x
  BY <1>1 DEF Listing
<1>3. x \in Entry
  BY <1>1 DEF Listing
<1>4. \A j \in L : \A c \in Owned(d, {j}) : c \in Owned(d, L)
  BY DEF Owned
<1>5. x.inode \in L /\ x.inode # RootInode
  BY <1>2, <1>4 DEF Good, NamesOnce
<1>6. x.name \in Names
  BY <1>3 DEF Entry
<1>7. d.type[i] = "directory"
  BY <1>2 DEF Good, OnlyDirectories
<1>8. ASSUME NEW y \in Entries(d, i), y.name = x.name PROVE y = x
  <2>1. PICK c \in Owned(d, {i}), t \in Slots : Filled(d, c, t) /\ At(d, c, t) = y
    BY <1>1 DEF Listing
  <2>2. b = c /\ s = t
    BY <1>2, <1>8, <2>1 DEF Good, NamesDiffer
  <2>3. QED
    BY <1>2, <2>1, <2>2
<1>9. ASSUME NEW j \in L, NEW y \in Entries(d, j), y.inode = x.inode PROVE j = i /\ y = x
  <2>1. PICK c \in Owned(d, {j}), t \in Slots : Filled(d, c, t) /\ At(d, c, t) = y
    BY <1>1 DEF Listing
  <2>2. b = c /\ s = t
    BY <1>2, <1>4, <1>9, <2>1 DEF Good, NamesOnce
  <2>3. i = j
    <3>1. \A k, l \in Indices : d.blocks[i][k] # 0 /\ d.blocks[i][k] = d.blocks[j][l] => i = j
      BY DEF Good, Listed
    <3>2. \A e \in Blocks : e # 0
      BY DEF Blocks
    <3>3. QED
      BY <2>2, <3>1, <3>2 DEF Owned
  <2>4. QED
    BY <1>2, <2>1, <2>2, <2>3
<1>10. QED
  BY <1>3, <1>5, <1>6, <1>7, <1>8, <1>9

\* The node an entry leads to.
LEMMA BelowIs ==
  ASSUME NEW d, Typed(d), NEW L, Good(d, L), NEW p \in Nodes(L), NEW x \in Entries(d, p.inode)
  PROVE  /\ Below(p, x) \in Nodes(L) /\ Below(p, x) # Start
         /\ Below(p, x).inode = x.inode /\ x.inode # RootInode
         /\ Below(p, x).path = Append(p.path, x.name)
         /\ p.inode \in L /\ Len(p.path) \in Nat /\ Len(Below(p, x).path) = Len(p.path) + 1
<1>1. p.path \in Seq(Names) /\ p.inode \in L
  BY DEF Nodes
<1>2. x.name \in Names /\ x.inode \in L /\ x.inode # RootInode
  BY <1>1, EntriesOf
<1>3. /\ Append(p.path, x.name) \in Seq(Names) /\ Append(p.path, x.name) # <<>>
      /\ Len(Append(p.path, x.name)) = Len(p.path) + 1 /\ Len(p.path) \in Nat
  BY <1>1, <1>2, AppendProperties, LenProperties
<1>4. QED
  BY <1>1, <1>2, <1>3 DEF Nodes, Below, Start

\* The node every path starts at.
LEMMA StartIs ==
  ASSUME NEW d, NEW L, Good(d, L)
  PROVE  Start \in Nodes(L) /\ Len(Start.path) = 0
<1>1. <<>> \in Seq(Names) /\ Len(<<>>) = 0
  BY EmptySeq
<1>2. QED
  BY <1>1 DEF Start, Nodes, Good, InUse

\* Paths lead to members, and to the root only where they start.
LEMMA ResolvedMembers ==
  ASSUME NEW d, Typed(d), NEW L, Good(d, L), NEW p \in Resolved(d)
  PROVE  p \in Nodes(L) /\ p.inode \in L /\ (p = Start \/ p.inode # RootInode)
<1> DEFINE T == {q \in Nodes(L) : q = Start \/ q.inode # RootInode}
<1>1. Start \in T
  BY StartIs
<1>2. \A q \in T : \A x \in Entries(d, q.inode) : Below(q, x) \in T
  BY BelowIs
<1> HIDE DEF T
<1>3. p \in T
  BY <1>1, <1>2, ResolvedWithin
<1>4. QED
  BY <1>3 DEF T, Nodes

\* An inode has one path.
LEMMA OnePath ==
  ASSUME NEW d, Typed(d), NEW L, Good(d, L), NEW p \in Resolved(d), NEW q \in Resolved(d),
         q.inode = p.inode
  PROVE  q = p
<1> DEFINE T == {r \in Nodes(L) : \A s \in Resolved(d) : s.inode = r.inode => s = r}
<1>1. Start \in T
  BY StartIs, ResolvedMembers DEF Start
<1>2. ASSUME NEW r \in T, NEW x \in Entries(d, r.inode)
      PROVE  Below(r, x) \in T
  <2>1. /\ Below(r, x) \in Nodes(L) /\ Below(r, x).inode = x.inode /\ x.inode # RootInode
        /\ r.inode \in L
    BY BelowIs
  <2>2. ASSUME NEW s \in Resolved(d), s.inode = x.inode
        PROVE  s = Below(r, x)
    <3>1. s # Start
      BY <2>1, <2>2 DEF Start
    <3>2. PICK t \in Resolved(d) : \E y \in Entries(d, t.inode) : s = Below(t, y)
      BY <3>1, ResolvedParent
    <3>20. PICK y \in Entries(d, t.inode) : s = Below(t, y)
      BY <3>2
    <3>3. t.inode \in L /\ y.inode = x.inode
      BY <2>2, <3>20, ResolvedMembers, BelowIs
    <3>4. t.inode = r.inode /\ y = x
      BY <2>1, <3>3, EntriesOf
    <3>5. t = r
      BY <3>4
    <3>6. QED
      BY <3>20, <3>4, <3>5
  <2>3. QED
    BY <2>1, <2>2
<1> HIDE DEF T
<1>3. p \in T
  BY <1>1, <1>2, ResolvedWithin
<1>4. QED
  BY <1>3 DEF T

\* What a sequence was made of.
LEMMA AppendedOnce ==
  ASSUME NEW s \in Seq(Names), NEW e \in Names, NEW t \in Seq(Names), NEW f \in Names,
         Append(s, e) = Append(t, f)
  PROVE  s = t /\ e = f
<1> DEFINE a == Append(s, e)
           b == Append(t, f)
<1>1. /\ Len(a) = Len(s) + 1 /\ Len(s) \in Nat /\ s = [i \in 1 .. Len(s) |-> s[i]]
      /\ \A i \in 1 .. Len(s) : a[i] = s[i]
      /\ a[Len(s) + 1] = e
  BY AppendProperties, LenProperties
<1>2. /\ Len(b) = Len(t) + 1 /\ Len(t) \in Nat /\ t = [i \in 1 .. Len(t) |-> t[i]]
      /\ \A i \in 1 .. Len(t) : b[i] = t[i]
      /\ b[Len(t) + 1] = f
  BY AppendProperties, LenProperties
<1>3. a = b
  OBVIOUS
<1> HIDE DEF a, b
<1>4. Len(s) = Len(t)
  <2>1. Len(a) = Len(b)
    BY <1>3
  <2>2. Len(s) + 1 = Len(t) + 1
    BY <1>1, <1>2, <2>1
  <2> DEFINE x == Len(s)
             y == Len(t)
  <2>3. x \in Nat /\ y \in Nat /\ x + 1 = y + 1
    BY <1>1, <1>2, <2>2
  <2> HIDE DEF x, y
  <2>4. x = y
    BY <2>3
  <2>5. QED
    BY <2>4 DEF x, y
<1>5. \A i \in 1 .. Len(s) : s[i] = t[i]
  BY <1>1, <1>2, <1>3, <1>4
<1>6. s = t
  BY <1>1, <1>2, <1>4, <1>5
<1>7. QED
  BY <1>1, <1>2, <1>3, <1>4, <1>6

\* A path leads to one inode.
LEMMA OneInode ==
  ASSUME NEW d, Typed(d), NEW L, Good(d, L), NEW p \in Resolved(d), NEW q \in Resolved(d),
         q.path = p.path
  PROVE  q = p
<1> DEFINE T == {r \in Nodes(L) : \A s \in Resolved(d) : s.path = r.path => s = r}
<1>1. Start \in T
  <2>1. ASSUME NEW s \in Resolved(d), s.path = Start.path, s # Start PROVE FALSE
    <3>1. PICK t \in Resolved(d) : \E y \in Entries(d, t.inode) : s = Below(t, y)
      BY <2>1, ResolvedParent
    <3>10. PICK y \in Entries(d, t.inode) : s = Below(t, y)
      BY <3>1
    <3>2. Len(s.path) = Len(t.path) + 1 /\ Len(t.path) \in Nat
      BY <3>10, ResolvedMembers, BelowIs
    <3>3. QED
      BY <2>1, <3>2, StartIs
  <2>2. QED
    BY <2>1, StartIs
<1>2. ASSUME NEW r \in T, NEW x \in Entries(d, r.inode)
      PROVE  Below(r, x) \in T
  <2>1. /\ Below(r, x) \in Nodes(L) /\ Below(r, x).path = Append(r.path, x.name)
        /\ r.inode \in L /\ Len(r.path) \in Nat /\ Len(Below(r, x).path) = Len(r.path) + 1
    BY BelowIs
  <2>2. ASSUME NEW s \in Resolved(d), s.path = Append(r.path, x.name)
        PROVE  s = Below(r, x)
    <3>1. s # Start
      BY <2>1, <2>2, StartIs
    <3>2. PICK t \in Resolved(d) : \E y \in Entries(d, t.inode) : s = Below(t, y)
      BY <3>1, ResolvedParent
    <3>20. PICK y \in Entries(d, t.inode) : s = Below(t, y)
      BY <3>2
    <3>3. t.inode \in L /\ t \in Nodes(L) /\ s.path = Append(t.path, y.name)
      BY <3>20, ResolvedMembers, BelowIs
    <3>4. t.path = r.path /\ y.name = x.name
      <4>1. t.path \in Seq(Names) /\ r.path \in Seq(Names)
        BY <3>3 DEF Nodes
      <4>2. y.name \in Names /\ x.name \in Names
        BY <2>1, <3>3, EntriesOf
      <4>3. Append(t.path, y.name) = Append(r.path, x.name)
        BY <2>2, <3>3
      <4>4. QED
        <5> DEFINE u == t.path
                   v == r.path
                   n == y.name
                   k == x.name
        <5>1. u \in Seq(Names) /\ v \in Seq(Names) /\ n \in Names /\ k \in Names
          BY <4>1, <4>2
        <5>2. Append(u, n) = Append(v, k)
          BY <4>3
        <5> HIDE DEF u, v, n, k
        <5>3. u = v /\ n = k
          BY <5>1, <5>2, AppendedOnce
        <5>4. QED
          BY <5>3 DEF u, v, n, k
    <3>5. t = r
      BY <3>4
    <3>6. y = x
      BY <3>3, <3>4, <3>5, EntriesOf
    <3>7. QED
      BY <3>20, <3>5, <3>6
  <2>3. QED
    BY <2>1, <2>2
<1> HIDE DEF T
<1>3. p \in T
  BY <1>1, <1>2, ResolvedWithin
<1>4. QED
  BY <1>3 DEF T

\* How deep the paths go; above the last level they all go on.
LEMMA Depths ==
  ASSUME NEW d, Typed(d), NEW L, Good(d, L), NEW p \in Resolved(d)
  PROVE  /\ Len(p.path) <= NInodes - 1
         /\ Len(p.path) < NInodes - 1
              => \A x \in Entries(d, p.inode) : Below(p, x) \in Resolved(d)
<1>1. PICK t : Levels(t, d)
  BY ResolvedLevels
<1> DEFINE GoesOn(q, n) == \A x \in Entries(d, q.inode) : Below(q, x) \in t[n]
           S == {n \in Nat : \A q \in t[n] : /\ q \in Nodes(L) /\ Len(q.path) <= n
                                             /\ Len(q.path) < n => GoesOn(q, n)}
<1>2. 0 \in S
  BY <1>1, StartIs DEF Levels
<1>3. ASSUME NEW n \in 0 .. NInodes - 1 - 1, n \in S PROVE n + 1 \in S
  <2>1. n + 1 \in 1 .. NInodes - 1 /\ n + 1 \in Nat /\ (n + 1) - 1 = n
    BY DiskAssumption
  <2>2. t[n + 1] = Deeper(d, t[n], n + 1)
    BY <1>1, <2>1 DEF Levels
  <2>3. \A q \in t[n] : q \in t[n + 1]
    BY <2>2 DEF Deeper
  <2>4. \A q \in t[n] : Len(q.path) = n => GoesOn(q, n + 1)
    BY <2>1, <2>2 DEF Deeper
  <2>5. ASSUME NEW q \in t[n]
        PROVE  q \in Nodes(L) /\ Len(q.path) <= n + 1 /\ (Len(q.path) < n + 1 => GoesOn(q, n + 1))
    <3>1. q \in Nodes(L) /\ Len(q.path) <= n /\ (Len(q.path) < n => GoesOn(q, n))
      BY <1>3
    <3>2. Len(q.path) \in Nat
      BY <3>1, LenProperties DEF Nodes
    <3>3. GoesOn(q, n) => GoesOn(q, n + 1)
      BY <2>3
    <3> HIDE DEF GoesOn
    <3>4. QED
      BY <2>1, <2>4, <3>1, <3>2, <3>3
  <2>6. ASSUME NEW q \in t[n], Len(q.path) = n, NEW x \in Entries(d, q.inode)
        PROVE  Below(q, x) \in Nodes(L) /\ Len(Below(q, x).path) = n + 1
    <3>1. q \in Nodes(L)
      BY <1>3
    <3>2. QED
      BY <2>6, <3>1, BelowIs
  <2>7. \A r \in t[n + 1] : \/ r \in t[n]
                            \/ \E q \in t[n] : Len(q.path) = n /\ \E x \in Entries(d, q.inode) : r = Below(q, x)
    BY <2>1, <2>2 DEF Deeper
  <2>8. ASSUME NEW r \in t[n + 1]
        PROVE  r \in Nodes(L) /\ Len(r.path) <= n + 1 /\ (Len(r.path) < n + 1 => GoesOn(r, n + 1))
    <3>1. CASE r \in t[n]
      BY <2>5, <3>1
    <3>2. CASE \E q \in t[n] : Len(q.path) = n /\ \E x \in Entries(d, q.inode) : r = Below(q, x)
      <4>1. r \in Nodes(L) /\ Len(r.path) = n + 1
        BY <2>6, <3>2
      <4> HIDE DEF GoesOn
      <4>2. QED
        BY <2>1, <4>1
    <3> HIDE DEF GoesOn
    <3>3. QED
      BY <2>7, <3>1, <3>2
  <2>9. QED
    BY <2>1, <2>8
<1>4. NInodes - 1 \in Nat
  BY DiskAssumption
<1> HIDE DEF S
<1>5. \A n \in 0 .. NInodes - 1 : n \in S
  BY <1>2, <1>3, <1>4, UpTo
<1>6. NInodes - 1 \in S
  BY <1>4, <1>5
<1>7. QED
  BY <1>1, <1>6 DEF S, Levels

\* Who is named below a node is found one step below it.
LEMMA NamedBelow ==
  ASSUME NEW d, Typed(d), NEW L, Good(d, L), NEW p \in Resolved(d), NEW x \in Entries(d, p.inode),
         NEW r \in Resolved(d), r.inode = x.inode
  PROVE  r = Below(p, x) /\ Len(r.path) = Len(p.path) + 1
<1>1. /\ Below(p, x).inode = x.inode /\ x.inode # RootInode /\ p.inode \in L
      /\ Len(Below(p, x).path) = Len(p.path) + 1
  BY ResolvedMembers, BelowIs
<1>2. r # Start
  BY <1>1 DEF Start
<1>3. PICK t \in Resolved(d) : \E y \in Entries(d, t.inode) : r = Below(t, y)
  BY <1>2, ResolvedParent
<1>4. PICK y \in Entries(d, t.inode) : r = Below(t, y)
  BY <1>3
<1>5. t.inode \in L /\ y.inode = x.inode
  BY <1>4, ResolvedMembers, BelowIs
<1>6. t.inode = p.inode /\ y = x
  BY <1>1, <1>5, EntriesOf
<1>7. t = p
  BY <1>6, OnePath
<1>8. QED
  BY <1>1, <1>4, <1>6, <1>7

\* A path passes through inodes of its own, one more than it has names.
Passed(d, p, S) ==
  /\ S \subseteq Inodes /\ Cardinality(S) = Len(p.path) + 1
  /\ \A j \in S : \E r \in Resolved(d) : r.inode = j /\ Len(r.path) <= Len(p.path)

\* It does so for every path that is found.
LEMMA EveryPathPasses ==
  ASSUME NEW d, Typed(d), NEW L, Good(d, L), NEW p \in Resolved(d)
  PROVE  \E S : Passed(d, p, S)
<1> DEFINE T == {q \in Nodes(L) : q \in Resolved(d) => \E S : Passed(d, q, S)}
<1>1. Start \in T
  <2>1. Start \in Nodes(L) /\ Len(Start.path) = 0 /\ Start.inode = RootInode
    BY StartIs DEF Start
  <2>2. {RootInode} \subseteq Inodes
    BY DiskAssumption DEF Inodes, RootInode
  <2>3. Cardinality({RootInode}) = 1
    BY FS_Singleton
  <2>4. Start \in Resolved(d)
    BY StartResolved
  <2>5. Passed(d, Start, {RootInode})
    BY <2>1, <2>2, <2>3, <2>4 DEF Passed
  <2>6. QED
    BY <2>1, <2>5
<1>2. ASSUME NEW q \in T, NEW x \in Entries(d, q.inode)
      PROVE  Below(q, x) \in T
  <2> DEFINE b == Below(q, x)
  <2>1. /\ b \in Nodes(L) /\ b # Start /\ b.inode = x.inode /\ b.path = Append(q.path, x.name)
        /\ q.inode \in L /\ Len(q.path) \in Nat /\ Len(b.path) = Len(q.path) + 1
    BY BelowIs
  <2>2. ASSUME b \in Resolved(d) PROVE \E S : Passed(d, b, S)
    <3>1. PICK t \in Resolved(d) : \E y \in Entries(d, t.inode) : b = Below(t, y)
      BY <2>1, <2>2, ResolvedParent
    <3>2. PICK y \in Entries(d, t.inode) : b = Below(t, y)
      BY <3>1
    <3>3. t \in Nodes(L) /\ t.inode \in L /\ y.inode = x.inode /\ Append(t.path, y.name) = Append(q.path, x.name)
      BY <2>1, <3>2, ResolvedMembers, BelowIs
    <3>4. t.inode = q.inode /\ y = x
      BY <2>1, <3>3, EntriesOf
    <3>5. t.path \in Seq(Names) /\ q.path \in Seq(Names) /\ x.name \in Names
      BY <2>1, <3>3, EntriesOf DEF Nodes
    <3>6. t.path = q.path
      <4> DEFINE u == t.path
                 v == q.path
                 n == x.name
      <4>1. u \in Seq(Names) /\ v \in Seq(Names) /\ n \in Names /\ Append(u, n) = Append(v, n)
        BY <3>3, <3>4, <3>5
      <4> HIDE DEF u, v, n
      <4>2. u = v
        BY <4>1, AppendedOnce
      <4>3. QED
        BY <4>2 DEF u, v
    <3>7. t = q
      BY <3>3, <3>4, <3>6 DEF Nodes
    <3>8. q \in Resolved(d)
      BY <3>7
    <3>9. PICK S : Passed(d, q, S)
      BY <3>8
    <3>10. S \subseteq Inodes /\ IsFiniteSet(S) /\ Cardinality(S) = Len(q.path) + 1
      <4>1. IsFiniteSet(Inodes)
        BY DiskAssumption, FS_Interval DEF Inodes
      <4>2. QED
        BY <3>9, <4>1, FS_Subset DEF Passed
    <3>11. x.inode \notin S
      <4>1. ASSUME x.inode \in S PROVE FALSE
        <5>1. PICK r \in Resolved(d) : r.inode = x.inode /\ Len(r.path) <= Len(q.path)
          BY <3>9, <4>1 DEF Passed
        <5>2. Len(r.path) = Len(q.path) + 1
          BY <3>8, <5>1, NamedBelow
        <5>3. QED
          BY <2>1, <5>1, <5>2
      <4>2. QED
        BY <4>1
    <3>12. Cardinality(S \cup {x.inode}) = Len(b.path) + 1
      BY <2>1, <3>10, <3>11, FS_AddElement
    <3>13. x.inode \in Inodes
      BY <2>1, EntriesOf DEF Good, InUse
    <3>14. \A j \in S \cup {x.inode} : \E r \in Resolved(d) : r.inode = j /\ Len(r.path) <= Len(b.path)
      <4>1. ASSUME NEW j \in S PROVE \E r \in Resolved(d) : r.inode = j /\ Len(r.path) <= Len(b.path)
        <5>1. PICK r \in Resolved(d) : r.inode = j /\ Len(r.path) <= Len(q.path)
          BY <3>9 DEF Passed
        <5>2. Len(r.path) \in Nat
          BY ResolvedMembers, LenProperties DEF Nodes
        <5>3. QED
          BY <2>1, <5>1, <5>2
      <4>2. b.inode = x.inode /\ Len(b.path) <= Len(b.path)
        BY <2>1
      <4>3. QED
        BY <2>2, <4>1, <4>2
    <3>15. Passed(d, b, S \cup {x.inode})
      BY <3>10, <3>12, <3>13, <3>14 DEF Passed
    <3>16. QED
      BY <3>15
  <2>3. QED
    BY <2>1, <2>2
<1> HIDE DEF T
<1>3. p \in T
  BY <1>1, <1>2, ResolvedWithin
<1>4. QED
  BY <1>3 DEF T

\* Every entry of a directory that is found leads on: the search goes deep enough.
LEMMA ResolvedOnward ==
  ASSUME NEW d, Typed(d), NEW L, Good(d, L), NEW p \in Resolved(d), NEW x \in Entries(d, p.inode)
  PROVE  Below(p, x) \in Resolved(d)
<1>1. Len(p.path) \in Nat /\ Len(p.path) <= NInodes - 1 /\ NInodes \in Nat
  BY Depths, ResolvedMembers, LenProperties, DiskAssumption DEF Nodes
<1>2. CASE Len(p.path) < NInodes - 1
  BY <1>2, Depths
<1>3. CASE Len(p.path) = NInodes - 1
  <2>1. PICK S : Passed(d, p, S)
    BY EveryPathPasses
  <2>2. S \subseteq Inodes /\ Cardinality(S) = NInodes
    BY <1>1, <1>3, <2>1 DEF Passed
  <2>3. IsFiniteSet(Inodes) /\ Cardinality(Inodes) = NInodes
    BY DiskAssumption, FS_Interval DEF Inodes
  <2>4. S = Inodes
    BY <2>2, <2>3, FS_Subset
  <2>5. x.inode \in S
    BY <2>4, ResolvedMembers, EntriesOf DEF Good, InUse
  <2>6. PICK r \in Resolved(d) : r.inode = x.inode /\ Len(r.path) <= Len(p.path)
    BY <2>1, <2>5 DEF Passed
  <2>7. Len(r.path) = Len(p.path) + 1
    BY <2>6, NamedBelow
  <2>8. QED
    BY <1>1, <2>6, <2>7
<1>4. QED
  BY <1>1, <1>2, <1>3

-----------------------------------------------------------------------------
(* Prefixes *)

\* One path is a prefix of another when they agree as far as it goes.
LEMMA Prefixed ==
  ASSUME NEW s \in Seq(Names), NEW t \in Seq(Names)
  PROVE  FT!IsPrefix(s, t) <=> Len(s) <= Len(t) /\ \A i \in 1 .. Len(s) : s[i] = t[i]
<1>1. Len(s) \in Nat /\ Len(t) \in Nat /\ \A i \in 1 .. Len(t) : t[i] \in Names
  BY LenProperties
<1>2. FT!IsPrefix(s, t) <=> Len(s) <= Len(t) /\ SubSeq(s, 1, Len(s)) = SubSeq(t, 1, Len(s))
  BY DEF FT!IsPrefix
<1>3. SubSeq(s, 1, Len(s)) = s
  BY SubSeqFull
<1>4. ASSUME Len(s) <= Len(t)
      PROVE  s = SubSeq(t, 1, Len(s)) <=> \A i \in 1 .. Len(s) : s[i] = t[i]
  <2> DEFINE m == Len(s)
             u == SubSeq(t, 1, m)
  <2>1. \A i \in 1 .. m : t[i] \in Names
    BY <1>1, <1>4
  <2>2. m \in Int /\ m \in Nat /\ 1 \in Int
    BY <1>1
  <2> HIDE DEF m
  <2>3. /\ u \in Seq(Names) /\ Len(u) = (IF 1 <= m THEN m - 1 + 1 ELSE 0)
        /\ \A i \in 1 .. m - 1 + 1 : u[i] = t[1 + i - 1]
    BY <2>1, <2>2, SubSeqProperties
  <2> HIDE DEF u
  <2>4. Len(u) = m /\ \A i \in 1 .. m : u[i] = t[i]
    BY <2>2, <2>3
  <2>5. ASSUME \A i \in 1 .. m : s[i] = t[i] PROVE s = u
    <3>1. Len(s) = Len(u) /\ \A i \in 1 .. Len(s) : s[i] = u[i]
      BY <2>4, <2>5 DEF m
    <3>2. QED
      BY <2>3, <3>1, SeqEqual
  <2>6. s = u => \A i \in 1 .. m : s[i] = t[i]
    BY <2>4
  <2>7. QED
    BY <2>5, <2>6 DEF m, u
<1>5. QED
  BY <1>2, <1>3, <1>4

\* A path is a prefix of itself.
LEMMA PrefixOfItself ==
  ASSUME NEW s \in Seq(Names)
  PROVE  FT!IsPrefix(s, s)
BY Prefixed, LenProperties

\* Only the empty path is a prefix of the empty path.
LEMMA PrefixOfEmpty ==
  ASSUME NEW s \in Seq(Names), FT!IsPrefix(s, <<>>)
  PROVE  Len(s) = 0
<1>1. <<>> \in Seq(Names) /\ Len(<<>>) = 0 /\ Len(s) \in Nat
  BY EmptySeq, LenProperties
<1>2. Len(s) <= Len(<<>>)
  BY <1>1, Prefixed
<1>3. QED
  BY <1>1, <1>2

\* The prefixes of a longer path are the path and the prefixes it had.
LEMMA PrefixOfLonger ==
  ASSUME NEW s \in Seq(Names), NEW t \in Seq(Names), NEW n \in Names
  PROVE  FT!IsPrefix(s, Append(t, n)) <=> s = Append(t, n) \/ FT!IsPrefix(s, t)
<1> DEFINE u == Append(t, n)
<1>1. /\ u \in Seq(Names) /\ Len(u) = Len(t) + 1 /\ Len(t) \in Nat /\ Len(s) \in Nat
      /\ \A i \in 1 .. Len(t) : u[i] = t[i]
  BY AppendProperties, LenProperties
<1> HIDE DEF u
<1>2. FT!IsPrefix(s, u) <=> Len(s) <= Len(u) /\ \A i \in 1 .. Len(s) : s[i] = u[i]
  BY <1>1, Prefixed
<1>3. FT!IsPrefix(s, t) <=> Len(s) <= Len(t) /\ \A i \in 1 .. Len(s) : s[i] = t[i]
  BY Prefixed
<1>4. CASE Len(s) <= Len(t)
  <2>1. Len(s) # Len(u) /\ Len(s) <= Len(u)
    BY <1>1, <1>4
  <2>2. s # u
    BY <2>1
  <2>3. \A i \in 1 .. Len(s) : u[i] = t[i]
    BY <1>1, <1>4
  <2>4. FT!IsPrefix(s, u) <=> s = u \/ FT!IsPrefix(s, t)
    BY <1>2, <1>3, <1>4, <2>1, <2>2, <2>3
  <2>5. QED
    BY <2>4 DEF u
<1>5. CASE ~ (Len(s) <= Len(t))
  <2>1. ASSUME FT!IsPrefix(s, u) PROVE s = u
    <3>1. Len(s) = Len(u) /\ \A i \in 1 .. Len(s) : s[i] = u[i]
      BY <1>1, <1>2, <1>5, <2>1
    <3>2. QED
      BY <1>1, <3>1, SeqEqual
  <2>2. s = u => FT!IsPrefix(s, u)
    BY <1>1, PrefixOfItself
  <2>3. FT!IsPrefix(s, u) <=> s = u \/ FT!IsPrefix(s, t)
    BY <1>3, <1>5, <2>1, <2>2
  <2>4. QED
    BY <2>3 DEF u
<1>6. QED
  BY <1>4, <1>5

-----------------------------------------------------------------------------
(* The tree *)

\* What nobody sees does not change the paths.
LEMMA TreeUnchanged ==
  ASSUME NEW d, Typed(d), NEW e, Typed(e), NEW L, Good(d, L), Unchanged(d, e, L)
  PROVE  Resolved(e) = Resolved(d)
<1>1. Good(e, L)
  BY DEF Unchanged
<1>2. \A i \in L : Entries(e, i) = Entries(d, i)
  BY <1>1, EntriesAre DEF Unchanged
<1>3. \A p \in Resolved(d) : \A x \in Entries(e, p.inode) : Below(p, x) \in Resolved(d)
  BY <1>2, ResolvedMembers, ResolvedOnward
<1>4. \A p \in Resolved(e) : \A x \in Entries(d, p.inode) : Below(p, x) \in Resolved(e)
  BY <1>1, <1>2, ResolvedMembers, ResolvedOnward
<1>5. Start \in Resolved(d) /\ Start \in Resolved(e)
  BY StartResolved
<1>6. Resolved(e) \subseteq Resolved(d)
  BY <1>3, <1>5, ResolvedWithin
<1>7. Resolved(d) \subseteq Resolved(e)
  BY <1>4, <1>5, ResolvedWithin
<1>8. QED
  BY <1>6, <1>7

\* The entry of inode i under a name, and the node it makes below another.
Naming(i, n) == [inode |-> i, name |-> n]

\* A new member adds one path, and a new one.
LEMMA TreeJoined ==
  ASSUME NEW d, Typed(d), NEW e, Typed(e), NEW L, Good(d, L), NEW q \in Resolved(d),
         NEW i \in Inodes \ L, NEW n, Joined(d, e, L, q.inode, i, n)
  PROVE  /\ Resolved(e) = Resolved(d) \cup {Below(q, Naming(i, n))}
         /\ \A p \in Resolved(d) : p.path # Append(q.path, n)
<1> DEFINE dir == q.inode
           x == Naming(i, n)
           N == Below(q, x)
           E == L \cup {i}
<1>1. Good(e, E) /\ dir \in L /\ q \in Nodes(L)
  BY ResolvedMembers DEF Joined
<1>2. Entries(e, i) = {}
  <2>1. Entries(e, i) = Listing(e, i)
    BY <1>1, EntriesAre
  <2>2. QED
    BY <2>1 DEF Joined
<1>3. \A j \in L : Entries(e, j) = Listing(e, j) /\ Entries(d, j) = Listing(d, j)
  BY <1>1, EntriesAre
<1>4. \A j \in L : j # dir => Entries(e, j) = Entries(d, j)
  BY <1>3 DEF Joined
<1>5. Entries(e, dir) = Entries(d, dir) \cup {x}
  BY <1>1, <1>3 DEF Joined, Naming
<1>6. N.inode = i
  BY DEF Below, Naming
<1>7. Resolved(e) \subseteq Resolved(d) \cup {N}
  <2> DEFINE T == Resolved(d) \cup {N}
  <2>1. Start \in T
    BY StartResolved
  <2>2. ASSUME NEW p \in T, NEW y \in Entries(e, p.inode)
        PROVE  Below(p, y) \in T
    <3>1. CASE p = N
      BY <1>2, <1>6, <2>2, <3>1
    <3>2. CASE p \in Resolved(d) /\ y \in Entries(d, p.inode)
      BY <3>2, ResolvedOnward
    <3>3. CASE p \in Resolved(d) /\ y \notin Entries(d, p.inode)
      <4>1. p.inode \in L
        BY <3>3, ResolvedMembers
      <4>2. p.inode = dir
        BY <1>4, <2>2, <3>3, <4>1
      <4>3. y = x
        BY <1>5, <2>2, <3>3, <4>2
      <4>4. p = q
        BY <3>3, <4>2, OnePath
      <4>5. QED
        BY <4>3, <4>4
    <3>4. QED
      BY <2>2, <3>1, <3>2, <3>3
  <2> HIDE DEF T
  <2>3. Resolved(e) \subseteq T
    BY <2>1, <2>2, ResolvedWithin
  <2>4. QED
    BY <2>3 DEF T
<1>8. Resolved(d) \subseteq Resolved(e)
  <2> DEFINE T == {p \in Resolved(e) : p.inode \in L}
  <2>1. Start \in T
    BY StartResolved DEF Start, Good, InUse
  <2>2. ASSUME NEW p \in T, NEW y \in Entries(d, p.inode)
        PROVE  Below(p, y) \in T
    <3>1. y \in Entries(e, p.inode)
      BY <1>4, <1>5, <2>2
    <3>2. Below(p, y) \in Resolved(e)
      BY <1>1, <3>1, ResolvedOnward
    <3>3. y.inode \in L
      BY <2>2, EntriesOf
    <3>4. QED
      BY <3>2, <3>3 DEF Below
  <2> HIDE DEF T
  <2>3. Resolved(d) \subseteq T
    BY <2>1, <2>2, ResolvedWithin
  <2>4. QED
    BY <2>3 DEF T
<1>9. N \in Resolved(e)
  <2>1. q \in Resolved(e) /\ x \in Entries(e, q.inode)
    BY <1>5, <1>8
  <2> HIDE DEF x, N, E
  <2>2. Below(q, x) \in Resolved(e)
    BY <1>1, <2>1, ResolvedOnward
  <2>3. QED
    BY <2>2 DEF N
<1>10. ASSUME NEW p \in Resolved(d), p.path = Append(q.path, n) PROVE FALSE
  <2>1. p.path = N.path
    BY <1>10 DEF Below, Naming
  <2>2. p \in Resolved(e)
    BY <1>8
  <2> HIDE DEF N, E
  <2>3. p = N
    BY <1>1, <1>9, <2>1, <2>2, OneInode
  <2>4. p.inode \in L
    BY ResolvedMembers
  <2>5. QED
    BY <1>6, <2>3, <2>4
<1>11. QED
  BY <1>7, <1>8, <1>9, <1>10

\* What went is the node and what was below it.
LEMMA TreeRemoved ==
  ASSUME NEW d, Typed(d), NEW e, Typed(e), NEW L, Good(d, L), NEW q \in Resolved(d),
         NEW i, NEW n, Removed(d, e, L, q.inode, i, n)
  PROVE  /\ Below(q, Naming(i, n)) \in Resolved(d)
         /\ \A p : p \in Resolved(e)
              <=> p \in Resolved(d) /\ ~ FT!IsPrefix(Below(q, Naming(i, n)).path, p.path)
<1> DEFINE dir == q.inode
           x == Naming(i, n)
           N == Below(q, x)
           E == L \ {i}
<1>1. /\ Good(e, E) /\ dir \in L /\ q \in Nodes(L) /\ i \in L \ {RootInode}
      /\ x \in Listing(d, dir)
  BY ResolvedMembers DEF Removed, Naming
<1>2. \A j \in L : Entries(d, j) = Listing(d, j)
  BY EntriesAre
<1>3. \A j \in E : Entries(e, j) = Listing(e, j)
  BY <1>1, EntriesAre
<1>4. \A j \in E : j # dir => Entries(e, j) = Entries(d, j)
  BY <1>2, <1>3 DEF Removed
<1>5. dir \in E => Entries(e, dir) = Entries(d, dir) \ {x}
  BY <1>2, <1>3 DEF Removed, Naming
<1>6. x \in Entries(d, dir)
  BY <1>1, <1>2
<1>7. N \in Resolved(d) /\ N.inode = i /\ N \in Nodes(L) /\ Len(N.path) = Len(q.path) + 1 /\ Len(q.path) \in Nat
  <2> HIDE DEF x
  <2>1. x.inode = i
    BY DEF x, Naming
  <2>2. QED
    BY <1>1, <1>6, <2>1, ResolvedOnward, BelowIs
<1>8. N.path \in Seq(Names)
  BY <1>7 DEF Nodes
<1> HIDE DEF x, N
<1>9. ASSUME NEW p \in Resolved(d), NEW y \in Entries(d, p.inode)
      PROVE  /\ Below(p, y) \in Resolved(d)
             /\ FT!IsPrefix(N.path, Below(p, y).path)
                  <=> N = Below(p, y) \/ FT!IsPrefix(N.path, p.path)
  <2>1. /\ p \in Nodes(L) /\ p.inode \in L /\ Below(p, y) \in Resolved(d)
        /\ Below(p, y).path = Append(p.path, y.name)
    BY ResolvedMembers, ResolvedOnward, BelowIs
  <2>2. p.path \in Seq(Names) /\ y.name \in Names
    BY <2>1, EntriesOf DEF Nodes
  <2>3. FT!IsPrefix(N.path, Append(p.path, y.name))
          <=> N.path = Append(p.path, y.name) \/ FT!IsPrefix(N.path, p.path)
    BY <1>8, <2>2, PrefixOfLonger
  <2>4. N.path = Append(p.path, y.name) <=> N = Below(p, y)
    BY <1>7, <2>1, OneInode
  <2>5. QED
    BY <2>1, <2>3, <2>4
<1>10. ASSUME NEW p \in Resolved(e) PROVE p \in Resolved(d) /\ ~ FT!IsPrefix(N.path, p.path)
  <2> DEFINE T == {r \in Resolved(d) : r.inode \in E /\ ~ FT!IsPrefix(N.path, r.path)}
  <2>1. Start \in T
    <3>1. Start \in Resolved(d) /\ Start.inode \in E
      BY <1>1, StartResolved DEF Start, Good, InUse
    <3>2. Start.path = <<>> /\ Len(N.path) # 0
      BY <1>7 DEF Start
    <3>3. QED
      BY <1>8, <3>1, <3>2, PrefixOfEmpty
  <2>2. ASSUME NEW r \in T, NEW y \in Entries(e, r.inode)
        PROVE  Below(r, y) \in T
    <3>1. y \in Entries(d, r.inode) /\ y.inode \in E
      BY <1>1, <1>4, <1>5, <2>2, EntriesOf
    <3>2. Below(r, y).inode # i /\ Below(r, y).inode \in E
      BY <3>1 DEF Below
    <3>3. QED
      BY <1>7, <1>9, <2>2, <3>1, <3>2
  <2> HIDE DEF T
  <2>3. p \in T
    BY <2>1, <2>2, ResolvedWithin
  <2>4. QED
    BY <2>3 DEF T
<1>11. ASSUME NEW p \in Resolved(d), ~ FT!IsPrefix(N.path, p.path) PROVE p \in Resolved(e)
  <2> DEFINE T == {r \in Resolved(d) : FT!IsPrefix(N.path, r.path) \/ r \in Resolved(e)}
  <2>1. Start \in T
    BY StartResolved
  <2>2. ASSUME NEW r \in T, NEW y \in Entries(d, r.inode)
        PROVE  Below(r, y) \in T
    <3>1. Below(r, y) \in Resolved(d)
      BY <1>9, <2>2
    <3>2. CASE FT!IsPrefix(N.path, r.path)
      BY <1>9, <2>2, <3>1, <3>2
    <3>3. CASE r \in Resolved(e) /\ y \in Entries(e, r.inode)
      BY <1>1, <3>1, <3>3, ResolvedOnward
    <3>4. CASE r \in Resolved(e) /\ y \notin Entries(e, r.inode)
      <4>1. r.inode \in E
        BY <1>1, <3>4, ResolvedMembers
      <4>2. r.inode = dir /\ y = x
        BY <1>4, <1>5, <2>2, <3>4, <4>1
      <4>3. r = q
        BY <2>2, <4>2, OnePath
      <4>4. Below(r, y) = N
        BY <4>2, <4>3 DEF N
      <4>5. QED
        BY <1>8, <3>1, <4>4, PrefixOfItself
    <3>5. QED
      BY <2>2, <3>2, <3>3, <3>4
  <2> HIDE DEF T
  <2>3. p \in T
    BY <2>1, <2>2, ResolvedWithin
  <2>4. QED
    BY <1>11, <2>3 DEF T
<1>12. QED
  BY <1>7, <1>10, <1>11 DEF N, x

-----------------------------------------------------------------------------
(* One operation of the kernel *)

\* Disks that differ in counters, or in what serves one operation, at most.
SameDisk(d, e) ==
  e.used = d.used /\ e.type = d.type /\ e.blocks = d.blocks /\ e.entries = d.entries

\* They list the same.
LEMMA SameListed ==
  ASSUME NEW d, NEW e, SameDisk(d, e)
  PROVE  /\ \A M : Owned(e, M) = Owned(d, M)
         /\ \A b, s : At(e, b, s) = At(d, b, s)
         /\ \A b, s : Filled(e, b, s) <=> Filled(d, b, s)
         /\ \A i : Listing(e, i) = Listing(d, i)
<1>1. \A M : Owned(e, M) = Owned(d, M)
  BY DEF SameDisk, Owned
<1>2. \A b, s : At(e, b, s) = At(d, b, s)
  BY DEF SameDisk, At
<1>3. \A b, s : Filled(e, b, s) <=> Filled(d, b, s)
  BY <1>2 DEF Filled
<1>4. \A i : Listing(e, i) = Listing(d, i)
  BY <1>1, <1>2, <1>3 DEF Listing
<1>5. QED
  BY <1>1, <1>2, <1>3, <1>4

\* They are in order alike.
LEMMA SameGood ==
  ASSUME NEW d, NEW e, SameDisk(d, e), NEW L, Good(d, L)
  PROVE  Good(e, L)
<1>1. /\ \A M : Owned(e, M) = Owned(d, M)
      /\ \A b, s : At(e, b, s) = At(d, b, s)
      /\ \A b, s : Filled(e, b, s) <=> Filled(d, b, s)
  BY SameListed
<1>2. InUse(e, L)
  BY DEF Good, InUse, SameDisk
<1>3. Listed(e, L)
  BY <1>1 DEF Good, Listed, SameDisk
<1>4. NamesOnce(e, L)
  BY <1>1 DEF Good, NamesOnce
<1>5. NamesDiffer(e, L)
  BY <1>1 DEF Good, NamesDiffer
<1>6. OnlyDirectories(e, L)
  BY <1>1 DEF Good, OnlyDirectories, SameDisk
<1>7. QED
  BY <1>2, <1>3, <1>4, <1>5, <1>6 DEF Good

\* What is not seen on one is not seen on the other.
LEMMA SameUnchanged ==
  ASSUME NEW c, NEW d, NEW e, SameDisk(d, e), NEW L, Unchanged(c, d, L)
  PROVE  Unchanged(c, e, L)
<1>1. Good(e, L)
  BY SameGood DEF Unchanged
<1>2. e.type = d.type /\ \A i : Listing(e, i) = Listing(d, i)
  BY SameListed DEF SameDisk
<1>3. QED
  BY <1>1, <1>2 DEF Unchanged

\* Who joined on one joined on the other.
LEMMA SameJoined ==
  ASSUME NEW c, NEW d, NEW e, SameDisk(d, e), NEW L, NEW dir, NEW i, NEW n,
         Joined(c, d, L, dir, i, n)
  PROVE  Joined(c, e, L, dir, i, n) /\ e.type[i] = d.type[i]
<1>1. Good(e, L \cup {i})
  BY SameGood DEF Joined
<1>2. e.type = d.type /\ \A j : Listing(e, j) = Listing(d, j)
  BY SameListed DEF SameDisk
<1>3. QED
  BY <1>1, <1>2 DEF Joined

\* Who went from one went from the other.
LEMMA SameRemoved ==
  ASSUME NEW c, NEW d, NEW e, SameDisk(d, e), NEW L, NEW dir, NEW i, NEW n,
         Removed(c, d, L, dir, i, n)
  PROVE  Removed(c, e, L, dir, i, n)
<1>1. Good(e, L \ {i})
  BY SameGood DEF Removed
<1>2. e.type = d.type /\ \A j : Listing(e, j) = Listing(d, j)
  BY SameListed DEF SameDisk
<1>3. QED
  BY <1>1, <1>2 DEF Removed

\* What an operation may do to a disk in order.
Joins(d, e, L) ==
  \E q \in Resolved(d), i \in Inodes \ L, n \in Names :
    /\ d.type[q.inode] = "directory" /\ e.type[i] \in {"file", "directory"}
    /\ Joined(d, e, L, q.inode, i, n)
Removes(d, e, L) ==
  \E q \in Resolved(d) : \E i, n : Removed(d, e, L, q.inode, i, n)
Changed(d, e, L) == Unchanged(d, e, L) \/ Joins(d, e, L) \/ Removes(d, e, L)

\* Between two operations only counters and what serves one operation change.
LEMMA SettledIs ==
  ASSUME Reliable, NEW e, Typed(e), NEW f \in BOOLEAN
  PROVE  /\ Typed(Settled(e, f)) /\ Settled(e, f).power = "on" /\ SameDisk(e, Settled(e, f))
         /\ f => Balance(Settled(e, f)) = Balance(e)
<1> DEFINE a == IF f THEN e.free_inodes ELSE 0
           b == IF ~ f THEN 0 ELSE IF e.free_blocks > NBlocks THEN NBlocks + 1 ELSE e.free_blocks
           s == [e EXCEPT !.power = "on", !.errors = 0, !.free_inodes = a, !.free_blocks = b]
<1>1. Settled(e, f) = s
  BY DEF Settled, Reliable, Typed
<1>2. a \in Int /\ b \in Int
  BY DiskAssumption DEF Typed
<1> HIDE DEF a, b
<1>3. Typed(s) /\ s.power = "on" /\ SameDisk(e, s) /\ s.free_inodes = a
  BY <1>2 DEF Typed, SameDisk
<1>4. f => a = e.free_inodes
  BY DEF a
<1>5. f => Balance(s) = Balance(e)
  BY <1>3, <1>4 DEF Balance, Free, SameDisk
<1>6. QED
  BY <1>1, <1>3, <1>5

\* The end of an operation that kept the count.
LEMMA Ended ==
  ASSUME Reliable, clean \in BOOLEAN, NEW o, Kept(disk, o.disk),
         clean' = (clean /\ o.disk.power = "on" /\ o.disk.errors = Errors),
         disk' = Settled(o.disk, clean')
  PROVE  /\ clean' \in BOOLEAN /\ Typed(disk') /\ disk'.power = "on" /\ SameDisk(o.disk, disk')
         /\ clean' => Balance(disk') = Balance(disk)
<1>1. clean' \in BOOLEAN /\ Typed(o.disk)
  BY DEF Kept
<1>2. clean' => Balance(o.disk) = Balance(disk)
  BY DEF Kept
<1>3. QED
  BY <1>1, <1>2, SettledIs

\* A creation, seen after its operation has ended.
LEMMA CreatedSettles ==
  ASSUME NEW d, NEW e, NEW f, NEW L, NEW q \in Resolved(d), d.type[q.inode] = "directory",
         NEW n \in Names, NEW type \in {"file", "directory"},
         Created(d, e, L, q.inode, n, type), SameDisk(e, f)
  PROVE  Changed(d, f, L)
<1>1. CASE Unchanged(d, e, L)
  BY <1>1, SameUnchanged DEF Changed
<1>2. CASE \E i \in Inodes \ L : e.type[i] = type /\ Joined(d, e, L, q.inode, i, n)
  <2>1. PICK i \in Inodes \ L : e.type[i] = type /\ Joined(d, e, L, q.inode, i, n)
    BY <1>2
  <2> DEFINE dir == q.inode
  <2>2. Joined(d, e, L, dir, i, n)
    BY <2>1
  <2> HIDE DEF dir
  <2>3. Joined(d, f, L, dir, i, n) /\ f.type[i] = e.type[i]
    BY <2>2, SameJoined
  <2>4. Joins(d, f, L)
    BY <2>1, <2>3 DEF Joins, dir
  <2>5. QED
    BY <2>4 DEF Changed
<1>3. QED
  BY <1>1, <1>2 DEF Created

\* A removal, seen after its operation has ended.
LEMMA DeletedSettles ==
  ASSUME NEW d, NEW e, NEW f, NEW L, NEW q \in Resolved(d), NEW n,
         Deleted(d, e, L, q.inode, n), SameDisk(e, f)
  PROVE  Changed(d, f, L)
<1>1. CASE Unchanged(d, e, L)
  BY <1>1, SameUnchanged DEF Changed
<1>2. CASE \E i : Removed(d, e, L, q.inode, i, n)
  <2>1. PICK i : Removed(d, e, L, q.inode, i, n)
    BY <1>2
  <2>2. Removed(d, f, L, q.inode, i, n)
    BY <2>1, SameRemoved
  <2>3. QED
    BY <2>2 DEF Changed, Removes
<1>3. QED
  BY <1>1, <1>2 DEF Deleted

\* A system call on files that keeps the disk, whatever the power did.
LEMMA KernelStep ==
  ASSUME Reliable, Typed(disk), clean \in BOOLEAN, NEW L, Good(disk, L), Next, kept'
  PROVE  /\ clean' \in BOOLEAN /\ Typed(disk') /\ disk'.power = "on" /\ Changed(disk, disk', L)
         /\ clean' => Balance(disk') = Balance(disk)
<1> DEFINE Goal == /\ clean' \in BOOLEAN /\ Typed(disk') /\ disk'.power = "on"
                   /\ Changed(disk, disk', L)
                   /\ clean' => Balance(disk') = Balance(disk)
<1>1. \A dir \in Reachable(disk) : \E q \in Resolved(disk) : q.inode = dir /\ dir \in L
  BY ResolvedMembers DEF Reachable
<1>2. ASSUME NEW dir \in Inodes, NEW n \in Names, fs_touch(dir, n) PROVE Goal
  <2>0. Ends(fs_create_file(disk, dir, n)) /\ dir \in Reachable(disk)
    BY <1>2 DEF fs_touch, AllocatesBeyond
  <2>1. PICK q \in Resolved(disk) : q.inode = dir /\ dir \in L
    BY <1>1, <2>0
  <2>2. PICK o \in fs_create_file(disk, dir, n) :
          /\ clean' = (clean /\ o.disk.power = "on" /\ o.disk.errors = Errors)
          /\ disk' = Settled(o.disk, clean')
    BY <2>0 DEF Ends
  <2> DEFINE type == "file"
  <2>3. Created(disk, o.disk, L, dir, n, type) /\ type \in {"file", "directory"}
    BY <1>2, <2>1, <2>2, CreateFile DEF fs_touch
  <2>4. disk.type[q.inode] = "directory"
    BY <1>2, <2>1 DEF fs_touch
  <2> HIDE DEF type
  <2>5. Kept(disk, o.disk)
    BY <2>3 DEF Created
  <2>6. /\ clean' \in BOOLEAN /\ Typed(disk') /\ disk'.power = "on" /\ SameDisk(o.disk, disk')
        /\ clean' => Balance(disk') = Balance(disk)
    BY <2>2, <2>5, Ended
  <2>7. Changed(disk, disk', L)
    BY <2>1, <2>3, <2>4, <2>6, CreatedSettles
  <2>8. QED
    BY <2>6, <2>7
<1>3. ASSUME NEW dir \in Inodes, NEW n \in Names, fs_mkdir(dir, n) PROVE Goal
  <2>0. Ends(fs_create_directory(disk, dir, n)) /\ dir \in Reachable(disk)
    BY <1>3 DEF fs_mkdir, AllocatesBeyond
  <2>1. PICK q \in Resolved(disk) : q.inode = dir /\ dir \in L
    BY <1>1, <2>0
  <2>2. PICK o \in fs_create_directory(disk, dir, n) :
          /\ clean' = (clean /\ o.disk.power = "on" /\ o.disk.errors = Errors)
          /\ disk' = Settled(o.disk, clean')
    BY <2>0 DEF Ends
  <2> DEFINE type == "directory"
  <2>3. Created(disk, o.disk, L, dir, n, type) /\ type \in {"file", "directory"}
    BY <1>3, <2>1, <2>2, CreateDirectory DEF fs_mkdir
  <2>4. disk.type[q.inode] = "directory"
    BY <1>3, <2>1 DEF fs_mkdir
  <2> HIDE DEF type
  <2>5. Kept(disk, o.disk)
    BY <2>3 DEF Created
  <2>6. /\ clean' \in BOOLEAN /\ Typed(disk') /\ disk'.power = "on" /\ SameDisk(o.disk, disk')
        /\ clean' => Balance(disk') = Balance(disk)
    BY <2>2, <2>5, Ended
  <2>7. Changed(disk, disk', L)
    BY <2>1, <2>3, <2>4, <2>6, CreatedSettles
  <2>8. QED
    BY <2>6, <2>7
<1>4. ASSUME NEW dir \in Inodes, NEW n \in Names, fs_rm(dir, n) PROVE Goal
  <2>0. dir \in Reachable(disk)
    BY <1>4 DEF fs_rm
  <2>1. PICK q \in Resolved(disk) : q.inode = dir /\ dir \in L
    BY <1>1, <2>0
  <2>2. PICK o \in fs_delete_file(disk, dir, n) :
          /\ clean' = (clean /\ o.disk.power = "on" /\ o.disk.errors = Errors)
          /\ disk' = Settled(o.disk, clean')
    BY <1>4 DEF fs_rm, Ends
  <2>3. Deleted(disk, o.disk, L, dir, n)
    BY <1>4, <2>1, <2>2, DeleteFile DEF fs_rm
  <2>5. Kept(disk, o.disk)
    BY <2>3 DEF Deleted
  <2>6. /\ clean' \in BOOLEAN /\ Typed(disk') /\ disk'.power = "on" /\ SameDisk(o.disk, disk')
        /\ clean' => Balance(disk') = Balance(disk)
    BY <2>2, <2>5, Ended
  <2>7. Changed(disk, disk', L)
    BY <2>1, <2>3, <2>6, DeletedSettles
  <2>8. QED
    BY <2>6, <2>7
<1>5. ASSUME NEW i \in Inodes, NEW first \in Indices, NEW last \in Indices, fs_write(i, first, last)
      PROVE  Goal
  <2>1. i \in L
    BY <1>1, <1>5 DEF fs_write
  <2>2. PICK o \in fs_write_file(disk, i, first, last) :
          /\ clean' = (clean /\ o.disk.power = "on" /\ o.disk.errors = Errors)
          /\ disk' = Settled(o.disk, clean')
    BY <1>5 DEF fs_write, Ends
  <2>3. disk.type[i] = "file" /\ first <= last /\ \A k \in 1 .. first - 1 : disk.blocks[i][k] # 0
    BY <1>5 DEF fs_write
  <2>4. Unchanged(disk, o.disk, L) /\ Kept(disk, o.disk)
    BY <2>1, <2>2, <2>3, WriteFile
  <2>6. /\ clean' \in BOOLEAN /\ Typed(disk') /\ disk'.power = "on" /\ SameDisk(o.disk, disk')
        /\ clean' => Balance(disk') = Balance(disk)
    BY <2>2, <2>4, Ended
  <2>7. Changed(disk, disk', L)
    BY <2>4, <2>6, SameUnchanged DEF Changed
  <2>8. QED
    BY <2>6, <2>7
<1> HIDE DEF Goal
<1>6. Goal
  BY <1>2, <1>3, <1>4, <1>5 DEF Next, NotFollowed, vars, Indices
<1>7. QED
  BY <1>6 DEF Goal

-----------------------------------------------------------------------------
(* mkfs's copies of the operations *)

\* More is marked, and what is not marked is as it was.
Filling(d, e) ==
  /\ Typed(e) /\ e.power = d.power /\ d.used \subseteq e.used
  /\ \A b \in Blocks \ e.used : e.entries[b] = d.entries[b]

\* On the host nothing has been removed yet: what is not marked is empty.
Virgin(d) == \A b \in Blocks \ d.used : d.entries[b] = EmptyBlock

\* More, and more again.
LEMMA FillingTwice ==
  ASSUME NEW d, NEW e, NEW f, Filling(d, e), Filling(e, f)
  PROVE  Filling(d, f) /\ (Virgin(d) => Virgin(f))
<1>1. \A b \in Blocks \ f.used : b \notin e.used /\ b \notin d.used
  BY DEF Filling
<1>2. QED
  BY <1>1 DEF Filling, Virgin

\* alloc_block takes a block that is not marked, or finds none.
LEMMA HostAlloc ==
  ASSUME NEW d, Typed(d)
  PROVE  \/ alloc_block(d) = Failed(d)
         \/ \E b \in Blocks \ d.used : alloc_block(d) = Done(Taken(d, b), b)
<1> DEFINE b == Least(Blocks \ d.used)
<1>1. CASE Blocks \subseteq d.used
  BY <1>1 DEF alloc_block
<1>2. CASE ~ (Blocks \subseteq d.used)
  <2>1. b \in Blocks \ d.used
    BY <1>2, LeastIn, DiskAssumption DEF Blocks
  <2>2. alloc_block(d) = Done([d EXCEPT !.used = @ \cup {b}, !.free_blocks = @ - 1], b)
    BY <1>2 DEF alloc_block
  <2> HIDE DEF b
  <2>3. QED
    BY <2>1, <2>2 DEF Taken
<1>3. QED
  BY <1>1, <1>2

\* The entry goes into a block the directory has, or into a new one.
LEMMA HostEntry ==
  ASSUME NEW d, Typed(d), NEW L, Good(d, L), NEW i, Fresh(d, L, i),
         NEW dir \in L, d.type[dir] = "directory",
         NEW n \in Names, \A x \in Listing(d, dir) : x.name # n,
         NEW o, o = add_directory_entry(d, dir, i, n)
  PROVE  \/ o = Failed(d)
         \/ /\ o.ok /\ Filling(d, o.disk) /\ o.disk.type = d.type
            /\ Joined(d, o.disk, L, dir, i, n)
<1> DEFINE blocks == d.blocks[dir]
           unused(b) == {s \in Slots : d.entries[b][s] = NoEntry}
           room   == {k \in 1 .. MaxBlocks : blocks[k] = 0 \/ unused(blocks[k]) # {}}
           k      == Least(room)
           taken  == IF blocks[k] = 0 THEN alloc_block(d) ELSE Done(d, blocks[k])
           slots  == IF blocks[k] = 0 THEN EmptyBlock ELSE d.entries[taken.val]
           slot   == Least({s \in Slots : slots[s] = NoEntry})
           x      == [inode |-> i, name |-> n]
           Result(t, sl, s) ==
             [t.disk EXCEPT !.entries[t.val] = [sl EXCEPT ![s] = [inode |-> i, name |-> n]],
                            !.blocks[dir][k] = t.val]
<1>1. o = IF room = {} \/ ~ taken.ok THEN Failed(d) ELSE Done(Result(taken, slots, slot), 0)
  BY DEF add_directory_entry
<1>2. /\ dir \in Inodes /\ i \in Inodes /\ x \in Entry /\ 1 \in Slots /\ Slots \subseteq Nat
      /\ room \subseteq Nat /\ \A b \in Blocks : b # 0
  BY DiskAssumption DEF Good, InUse, Fresh, Entry, Slots, Blocks
<1>3. blocks \in [Indices -> 0 .. NBlocks]
  BY <1>2 DEF Typed
<1> HIDE DEF Result, slot, slots, taken, k
<1>4. CASE room = {} \/ ~ taken.ok
  BY <1>1, <1>4
<1>5. CASE room # {} /\ taken.ok
  <2>1. k \in Indices /\ (blocks[k] = 0 \/ unused(blocks[k]) # {})
    <3>1. k \in room
      BY <1>2, <1>5, LeastIn DEF k
    <3>2. QED
      BY <3>1 DEF Indices
  <2>2. o = Done(Result(taken, slots, slot), 0)
    BY <1>1, <1>5
  <2>3. CASE blocks[k] # 0
    <3>1. taken = Done(d, blocks[k]) /\ taken.disk = d /\ taken.val = blocks[k]
      BY <2>3 DEF taken, Done
    <3>2. slots = d.entries[blocks[k]]
      BY <2>3, <3>1 DEF slots
    <3>3. blocks[k] \in Blocks /\ blocks[k] \in Owned(d, {dir})
      BY <1>3, <2>1, <2>3, DiskAssumption DEF Owned, Blocks
    <3>4. slot \in Slots /\ d.entries[blocks[k]][slot] = NoEntry
      <4>1. {s \in Slots : slots[s] = NoEntry} = unused(blocks[k])
        BY <3>2
      <4>2. slot \in unused(blocks[k])
        BY <1>2, <2>1, <2>3, <4>1, LeastIn DEF slot
      <4>3. QED
        BY <4>2
    <3> DEFINE f == WithEntry(d, blocks[k], slot, x)
    <3>5. Result(taken, slots, slot) = f
      <4>1. Result(taken, slots, slot) =
              [d EXCEPT !.entries[blocks[k]] = [d.entries[blocks[k]] EXCEPT ![slot] = x],
                        !.blocks[dir][k] = blocks[k]]
        BY <3>1, <3>2 DEF Result
      <4>2. [d.blocks EXCEPT ![dir][k] = blocks[k]] = d.blocks
        BY <1>2, <1>3, <2>1 DEF Typed
      <4>3. QED
        BY <4>1, <4>2 DEF WithEntry, Typed
    <3>6. ~ Filled(d, blocks[k], slot)
      BY <3>4 DEF Filled, At
    <3>7. /\ Typed(f) /\ f.used = d.used /\ f.type = d.type /\ f.power = d.power
      <4>1. blocks[k] \in Blocks /\ slot \in Slots /\ x \in Entry
        BY <1>2, <3>3, <3>4
      <4> HIDE DEF blocks, unused, room, x
      <4>2. QED
        BY <4>1, WithEntryIs
    <3>8. Joined(d, f, L, dir, i, n)
      BY <3>3, <3>4, <3>6, EntryJoins
    <3>9. \A b \in Blocks : b # blocks[k] => f.entries[b] = d.entries[b]
      BY <3>3 DEF Typed, WithEntry
    <3>10. blocks[k] \in d.used
      BY <1>3, <2>1, <3>3 DEF Good, Listed, Owned
    <3> HIDE DEF f
    <3>11. Filling(d, f)
      BY <3>7, <3>9, <3>10 DEF Filling
    <3>12. o.ok /\ o.disk = f
      BY <2>2, <3>5 DEF Done
    <3>13. QED
      BY <3>7, <3>8, <3>11, <3>12
  <2>4. CASE blocks[k] = 0
    <3>1. taken = alloc_block(d) /\ slots = EmptyBlock
      BY <2>4 DEF taken, slots
    <3>2. PICK b \in Blocks \ d.used : taken = Done(Taken(d, b), b)
      BY <1>5, <3>1, HostAlloc DEF Failed
    <3>3. taken.disk = Taken(d, b) /\ taken.val = b
      BY <3>2 DEF Done
    <3>4. slot = 1
      <4>1. {s \in Slots : slots[s] = NoEntry} = Slots
        BY <3>1 DEF EmptyBlock
      <4>2. Least(Slots) \in Slots /\ \A s \in Slots : Least(Slots) <= s
        <5>1. \E m \in Slots : \A s \in Slots : m <= s
          BY <1>2, LeastNumber
        <5>2. QED
          BY <5>1 DEF Least
      <4>3. Least(Slots) = 1
        BY <1>2, <4>2 DEF Slots
      <4>4. QED
        BY <4>1, <4>3 DEF slot
    <3> DEFINE f == WithEntry(WithBlock(d, dir, k, b), b, 1, x)
    <3>5. Result(taken, slots, slot) = f
      <4>1. Result(taken, slots, slot) =
              [Taken(d, b) EXCEPT !.entries[b] = [EmptyBlock EXCEPT ![1] = x],
                                  !.blocks[dir][k] = b]
        BY <3>1, <3>3, <3>4 DEF Result
      <4>2. [[d.entries EXCEPT ![b] = EmptyBlock] EXCEPT ![b] = [EmptyBlock EXCEPT ![1] = x]]
              = [d.entries EXCEPT ![b] = [EmptyBlock EXCEPT ![1] = x]]
        BY DEF Typed
      <4>3. [d.type EXCEPT ![dir] = d.type[dir]] = d.type
        BY <1>2 DEF Typed
      <4>4. QED
        <5> DEFINE t == Taken(d, b)
                   E == [d.entries EXCEPT ![b] = [EmptyBlock EXCEPT ![1] = x]]
                   B == [d.blocks EXCEPT ![dir] = [d.blocks[dir] EXCEPT ![k] = b]]
                   Y == [d.type EXCEPT ![dir] = d.type[dir]]
        <5>1. Typed(t) /\ t.type = d.type /\ t.blocks = d.blocks /\ t.entries = d.entries
          BY BitmapChanges DEF Alike
        <5>2. Y = t.type
          BY <4>3, <5>1
        <5>3. Result(taken, slots, slot) = [t EXCEPT !.entries = E, !.blocks = B]
          BY <4>1, <5>1 DEF Typed
        <5>4. WithEmpty(t, b) = [t EXCEPT !.entries = [d.entries EXCEPT ![b] = EmptyBlock]]
          BY <5>1 DEF WithEmpty, Typed
        <5>5. WithBlock(d, dir, k, b)
                = [t EXCEPT !.entries = [d.entries EXCEPT ![b] = EmptyBlock], !.type = Y, !.blocks = B]
          BY <5>1, <5>4 DEF WithBlock, Put, Typed
        <5>6. f = [t EXCEPT !.entries = E, !.type = Y, !.blocks = B]
          <6>1. [[d.entries EXCEPT ![b] = EmptyBlock] EXCEPT ![b][1] = x] = E
            BY DEF Typed
          <6> DEFINE G == [d.entries EXCEPT ![b] = EmptyBlock]
          <6> HIDE DEF G, E, Y, B, t
          <6>2. f = [[t EXCEPT !.entries = G, !.type = Y, !.blocks = B] EXCEPT !.entries[b][1] = x]
            BY <5>5 DEF WithEntry, G
          <6>3. f = [t EXCEPT !.entries = [G EXCEPT ![b][1] = x], !.type = Y, !.blocks = B]
            BY <5>1, <6>2 DEF Typed
          <6>4. QED
            BY <6>1, <6>3 DEF G
        <5> HIDE DEF f, t, E, Y, B
        <5>7. [t EXCEPT !.entries = E, !.type = Y, !.blocks = B] = [t EXCEPT !.entries = E, !.blocks = B]
          BY <5>1, <5>2 DEF Typed
        <5>8. QED
          BY <5>3, <5>6, <5>7
    <3>6. \A l \in Indices : l < k => blocks[l] # 0
      <4>1. \A l \in room : k <= l
        <5>1. \E m \in room : \A l \in room : m <= l
          BY <1>2, <1>5, LeastNumber
        <5>2. QED
          BY <5>1 DEF Least, k
      <4>2. QED
        BY <2>1, <4>1 DEF Indices
    <3>7. /\ Joined(d, f, L, dir, i, n)
          /\ Typed(f) /\ f.type = d.type /\ f.power = d.power
          /\ f.used = d.used \cup {b} /\ \A c \in Blocks : c # b => f.entries[c] = d.entries[c]
      BY <2>1, <2>4, <3>6, NewBlockJoins
    <3> HIDE DEF f
    <3>8. Filling(d, f)
      BY <3>7 DEF Filling
    <3>9. o.ok /\ o.disk = f
      BY <2>2, <3>5 DEF Done
    <3>10. QED
      BY <3>7, <3>8, <3>9
  <2>5. QED
    BY <2>3, <2>4
<1>6. QED
  BY <1>4, <1>5

\* What copied has gathered after k turns for a file of n blocks.
Held(v, d, e, k, n) ==
  /\ v \in [Indices -> 0 .. NBlocks]
  /\ \A l \in Indices : v[l] # 0 <=> l <= k /\ l <= n
  /\ \A l \in Indices : v[l] # 0 => v[l] \in e.used \ d.used /\ e.entries[v[l]] = EmptyBlock
  /\ \A l, m \in Indices : v[l] # 0 /\ v[l] = v[m] => l = m
Gathered(o, d, L, k, n) ==
  /\ Grown(d, o.disk, L) /\ Filling(d, o.disk)
  /\ o.ok => Held(o.val, d, o.disk, k, n)

CopyTurn(before, k, n) ==
  IF k > n \/ ~ before.ok THEN before
  ELSE IF ~ alloc_block(before.disk).ok THEN alloc_block(before.disk)
  ELSE Done([alloc_block(before.disk).disk EXCEPT !.entries[alloc_block(before.disk).val] = EmptyBlock],
            [before.val EXCEPT ![k] = alloc_block(before.disk).val])
IsCopied(t, m, d, n) ==
  t = [k \in 0 .. m |-> IF k = 0 THEN Done(d, NoBlocks) ELSE CopyTurn(t[k - 1], k, n)]

\* The loop of copied is well defined.
LEMMA CopiedExists ==
  ASSUME NEW d, NEW n
  PROVE  \A m \in 0 .. MaxBlocks : \E t : IsCopied(t, m, d, n)
<1> DEFINE T == {m \in Nat : \E t : IsCopied(t, m, d, n)}
<1>1. 0 \in T
  <2> DEFINE t == [k \in 0 .. 0 |-> Done(d, NoBlocks)]
  <2>1. IsCopied(t, 0, d, n)
    BY DEF IsCopied
  <2>2. QED
    BY <2>1
<1>2. ASSUME NEW m \in 0 .. MaxBlocks - 1, m \in T PROVE m + 1 \in T
  <2>1. PICK t : IsCopied(t, m, d, n)
    BY <1>2
  <2> DEFINE u == [k \in 0 .. m + 1 |-> IF k = 0 THEN Done(d, NoBlocks) ELSE CopyTurn(t[k - 1], k, n)]
  <2>2. \A k \in 0 .. m : u[k] = t[k]
    <3>1. \A k \in 0 .. m : k \in 0 .. m + 1
      OBVIOUS
    <3>2. \A k \in 0 .. m : t[k] = IF k = 0 THEN Done(d, NoBlocks) ELSE CopyTurn(t[k - 1], k, n)
      BY <2>1 DEF IsCopied
    <3>3. QED
      BY <3>1, <3>2
  <2>3. \A k \in 0 .. m + 1 : k # 0 => u[k - 1] = t[k - 1]
    <3>1. \A k \in 0 .. m + 1 : k # 0 => k - 1 \in 0 .. m
      OBVIOUS
    <3>2. QED
      BY <2>2, <3>1
  <2>4. u = [k \in 0 .. m + 1 |-> IF k = 0 THEN Done(d, NoBlocks) ELSE CopyTurn(u[k - 1], k, n)]
    BY <2>3
  <2>5. IsCopied(u, m + 1, d, n)
    BY <2>4 DEF IsCopied
  <2>6. QED
    BY <2>5
<1>3. MaxBlocks \in Nat
  BY DiskAssumption
<1> HIDE DEF T
<1>4. \A m \in 0 .. MaxBlocks : m \in T
  BY <1>1, <1>2, <1>3, UpTo
<1>5. QED
  BY <1>4 DEF T

\* One turn: one block more, or no room.
LEMMA CopyTurnGathers ==
  ASSUME NEW d, Typed(d), NEW L, Good(d, L), NEW n \in Nat, NEW k \in Indices,
         NEW t, Gathered(t, d, L, k - 1, n)
  PROVE  Gathered(CopyTurn(t, k, n), d, L, k, n)
<1> DEFINE a == alloc_block(t.disk)
           e == t.disk
<1>0. k \in Nat /\ k # 0 /\ \A l \in Indices : l \in Nat
  BY DEF Indices
<1>1. CASE k > n
  <2>1. CopyTurn(t, k, n) = t
    BY <1>1 DEF CopyTurn
  <2>2. \A v, f : Held(v, d, f, k - 1, n) => Held(v, d, f, k, n)
    <3>1. \A l \in Indices : l <= k - 1 /\ l <= n <=> l <= k /\ l <= n
      BY <1>0, <1>1
    <3>2. QED
      BY <3>1 DEF Held
  <2>3. QED
    BY <2>1, <2>2 DEF Gathered
<1>2. CASE ~ t.ok
  BY <1>2 DEF CopyTurn, Gathered
<1>3. CASE ~ (k > n) /\ t.ok
  <2>1. /\ Grown(d, e, L) /\ Filling(d, e) /\ Held(t.val, d, e, k - 1, n) /\ Typed(e)
    BY <1>3 DEF Gathered, Filling
  <2>2. CASE a = Failed(e)
    <3>1. ~ a.ok /\ a.disk = e
      BY <2>2 DEF Failed
    <3>2. CopyTurn(t, k, n) = a
      BY <1>3, <3>1 DEF CopyTurn
    <3> HIDE DEF a, e
    <3>3. QED
      BY <2>1, <3>1, <3>2 DEF Gathered
  <2>3. CASE \E b \in Blocks \ e.used : a = Done(Taken(e, b), b)
    <3>1. PICK b \in Blocks \ e.used : a = Done(Taken(e, b), b)
      BY <2>3
    <3>2. a.ok /\ a.disk = Taken(e, b) /\ a.val = b
      BY <3>1 DEF Done
    <3> DEFINE f == WithEmpty(Taken(e, b), b)
               v == t.val
               w == [v EXCEPT ![k] = b]
               g == CopyTurn(t, k, n)
    <3>3. g = Done(f, w)
      BY <1>3, <3>2 DEF CopyTurn, WithEmpty
    <3>4. g.ok /\ g.disk = f /\ g.val = w
      BY <3>3 DEF Done
    <3>5. /\ Typed(Taken(e, b)) /\ Taken(e, b).used = e.used \cup {b} /\ Taken(e, b).entries = e.entries
          /\ Taken(e, b).power = e.power
      <4>1. b \in Blocks /\ Typed(e)
        BY <2>1, <3>1
      <4> HIDE DEF f, v, w, g, e, a
      <4>2. QED
        BY <4>1, TakenIs
    <3>6. /\ Typed(f) /\ f.used = e.used \cup {b} /\ f.power = e.power
          /\ \A c \in Blocks : c # b => f.entries[c] = e.entries[c]
      BY <3>5, WithEmptyIs
    <3>7. f.entries[b] = EmptyBlock
      BY <3>5 DEF WithEmpty, Typed
    <3>8. b \notin d.used /\ b \notin Owned(d, L) /\ b # 0 /\ b \in 0 .. NBlocks
      BY <2>1, UnmarkedUnowned DEF Filling, Blocks
    <3>9. Grown(d, f, L)
      BY <2>1, <3>8, GrownMore
    <3>10. Filling(d, f)
      BY <2>1, <3>6 DEF Filling
    <3> HIDE DEF f, v, g
    <3>11. Held(w, d, f, k, n)
      <4>1. v \in [Indices -> 0 .. NBlocks]
        BY <2>1 DEF Held, v
      <4>2. w \in [Indices -> 0 .. NBlocks] /\ w[k] = b /\ \A l \in Indices : l # k => w[l] = v[l]
        BY <3>8, <4>1
      <4>3. /\ \A l \in Indices : v[l] # 0 <=> l <= k - 1 /\ l <= n
            /\ \A l \in Indices : v[l] # 0 => v[l] \in e.used \ d.used /\ e.entries[v[l]] = EmptyBlock
            /\ \A l, m \in Indices : v[l] # 0 /\ v[l] = v[m] => l = m
        BY <2>1 DEF Held, v
      <4> HIDE DEF w, e
      <4>4. \A l \in Indices : w[l] # 0 <=> l <= k /\ l <= n
        <5>1. \A l \in Indices : l # k => (l <= k - 1 <=> l <= k)
          BY <1>0
        <5>2. k <= n
          BY <1>0, <1>3
        <5>3. QED
          BY <1>0, <3>8, <4>2, <4>3, <5>1, <5>2
      <4>5. \A l \in Indices : v[l] # 0 => v[l] # b /\ v[l] \in Blocks
        BY <3>1, <4>1, <4>3, DiskAssumption DEF Blocks
      <4>6. \A l \in Indices : w[l] # 0 => w[l] \in f.used \ d.used /\ f.entries[w[l]] = EmptyBlock
        BY <3>6, <3>7, <3>8, <4>2, <4>3, <4>5
      <4>7. \A l, m \in Indices : w[l] # 0 /\ w[l] = w[m] => l = m
        BY <3>8, <4>2, <4>3, <4>5
      <4>8. QED
        BY <4>2, <4>4, <4>6, <4>7 DEF Held
    <3> HIDE DEF w
    <3>12. Gathered(g, d, L, k, n)
      BY <3>4, <3>9, <3>10, <3>11 DEF Gathered
    <3>13. QED
      BY <3>12 DEF g
  <2>4. QED
    BY <2>1, <2>2, <2>3, HostAlloc
<1>4. QED
  BY <1>1, <1>2, <1>3

\* copied gathers the blocks of a file, all of them new and empty.
LEMMA Copying ==
  ASSUME NEW d, Typed(d), NEW L, Good(d, L), NEW n \in Nat, NEW c, c = copied(d, n)
  PROVE  Gathered(c, d, L, MaxBlocks, n)
<1> DEFINE t == CHOOSE t : IsCopied(t, MaxBlocks, d, n)
<1>1. MaxBlocks \in 0 .. MaxBlocks /\ MaxBlocks \in Nat
  BY DiskAssumption
<1>2. IsCopied(t, MaxBlocks, d, n)
  BY <1>1, CopiedExists
<1>3. copied(d, n) = IF t[MaxBlocks].ok /\ n > MaxBlocks THEN Failed(t[MaxBlocks].disk) ELSE t[MaxBlocks]
  BY DEF copied, IsCopied, CopyTurn
<1> HIDE DEF t
<1> DEFINE S == {k \in Nat : Gathered(t[k], d, L, k, n)}
<1>4. \A k \in 0 .. MaxBlocks : t[k] = IF k = 0 THEN Done(d, NoBlocks) ELSE CopyTurn(t[k - 1], k, n)
  BY <1>2 DEF IsCopied
<1>5. 0 \in S
  <2>1. t[0] = Done(d, NoBlocks)
    BY <1>1, <1>4
  <2>2. t[0].disk = d /\ t[0].val = NoBlocks
    BY <2>1 DEF Done
  <2>3. Grown(d, d, L) /\ Filling(d, d)
    BY DEF Grown, Filling
  <2>4. Held(NoBlocks, d, d, 0, n)
    <3>1. \A l \in Indices : ~ (l <= 0)
      BY DEF Indices
    <3>2. QED
      BY <3>1, NoBlocksTyped DEF Held
  <2>5. QED
    BY <2>2, <2>3, <2>4 DEF Gathered
<1>6. ASSUME NEW k \in 0 .. MaxBlocks - 1, k \in S PROVE k + 1 \in S
  <2>1. k + 1 \in 0 .. MaxBlocks /\ k + 1 # 0 /\ (k + 1) - 1 = k /\ k + 1 \in Indices /\ k + 1 \in Nat
    BY <1>1 DEF Indices
  <2>2. t[k + 1] = CopyTurn(t[(k + 1) - 1], k + 1, n)
    BY <1>4, <2>1
  <2>3. Gathered(t[(k + 1) - 1], d, L, (k + 1) - 1, n)
    BY <1>6, <2>1
  <2> DEFINE j == k + 1
  <2> HIDE DEF j
  <2>4. t[j] = CopyTurn(t[j - 1], j, n) /\ Gathered(t[j - 1], d, L, j - 1, n) /\ j \in Indices
    BY <2>1, <2>2, <2>3 DEF j
  <2>5. Gathered(t[j], d, L, j, n)
    BY <2>4, CopyTurnGathers
  <2>6. QED
    BY <2>1, <2>5 DEF j
<1> HIDE DEF S
<1>7. \A k \in 0 .. MaxBlocks : k \in S
  BY <1>1, <1>5, <1>6, UpTo
<1>8. Gathered(t[MaxBlocks], d, L, MaxBlocks, n)
  BY <1>1, <1>7 DEF S
<1>9. CASE t[MaxBlocks].ok /\ n > MaxBlocks
  <2>1. ~ c.ok /\ c.disk = t[MaxBlocks].disk
    BY <1>3, <1>9 DEF Failed
  <2>2. QED
    BY <1>8, <2>1 DEF Gathered
<1>10. CASE ~ (t[MaxBlocks].ok /\ n > MaxBlocks)
  BY <1>3, <1>8, <1>10
<1>11. QED
  BY <1>9, <1>10

\* An inode nobody names yet, with the blocks it is given.
Unlisted(d, L, blocks) ==
  /\ blocks \in [Indices -> 0 .. NBlocks]
  /\ \A k \in Indices : blocks[k] # 0 =>
       /\ blocks[k] \in d.used /\ blocks[k] \notin Owned(d, L)
       /\ d.entries[blocks[k]] = EmptyBlock
  /\ \A k, l \in Indices : blocks[k] # 0 /\ blocks[k] = blocks[l] => k = l
  /\ \A k, l \in Indices : blocks[k] # 0 /\ l < k => blocks[l] # 0

\* Its inode is written: it can be named.
LEMMA PutFresh ==
  ASSUME NEW d, Typed(d), NEW L, Good(d, L), NEW i \in Inodes, i \notin L,
         NEW type \in Types, type # "free", NEW blocks, Unlisted(d, L, blocks),
         NEW e, e = Put(d, i, type, blocks)
  PROVE  /\ Typed(e) /\ Unchanged(d, e, L) /\ Fresh(e, L, i)
         /\ e.type[i] = type /\ Filling(d, e)
         /\ Virgin(d) => Virgin(e)
<1>0. blocks \in [Indices -> 0 .. NBlocks]
  BY DEF Unlisted
<1>1. /\ Typed(e) /\ e.type = [d.type EXCEPT ![i] = type]
      /\ e.blocks = [d.blocks EXCEPT ![i] = blocks]
      /\ e.used = d.used /\ e.entries = d.entries /\ e.power = d.power
  BY <1>0, PutTyped
<1>2. /\ \A j \in Inodes : j # i => e.type[j] = d.type[j] /\ e.blocks[j] = d.blocks[j]
      /\ e.type[i] = type /\ e.blocks[i] = blocks
  BY <1>1 DEF Typed
<1>3. \A j \in L : j \in Inodes /\ j # i
  BY DEF Good, InUse
<1>4. Owned(e, L) = Owned(d, L)
  BY <1>2, <1>3 DEF Owned
<1>5. \A c \in Owned(e, {i}) : \E k \in Indices : blocks[k] = c /\ c # 0
  <2>1. \A c \in Blocks : c # 0
    BY DEF Blocks
  <2>2. QED
    BY <1>2, <2>1 DEF Owned
<1>6. Unchanged(d, e, L)
  <2>1. Owned(d, L) \subseteq e.used
    BY <1>1 DEF Good, Listed
  <2>2. QED
    BY <1>1, <1>2, <1>3, <2>1, UnchangedIf
<1>7. Fresh(e, L, i)
  <2>1. i \in Inodes \ L /\ e.type[i] # "free"
    BY <1>2
  <2>2. Owned(e, {i}) \subseteq e.used /\ Owned(e, {i}) \cap Owned(e, L) = {}
    <3>1. \A c \in Owned(e, {i}) : c \in d.used /\ c \notin Owned(d, L)
      BY <1>5 DEF Unlisted
    <3>2. QED
      BY <1>1, <1>4, <3>1
  <2>3. \A k, l \in Indices : e.blocks[i][k] # 0 /\ e.blocks[i][k] = e.blocks[i][l] => k = l
    BY <1>2 DEF Unlisted
  <2>4. \A k, l \in Indices : e.blocks[i][k] # 0 /\ l < k => e.blocks[i][l] # 0
    BY <1>2 DEF Unlisted
  <2>5. \A c \in Owned(e, {i}) : \A s \in Slots : ~ Filled(e, c, s)
    <3>1. \A c \in Owned(e, {i}) : d.entries[c] = EmptyBlock
      BY <1>5 DEF Unlisted
    <3>2. \A s \in Slots : EmptyBlock[s] = NoEntry
      BY DEF EmptyBlock
    <3>3. QED
      BY <1>1, <3>1, <3>2 DEF Filled, At
  <2>6. QED
    BY <2>1, <2>2, <2>3, <2>4, <2>5 DEF Fresh
<1>8. Filling(d, e) /\ (Virgin(d) => Virgin(e))
  BY <1>1 DEF Filling, Virgin
<1>9. QED
  BY <1>1, <1>2, <1>6, <1>7, <1>8

\* What one host entry becomes: a node, or nothing anybody sees.
Installed(o, d, L, dir, i, n, type) ==
  /\ Filling(d, o.disk)
  /\ \/ ~ o.ok /\ Unchanged(d, o.disk, L)
     \/ o.ok /\ o.disk.type[i] = type /\ Joined(d, o.disk, L, dir, i, n)

\* The inode is written, then the name.
LEMMA InstallEntry ==
  ASSUME NEW d, Typed(d), NEW L, Good(d, L), NEW e, Typed(e), Unchanged(d, e, L), Filling(d, e),
         NEW i \in Inodes, i \notin L, NEW dir \in L, d.type[dir] = "directory",
         NEW n \in Names, \A x \in Listing(d, dir) : x.name # n,
         NEW type \in Types, type # "free", NEW blocks, Unlisted(e, L, blocks),
         NEW o, o = add_directory_entry(write_inode(e, i, type, blocks), dir, i, n)
  PROVE  Installed(o, d, L, dir, i, n, type)
<1> DEFINE f == Put(e, i, type, blocks)
<1>1. f = write_inode(e, i, type, blocks)
  BY DEF Put, write_inode
<1>2. Good(e, L)
  BY DEF Unchanged
<1>3. Typed(f) /\ Unchanged(e, f, L) /\ Fresh(f, L, i) /\ f.type[i] = type /\ Filling(e, f)
  BY <1>2, PutFresh
<1> HIDE DEF f
<1>4. Unchanged(d, f, L) /\ Filling(d, f) /\ Good(f, L)
  BY <1>3, UnchangedTwice, FillingTwice DEF Unchanged
<1>5. f.type[dir] = "directory" /\ \A x \in Listing(f, dir) : x.name # n
  BY <1>4 DEF Unchanged
<1>6. o = add_directory_entry(f, dir, i, n)
  BY <1>1
<1>7. \/ o = Failed(f)
      \/ /\ o.ok /\ Filling(f, o.disk) /\ o.disk.type = f.type
         /\ Joined(f, o.disk, L, dir, i, n)
  BY <1>3, <1>4, <1>5, <1>6, HostEntry
<1>8. CASE o = Failed(f)
  <2>1. ~ o.ok /\ o.disk = f
    BY <1>8 DEF Failed
  <2>2. QED
    BY <1>4, <2>1 DEF Installed
<1>9. CASE /\ o.ok /\ Filling(f, o.disk) /\ o.disk.type = f.type
           /\ Joined(f, o.disk, L, dir, i, n)
  <2>1. Filling(d, o.disk)
    BY <1>4, <1>9, FillingTwice
  <2>2. Joined(d, o.disk, L, dir, i, n)
    BY <1>4, <1>9, UnchangedJoined
  <2>3. QED
    BY <1>3, <1>9, <2>1, <2>2 DEF Installed
<1>10. QED
  BY <1>7, <1>8, <1>9

\* install_file, from the blocks to the name.
LEMMA InstallFile ==
  ASSUME NEW d, Typed(d), NEW L, Good(d, L), NEW m \in Nat,
         NEW i \in Inodes, i \notin L, NEW dir \in L, d.type[dir] = "directory",
         NEW n \in Names, \A x \in Listing(d, dir) : x.name # n,
         NEW o, o = IF ~ copied(d, m).ok THEN copied(d, m)
                    ELSE add_directory_entry(write_inode(copied(d, m).disk, i, "file", copied(d, m).val),
                                             dir, i, n)
  PROVE  Installed(o, d, L, dir, i, n, "file")
<1> DEFINE c == copied(d, m)
           e == c.disk
<1>1. Gathered(c, d, L, MaxBlocks, m)
  BY Copying
<1>2. Grown(d, e, L) /\ Filling(d, e) /\ (c.ok => Held(c.val, d, e, MaxBlocks, m))
  BY <1>1 DEF Gathered
<1> HIDE DEF c, e
<1>3. Unchanged(d, e, L) /\ Typed(e)
  BY <1>2, GrownIs
<1>4. CASE ~ c.ok
  <2>1. o = c
    BY <1>4 DEF c
  <2>2. QED
    BY <1>2, <1>3, <1>4, <2>1 DEF Installed, e
<1>5. CASE c.ok
  <2> DEFINE type   == "file"
             blocks == c.val
  <2>1. o = add_directory_entry(write_inode(e, i, type, blocks), dir, i, n)
    BY <1>5 DEF c, e
  <2>2. Held(blocks, d, e, MaxBlocks, m)
    BY <1>2, <1>5
  <2>3. type \in Types /\ type # "free"
    BY DEF Types
  <2> HIDE DEF type, blocks
  <2>4. Unlisted(e, L, blocks)
    <3>1. \A b : b \in e.used \ d.used => b \notin Owned(e, L)
      <4>1. e.blocks = d.blocks
        BY <1>2 DEF Grown
      <4>2. Owned(e, L) = Owned(d, L)
        BY <4>1 DEF Owned
      <4>3. QED
        BY <4>2, UnmarkedUnowned
    <3>2. \A k, l \in Indices : blocks[k] # 0 /\ l < k => blocks[l] # 0
      <4>1. \A k \in Indices : k \in Int /\ k <= MaxBlocks
        BY DiskAssumption DEF Indices
      <4>2. QED
        BY <2>2, <4>1 DEF Held
    <3>3. QED
      BY <2>2, <3>1, <3>2 DEF Held, Unlisted
  <2>5. Installed(o, d, L, dir, i, n, type)
    BY <1>2, <1>3, <2>1, <2>3, <2>4, InstallEntry
  <2>6. QED
    BY <2>5 DEF type
<1>6. QED
  BY <1>4, <1>5

\* install_directory: its block has not been used before, so it is empty.
LEMMA InstallDirectory ==
  ASSUME NEW d, Typed(d), NEW L, Good(d, L), Virgin(d),
         NEW i \in Inodes, i \notin L, NEW dir \in L, d.type[dir] = "directory",
         NEW n \in Names, \A x \in Listing(d, dir) : x.name # n,
         NEW o, o = IF ~ alloc_block(d).ok THEN alloc_block(d)
                    ELSE add_directory_entry(write_inode(alloc_block(d).disk, i, "directory",
                                                         [NoBlocks EXCEPT ![1] = alloc_block(d).val]),
                                             dir, i, n)
  PROVE  Installed(o, d, L, dir, i, n, "directory")
<1> DEFINE a == alloc_block(d)
<1>1. Unchanged(d, d, L) /\ Filling(d, d)
  BY UnchangedOff DEF Filling
<1>2. CASE a = Failed(d)
  <2>1. ~ a.ok /\ a.disk = d
    BY <1>2 DEF Failed
  <2>2. o = a
    BY <2>1
  <2>3. QED
    BY <1>1, <2>1, <2>2 DEF Installed
<1>3. CASE \E b \in Blocks \ d.used : a = Done(Taken(d, b), b)
  <2>1. PICK b \in Blocks \ d.used : a = Done(Taken(d, b), b)
    BY <1>3
  <2>2. a.ok /\ a.disk = Taken(d, b) /\ a.val = b
    BY <2>1 DEF Done
  <2> DEFINE e == Taken(d, b)
             type == "directory"
             blocks == OneBlock(b)
  <2>3. o = add_directory_entry(write_inode(e, i, type, blocks), dir, i, n)
    BY <2>2 DEF OneBlock
  <2>4. type \in Types /\ type # "free"
    BY DEF Types
  <2>5. Typed(e) /\ e.used = d.used \cup {b} /\ Alike(d, e) /\ e.power = d.power
    BY BitmapChanges
  <2> HIDE DEF type, e, blocks
  <2>6. Unchanged(d, e, L)
    BY <2>5, MarkingUnseen
  <2>7. Filling(d, e)
    BY <2>5 DEF Filling, Alike
  <2>8. Unlisted(e, L, blocks)
    <3>1. b \notin Owned(e, L)
      <4>1. Owned(e, L) = Owned(d, L)
        BY <2>5 DEF Owned, Alike
      <4>2. QED
        BY <4>1, UnmarkedUnowned
    <3>2. /\ blocks \in [Indices -> 0 .. NBlocks] /\ blocks[1] = b /\ b # 0
          /\ \A k \in Indices : k # 1 => blocks[k] = 0
      BY OneBlockTyped DEF blocks
    <3>3. e.entries[b] = EmptyBlock /\ b \in e.used
      BY <2>5 DEF Virgin, Alike
    <3>4. \A k \in Indices : ~ (k < 1)
      BY DEF Indices
    <3>5. QED
      BY <3>1, <3>2, <3>3, <3>4 DEF Unlisted
  <2>9. Installed(o, d, L, dir, i, n, type)
    BY <2>3, <2>4, <2>5, <2>6, <2>7, <2>8, InstallEntry
  <2>10. QED
    BY <2>9 DEF type
<1>4. QED
  BY <1>2, <1>3, HostAlloc

-----------------------------------------------------------------------------
(* The invariant *)

\* The table holds no more inodes than there are.
LEMMA TableHolds == /\ InodeCount \in Nat \ {0} /\ NInodes \in Nat \ {0} /\ NInodes <= InodeCount
<1>1. Overlaid \in BOOLEAN /\ InodeCount \in Nat \ {0} /\ NInodes \in Nat \ {0}
  BY LayoutAssumption, DiskAssumption DEF Overlaid
<1>2. CASE Overlaid
  BY <1>1, <1>2 DEF NInodes, Overlaid
<1>3. CASE ~ Overlaid
  BY <1>1, <1>3 DEF NInodes
<1>4. QED
  BY <1>1, <1>2, <1>3

OpenDirectory(d, i) == d.type[i] = "directory" /\ \E q \in Resolved(d) : q.inode = i

\* While mkfs copies, every inode in use is behind it, and what it has open are
\* directories of the image.
Host(L) ==
  /\ \A i \in L : i < mkfs.next
  /\ Virgin(disk)
  /\ \A k \in 1 .. Len(mkfs.open) : OpenDirectory(disk, mkfs.open[k])

InOrder(L) ==
  /\ Typed(disk) /\ disk.power = "on" /\ clean \in BOOLEAN /\ Good(disk, L)
  /\ mkfs \in [next : 1 .. InodeCount, open : Seq(Inodes), booted : BOOLEAN]
  /\ mkfs.booted => mkfs.open = <<>>
  /\ ~ mkfs.booted => Host(L)

DiskInOrder == \E L : InOrder(L)

\* mkfs has gone beyond the table, or is done.
PastTable == mkfs.open = <<>> \/ mkfs.next >= NInodes

\* Once the disk is not kept only the types of the rest are claimed.
KeptInOrder ==
  /\ kept \in BOOLEAN /\ clean \in BOOLEAN
  /\ mkfs \in [next : 1 .. InodeCount, open : Seq(Inodes), booted : BOOLEAN]
  /\ IF kept THEN DiskInOrder ELSE PastTable

\* One step: the disk stays in order, changes in one place at most, and the
\* count of free inodes is as right as it was.
StepGoal(L) ==
  /\ \E M : InOrder(M)'
  /\ disk' = disk \/ Changed(disk, disk', L)
  /\ mkfs.booted /\ clean' => Balance(disk') = Balance(disk)

\* The disk is in order after any change.
LEMMA ChangedGood ==
  ASSUME NEW d, NEW e, NEW L, Changed(d, e, L)
  PROVE  \E M : Good(e, M)
  BY DEF Changed, Unchanged, Joins, Joined, Removes, Removed

\* The image mkfs formats is in order and holds the root only.
LEMMA FormattedInOrder ==
  ASSUME Reliable, ImageInit
  PROVE  InOrder({RootInode}) /\ Resolved(disk) = {Start} /\ disk.type[RootInode] = "directory"
<1> DEFINE L == {RootInode}
<1>1. PICK left \in [Residue -> {"free", "other"}] : disk = format_filesystem(left)
  BY DEF ImageInit
<1> DEFINE type == [i \in Inodes |-> IF i \in Residue THEN left[i]
                                     ELSE IF i = RootInode THEN "directory" ELSE "free"]
           blocks == [i \in Inodes |-> IF i = RootInode THEN OneBlock(1) ELSE NoBlocks]
           entries == [b \in Blocks |-> EmptyBlock]
<1>2. disk = [used |-> {1}, free_blocks |-> NBlocks - 1, free_inodes |-> InodeCount - 1,
              type |-> type, blocks |-> blocks, entries |-> entries,
              errors |-> 0, power |-> "on"]
  BY <1>1 DEF format_filesystem, fs_format, Reliable, OneBlock
<1>3. RootInode \in Inodes /\ 1 \in Blocks /\ RootInode \notin Residue /\ NBlocks - 1 \in Int /\ InodeCount - 1 \in Int
  BY DiskAssumption, LayoutAssumption DEF Inodes, RootInode, Blocks, Residue
<1>4. type \in [Inodes -> Types] /\ type[RootInode] = "directory"
  BY <1>3 DEF Types
<1>5. blocks \in [Inodes -> [Indices -> 0 .. NBlocks]] /\ blocks[RootInode] = OneBlock(1)
  BY <1>3, NoBlocksTyped, OneBlockTyped
<1>6. entries \in [Blocks -> [Slots -> Entry \cup {NoEntry}]] /\ \A b \in Blocks : \A s \in Slots : entries[b][s] = NoEntry
  BY DEF EmptyBlock
<1>7. Virgin(disk)
  BY <1>2 DEF Virgin
<1> HIDE DEF type, blocks, entries
<1>8. Typed(disk) /\ disk.power = "on"
  BY <1>2, <1>3, <1>4, <1>5, <1>6 DEF Typed
<1>9. disk.used = {1} /\ disk.blocks[RootInode] = OneBlock(1) /\ disk.type[RootInode] = "directory"
  BY <1>2, <1>4, <1>5
<1>10. \A b \in Blocks : \A s \in Slots : ~ Filled(disk, b, s)
  BY <1>2, <1>6 DEF Filled, At
<1>11. \A b \in Owned(disk, L) : b = 1 /\ b \in Blocks
  <2>1. \A b \in Blocks : b # 0
    BY DEF Blocks
  <2>2. QED
    BY <1>3, <1>9, <2>1, OneBlockTyped DEF Owned
<1>12. \A b \in Owned(disk, {RootInode}) : b \in Blocks
  BY <1>11
<1>13. Good(disk, L)
  <2>1. InUse(disk, L)
    BY <1>3, <1>9 DEF InUse
  <2>2. Listed(disk, L)
    <3>1. Owned(disk, L) \subseteq disk.used
      BY <1>9, <1>11
    <3>2. \A k, l \in Indices : OneBlock(1)[k] # 0 /\ OneBlock(1)[k] = OneBlock(1)[l] => k = l
      BY <1>3, OneBlockTyped
    <3>3. \A k, l \in Indices : OneBlock(1)[k] # 0 /\ l < k => OneBlock(1)[l] # 0
      <4>1. \A l \in Indices : ~ (l < 1)
        BY DEF Indices
      <4>2. QED
        BY <1>3, <4>1, OneBlockTyped
    <3>4. QED
      BY <1>9, <3>1, <3>2, <3>3 DEF Listed
  <2>3. NamesOnce(disk, L)
    BY <1>10, <1>11 DEF NamesOnce
  <2>4. NamesDiffer(disk, L)
    BY <1>10, <1>12 DEF NamesDiffer
  <2>5. OnlyDirectories(disk, L)
    BY <1>10, <1>12 DEF OnlyDirectories
  <2>6. QED
    BY <2>1, <2>2, <2>3, <2>4, <2>5 DEF Good
<1>14. Entries(disk, RootInode) = {}
  <2>1. Entries(disk, RootInode) = Listing(disk, RootInode)
    BY <1>8, <1>13, EntriesAre
  <2>2. QED
    BY <1>10, <1>12, <2>1 DEF Listing
<1>15. Resolved(disk) = {Start}
  <2> DEFINE T == {Start}
  <2>1. Start \in T /\ \A p \in T : \A x \in Entries(disk, p.inode) : Below(p, x) \in T
    BY <1>14 DEF Start
  <2> HIDE DEF T
  <2>2. Resolved(disk) \subseteq T
    BY <2>1, ResolvedWithin
  <2>3. QED
    BY <2>2, StartResolved DEF T
<1>16. mkfs = [next |-> 1, open |-> <<RootInode>>, booted |-> FALSE] /\ clean = TRUE
  BY DEF ImageInit
<1>17. mkfs \in [next : 1 .. InodeCount, open : Seq(Inodes), booted : BOOLEAN]
  BY <1>3, <1>16, LayoutAssumption
<1>18. Host(L)
  <2>1. \A i \in L : i < mkfs.next
    BY <1>16 DEF RootInode
  <2>2. OpenDirectory(disk, RootInode)
    BY <1>9, StartResolved DEF OpenDirectory, Start
  <2>3. \A k \in 1 .. Len(mkfs.open) : mkfs.open[k] = RootInode
    BY <1>16
  <2>4. QED
    BY <1>7, <2>1, <2>2, <2>3 DEF Host
<1>19. QED
  BY <1>8, <1>9, <1>13, <1>15, <1>16, <1>17, <1>18 DEF InOrder

\* What is not marked stays empty.
LEMMA FillingVirgin ==
  ASSUME NEW d, NEW e, Filling(d, e), Virgin(d)
  PROVE  Virgin(e)
<1>1. \A b \in Blocks \ e.used : b \notin d.used
  BY DEF Filling
<1>2. QED
  BY <1>1 DEF Filling, Virgin

\* A directory of the image stays one as long as its inode does.
LEMMA StaysOpen ==
  ASSUME NEW d, Typed(d), NEW L, Good(d, L), NEW e, NEW i, OpenDirectory(d, i),
         \A j \in L : e.type[j] = d.type[j], Resolved(d) \subseteq Resolved(e)
  PROVE  OpenDirectory(e, i)
<1>1. PICK q \in Resolved(d) : q.inode = i
  BY DEF OpenDirectory
<1>2. i \in L
  BY <1>1, ResolvedMembers
<1>3. QED
  BY <1>1, <1>2 DEF OpenDirectory

\* What mkfs has open after one more host entry.
LEMMA OpensMore ==
  ASSUME NEW open \in Seq(Inodes), NEW i \in Inodes, NEW more, more = open \/ more = Append(open, i)
  PROVE  /\ more \in Seq(Inodes)
         /\ \A k \in 1 .. Len(more) : \/ \E l \in 1 .. Len(open) : more[k] = open[l]
                                      \/ more = Append(open, i) /\ more[k] = i
<1>1. CASE more = open
  BY <1>1
<1>2. CASE more = Append(open, i)
  <2> DEFINE a == Append(open, i)
  <2>1. /\ a \in Seq(Inodes) /\ Len(a) = Len(open) + 1 /\ Len(open) \in Nat
        /\ \A k \in 1 .. Len(open) : a[k] = open[k]
        /\ a[Len(open) + 1] = i
    BY AppendProperties, LenProperties
  <2> HIDE DEF a
  <2>2. \A k \in 1 .. Len(a) : k \in 1 .. Len(open) \/ k = Len(open) + 1
    BY <2>1
  <2>3. \A k \in 1 .. Len(a) : (\E l \in 1 .. Len(open) : a[k] = open[l]) \/ a[k] = i
    BY <2>1, <2>2
  <2>4. more = a
    BY <1>2 DEF a
  <2>5. QED
    BY <1>2, <2>1, <2>3, <2>4
<1>3. QED
  BY <1>1, <1>2

\* A host entry has been copied, or not.
LEMMA HostStep ==
  ASSUME NEW L, InOrder(L), mkfs.open # <<>>, mkfs.next < NInodes,
         NEW q \in Resolved(disk), q.inode = Current, disk.type[Current] = "directory",
         NEW n \in Names, NEW type \in {"file", "directory"}, NEW o,
         Installed(o, disk, L, Current, mkfs.next, n, type),
         NEW open, open = mkfs.open \/ (type = "directory" /\ open = Append(mkfs.open, mkfs.next)),
         Copied(o, open)
  PROVE  StepGoal(L)
<1>0. PICK i : i = mkfs.next
  OBVIOUS
<1>1. /\ Typed(disk) /\ disk.power = "on" /\ clean \in BOOLEAN /\ Good(disk, L)
      /\ ~ mkfs.booted /\ Host(L) /\ mkfs.open \in Seq(Inodes) /\ mkfs.next \in 1 .. InodeCount
  BY DEF InOrder
<1>2. i \in Inodes /\ i \notin L /\ i + 1 \in 1 .. InodeCount /\ i \in Int
  BY <1>0, <1>1, TableHolds DEF Host, Inodes
<1>3. /\ disk' = o.disk /\ clean' = clean
      /\ mkfs' = [mkfs EXCEPT !.next = @ + 1, !.open = IF o.ok THEN open ELSE <<>>]
  BY DEF Copied
<1>4. /\ mkfs'.next = i + 1 /\ mkfs'.booted = FALSE /\ mkfs'.open = IF o.ok THEN open ELSE <<>>
  BY <1>0, <1>1, <1>3 DEF InOrder
<1>5. /\ open \in Seq(Inodes)
      /\ \A k \in 1 .. Len(open) : \/ \E l \in 1 .. Len(mkfs.open) : open[k] = mkfs.open[l]
                                   \/ type = "directory" /\ open[k] = i
  <2>1. open = mkfs.open \/ open = Append(mkfs.open, i)
    BY <1>0
  <2>2. open = mkfs.open => \A k \in 1 .. Len(open) : \E l \in 1 .. Len(mkfs.open) : open[k] = mkfs.open[l]
    OBVIOUS
  <2>3. /\ open \in Seq(Inodes)
        /\ \A k \in 1 .. Len(open) : (\E l \in 1 .. Len(mkfs.open) : open[k] = mkfs.open[l]) \/ open[k] = i
    BY <1>1, <1>2, <2>1, OpensMore
  <2>4. QED
    BY <1>0, <2>2, <2>3
<1>6. mkfs' \in [next : 1 .. InodeCount, open : Seq(Inodes), booted : BOOLEAN]
  <2>1. mkfs'.open \in Seq(Inodes)
    BY <1>4, <1>5, EmptySeq
  <2>2. mkfs' = [next |-> mkfs'.next, open |-> mkfs'.open, booted |-> mkfs'.booted]
    BY <1>3 DEF InOrder
  <2>3. QED
    BY <1>2, <1>4, <2>1, <2>2
<1>7. Filling(disk, disk') /\ Virgin(disk')
  BY <1>1, <1>3, FillingVirgin DEF Installed, Host
<1>8. Typed(disk') /\ disk'.power = "on"
  BY <1>1, <1>7 DEF Filling
<1>9. CASE ~ o.ok
  <2>1. Unchanged(disk, disk', L)
    BY <1>3, <1>9 DEF Installed
  <2>2. Good(disk', L)
    BY <2>1 DEF Unchanged
  <2>3. mkfs'.open = <<>>
    BY <1>4, <1>9
  <2>4. \A j \in L : j < mkfs'.next
    <3>1. \A j \in L : j < i /\ j \in Int
      BY <1>0, <1>1 DEF Host, Good, InUse, Inodes
    <3>2. QED
      BY <1>2, <1>4, <3>1
  <2>5. Host(L)'
    BY <1>7, <2>3, <2>4 DEF Host
  <2>6. InOrder(L)'
    BY <1>1, <1>3, <1>6, <1>8, <2>2, <2>3, <2>5 DEF InOrder
  <2>7. QED
    BY <1>1, <2>1, <2>6 DEF StepGoal, Changed
<1>10. CASE o.ok
  <2> DEFINE M == L \cup {i}
  <2>1. Joined(disk, disk', L, q.inode, i, n) /\ disk'.type[i] = type
    BY <1>0, <1>3, <1>10 DEF Installed
  <2>2. Good(disk', M) /\ \A j \in L : disk'.type[j] = disk.type[j]
    BY <2>1 DEF Joined
  <2>3. mkfs'.open = open
    BY <1>4, <1>10
  <2>4. \A j \in M : j < mkfs'.next
    <3>1. \A j \in L : j < i /\ j \in Int
      BY <1>0, <1>1 DEF Host, Good, InUse, Inodes
    <3>2. QED
      BY <1>2, <1>4, <3>1
  <2>5. Resolved(disk') = Resolved(disk) \cup {Below(q, Naming(i, n))}
    <3>1. Joined(disk, disk', L, q.inode, i, n) /\ i \in Inodes \ L
      BY <1>2, <2>1
    <3>2. Typed(disk) /\ Typed(disk') /\ Good(disk, L)
      BY <1>1, <1>8
    <3>3. PICK e : e = disk'
      OBVIOUS
    <3>4. PICK d : d = disk
      OBVIOUS
    <3>5. /\ Typed(d) /\ Typed(e) /\ Good(d, L) /\ q \in Resolved(d) /\ Joined(d, e, L, q.inode, i, n)
          /\ i \in Inodes \ L
      BY <3>1, <3>2, <3>3, <3>4
    <3>6. Resolved(e) = Resolved(d) \cup {Below(q, Naming(i, n))}
      BY <3>5, TreeJoined
    <3>7. QED
      BY <3>3, <3>4, <3>6
  <2>6. \A k \in 1 .. Len(open) : OpenDirectory(disk', open[k])
    <3> TAKE k \in 1 .. Len(open)
    <3>1. CASE \E l \in 1 .. Len(mkfs.open) : open[k] = mkfs.open[l]
      <4>1. OpenDirectory(disk, open[k])
        BY <1>1, <3>1 DEF Host
      <4>2. Resolved(disk) \subseteq Resolved(disk')
        BY <2>5
      <4>3. QED
        BY <1>1, <2>2, <4>1, <4>2, StaysOpen
    <3>2. CASE type = "directory" /\ open[k] = i
      <4>1. Below(q, Naming(i, n)).inode = i
        BY DEF Below, Naming
      <4>2. QED
        BY <2>1, <2>5, <3>2, <4>1 DEF OpenDirectory
    <3>3. QED
      BY <1>5, <3>1, <3>2
  <2> HIDE DEF M
  <2>7. Host(M)'
    BY <1>7, <2>3, <2>4, <2>6 DEF Host
  <2>8. InOrder(M)'
    BY <1>1, <1>3, <1>4, <1>6, <1>8, <2>2, <2>7 DEF InOrder
  <2>9. Joins(disk, disk', L)
    BY <1>2, <2>1 DEF Joins
  <2>10. QED
    BY <1>1, <2>8, <2>9 DEF StepGoal, Changed
<1>11. QED
  BY <1>9, <1>10

\* mkfs reads a host entry: into a directory of the image, for an inode and
\* under a name that are both new.
LEMMA ReadsNew ==
  ASSUME NEW L, InOrder(L), NEW n, Reads(n), mkfs.next < NInodes
  PROVE  /\ mkfs.open # <<>> /\ mkfs.next \in Inodes /\ mkfs.next \notin L
         /\ Virgin(disk) /\ OpenDirectory(disk, Current) /\ Current \in L
         /\ \A x \in Listing(disk, Current) : x.name # n
<1>1. /\ Typed(disk) /\ Good(disk, L) /\ mkfs.open # <<>>
      /\ Host(L) /\ mkfs.open \in Seq(Inodes) /\ mkfs.next \in 1 .. InodeCount
  BY DEF InOrder, Reads
<1>2. mkfs.next \in Inodes /\ mkfs.next \notin L
  BY <1>1, TableHolds DEF Host, Inodes
<1>3. OpenDirectory(disk, Current)
  <2>1. Len(mkfs.open) \in 1 .. Len(mkfs.open)
    BY <1>1, LenProperties, EmptySeq
  <2>2. QED
    BY <1>1, <2>1 DEF Host, Current
<1>4. Current \in L
  BY <1>1, <1>3, ResolvedMembers DEF OpenDirectory
<1>5. \A x \in Listing(disk, Current) : x.name # n
  <2>1. Entries(disk, Current) = Listing(disk, Current)
    BY <1>1, <1>4, EntriesAre
  <2>2. \A x \in Entries(disk, Current) : x.name # n
    BY DEF Reads, Named
  <2>3. QED
    BY <2>1, <2>2
<1>6. QED
  BY <1>1, <1>2, <1>3, <1>4, <1>5 DEF Host

\* install_file, as a step.
LEMMA InstallFileStep ==
  ASSUME NEW L, InOrder(L), NEW n \in Names, NEW m \in 0 .. MaxBlocks + 1, install_file(n, m)
  PROVE  StepGoal(L)
<1> DEFINE o == IF ~ copied(disk, m).ok THEN copied(disk, m)
                ELSE add_directory_entry(write_inode(copied(disk, m).disk, mkfs.next, "file",
                                                     copied(disk, m).val),
                                         Current, mkfs.next, n)
<1>1. Reads(n) /\ mkfs.next < NInodes /\ Copied(o, mkfs.open)
  BY DEF install_file
<1>2. /\ mkfs.open # <<>> /\ mkfs.next \in Inodes /\ mkfs.next \notin L
      /\ OpenDirectory(disk, Current) /\ Current \in L
      /\ \A x \in Listing(disk, Current) : x.name # n
  BY <1>1, ReadsNew
<1>3. Typed(disk) /\ Good(disk, L) /\ m \in Nat
  BY DiskAssumption DEF InOrder
<1> DEFINE type == "file"
<1>4. Installed(o, disk, L, Current, mkfs.next, n, type)
  BY <1>2, <1>3, InstallFile DEF OpenDirectory
<1>5. type \in {"file", "directory"}
  OBVIOUS
<1> HIDE DEF o, type
<1>6. PICK q \in Resolved(disk) : q.inode = Current /\ disk.type[Current] = "directory"
  BY <1>2 DEF OpenDirectory
<1> DEFINE open == mkfs.open
<1>7. open = mkfs.open /\ Copied(o, open)
  BY <1>1
<1> HIDE DEF open
<1>8. QED
  BY <1>1, <1>2, <1>4, <1>5, <1>6, <1>7, HostStep

\* install_directory, as a step; the directory is opened.
LEMMA InstallDirectoryStep ==
  ASSUME NEW L, InOrder(L), NEW n \in Names, install_directory(n)
  PROVE  StepGoal(L)
<1> DEFINE o == IF ~ alloc_block(disk).ok THEN alloc_block(disk)
                ELSE add_directory_entry(write_inode(alloc_block(disk).disk, mkfs.next, "directory",
                                                     [NoBlocks EXCEPT ![1] = alloc_block(disk).val]),
                                         Current, mkfs.next, n)
<1> DEFINE open == Append(mkfs.open, mkfs.next)
<1>1. Reads(n) /\ mkfs.next < NInodes /\ Copied(o, open)
  BY DEF install_directory
<1>2. /\ mkfs.open # <<>> /\ mkfs.next \in Inodes /\ mkfs.next \notin L
      /\ Virgin(disk) /\ OpenDirectory(disk, Current) /\ Current \in L
      /\ \A x \in Listing(disk, Current) : x.name # n
  BY <1>1, ReadsNew
<1>3. Typed(disk) /\ Good(disk, L)
  BY DEF InOrder
<1> DEFINE type == "directory"
<1>4. Installed(o, disk, L, Current, mkfs.next, n, type)
  BY <1>2, <1>3, InstallDirectory DEF OpenDirectory
<1>5. type \in {"file", "directory"} /\ type = "directory" /\ open = Append(mkfs.open, mkfs.next)
  OBVIOUS
<1> HIDE DEF o, type, open
<1>6. PICK q \in Resolved(disk) : q.inode = Current /\ disk.type[Current] = "directory"
  BY <1>2 DEF OpenDirectory
<1>8. QED
  BY <1>1, <1>2, <1>4, <1>5, <1>6, HostStep

\* What mkfs has open when the innermost directory is closed.
LEMMA OneLess ==
  ASSUME NEW s \in Seq(Inodes), s # <<>>, NEW t, t = SubSeq(s, 1, Len(s) - 1)
  PROVE  /\ t \in Seq(Inodes)
         /\ \A k \in 1 .. Len(t) : \E l \in 1 .. Len(s) : t[k] = s[l]
<1>1. Len(s) \in Nat /\ \A i \in 1 .. Len(s) : s[i] \in Inodes
  BY LenProperties
<1> DEFINE m == Len(s) - 1
           u == SubSeq(s, 1, m)
<1>2. m \in Int /\ 1 \in Int /\ m <= Len(s)
  BY <1>1
<1>3. t = u
  OBVIOUS
<1> HIDE DEF m
<1>4. \A i \in 1 .. m : s[i] \in Inodes /\ i \in 1 .. Len(s)
  BY <1>1, <1>2
<1>5. /\ u \in Seq(Inodes) /\ Len(u) = (IF 1 <= m THEN m - 1 + 1 ELSE 0)
      /\ \A i \in 1 .. m - 1 + 1 : u[i] = s[1 + i - 1]
  BY <1>2, <1>4, SubSeqProperties
<1> HIDE DEF u
<1>6. \A i \in 1 .. Len(u) : i \in 1 .. m /\ u[i] = s[i]
  BY <1>2, <1>5
<1>7. QED
  BY <1>3, <1>4, <1>5, <1>6

\* A directory is done with, mkfs ends, or the machine boots.
LEMMA CloseStep ==
  ASSUME NEW L, InOrder(L), NoFreeInode \/ closedir \/ boot
  PROVE  StepGoal(L)
<1>1. /\ Typed(disk) /\ disk.power = "on" /\ clean \in BOOLEAN /\ Good(disk, L)
      /\ mkfs.open \in Seq(Inodes) /\ mkfs.next \in 1 .. InodeCount /\ mkfs.booted \in BOOLEAN
      /\ mkfs \in [next : 1 .. InodeCount, open : Seq(Inodes), booted : BOOLEAN]
      /\ ~ mkfs.booted /\ Host(L)
  BY DEF InOrder, NoFreeInode, closedir, boot
<1>2. disk' = disk /\ clean' = clean
  BY DEF NoFreeInode, closedir, boot
<1>3. CASE boot
  <2>1. mkfs' = [next |-> 1, open |-> <<>>, booted |-> TRUE]
    BY <1>3 DEF boot
  <2>2. mkfs' \in [next : 1 .. InodeCount, open : Seq(Inodes), booted : BOOLEAN]
    BY <2>1, EmptySeq, LayoutAssumption
  <2>3. mkfs'.booted = TRUE /\ mkfs'.open = <<>>
    BY <2>1
  <2>4. InOrder(L)'
    BY <1>1, <1>2, <2>2, <2>3 DEF InOrder
  <2>5. QED
    BY <1>1, <1>2, <2>4 DEF StepGoal
<1>4. CASE NoFreeInode \/ closedir
  <2>1. /\ mkfs'.next = mkfs.next /\ mkfs'.booted = mkfs.booted
        /\ \/ mkfs'.open = <<>>
           \/ mkfs.open # <<>> /\ mkfs'.open = SubSeq(mkfs.open, 1, Len(mkfs.open) - 1)
        /\ mkfs' = [next |-> mkfs'.next, open |-> mkfs'.open, booted |-> mkfs'.booted]
    BY <1>1, <1>4 DEF NoFreeInode, closedir
  <2>2. /\ mkfs'.open \in Seq(Inodes)
        /\ \A k \in 1 .. Len(mkfs'.open) : \E l \in 1 .. Len(mkfs.open) : mkfs'.open[k] = mkfs.open[l]
    <3>1. CASE mkfs'.open = <<>>
      <4>1. <<>> \in Seq(Inodes) /\ Len(<<>>) = 0
        BY EmptySeq
      <4>2. QED
        BY <3>1, <4>1
    <3>2. CASE mkfs.open # <<>> /\ mkfs'.open = SubSeq(mkfs.open, 1, Len(mkfs.open) - 1)
      BY <1>1, <3>2, OneLess
    <3>3. QED
      BY <2>1, <3>1, <3>2
  <2>3. mkfs' \in [next : 1 .. InodeCount, open : Seq(Inodes), booted : BOOLEAN]
    BY <1>1, <2>1, <2>2
  <2>4. Host(L)'
    <3>1. \A k \in 1 .. Len(mkfs'.open) : OpenDirectory(disk', mkfs'.open[k])
      BY <1>1, <1>2, <2>2 DEF Host
    <3>2. QED
      BY <1>1, <1>2, <2>1, <3>1 DEF Host
  <2>5. InOrder(L)'
    BY <1>1, <1>2, <2>1, <2>3, <2>4 DEF InOrder
  <2>6. QED
    BY <1>1, <1>2, <2>5 DEF StepGoal
<1>5. QED
  BY <1>3, <1>4

\* Every step that keeps the disk keeps it in order, and changes it in one place
\* at most.
LEMMA ImageStep ==
  ASSUME Reliable, NEW L, InOrder(L), ImageNext, kept'
  PROVE  StepGoal(L)
<1>1. CASE \E n \in Names : \E m \in 0 .. MaxBlocks + 1 : install_file(n, m)
  BY <1>1, InstallFileStep
<1>2. CASE \E n \in Names : install_directory(n)
  BY <1>2, InstallDirectoryStep
<1>3. CASE NoFreeInode \/ closedir \/ boot
  BY <1>3, CloseStep
<1>4. CASE mkfs.booted /\ Next /\ UNCHANGED mkfs
  <2>1. Typed(disk) /\ clean \in BOOLEAN /\ Good(disk, L)
    BY DEF InOrder
  <2>2. /\ clean' \in BOOLEAN /\ Typed(disk') /\ disk'.power = "on" /\ Changed(disk, disk', L)
        /\ clean' => Balance(disk') = Balance(disk)
    BY <1>4, <2>1, KernelStep
  <2>3. PICK M : Good(disk', M)
    BY <2>2, ChangedGood
  <2>4. InOrder(M)'
    BY <1>4, <2>2, <2>3 DEF InOrder
  <2>5. QED
    BY <2>2, <2>4 DEF StepGoal
<1>5. QED
  BY <1>1, <1>2, <1>3, <1>4 DEF ImageNext, install_beyond

\* A disk that is not kept has not been kept since.
LEMMA NeverKeptAgain ==
  ASSUME [ImageNext]_imageVars, kept'
  PROVE  kept
  BY DEF ImageNext, install_file, install_directory, install_beyond, Copied, NoFreeInode, closedir,
         boot, Next, NotFollowed, vars, imageVars

\* The flags stay flags.
LEMMA FlagsTyped ==
  ASSUME kept \in BOOLEAN, clean \in BOOLEAN, ImageNext
  PROVE  kept' \in BOOLEAN /\ clean' \in BOOLEAN
<1>1. CASE Next
  <2>1. ASSUME NEW outcomes, Ends(outcomes) PROVE clean' \in BOOLEAN
    BY <2>1 DEF Ends
  <2>2. ASSUME NEW dir, NEW n, fs_touch(dir, n) PROVE kept' \in BOOLEAN /\ clean' \in BOOLEAN
    <3>1. Ends(fs_create_file(disk, dir, n)) => clean' \in BOOLEAN
      BY <2>1
    <3>2. AllocatesBeyond(dir, n) => kept' \in BOOLEAN /\ clean' \in BOOLEAN
      BY DEF AllocatesBeyond
    <3>3. kept' = (dir \in Reachable(disk)) => kept' \in BOOLEAN
      OBVIOUS
    <3>4. \/ Ends(fs_create_file(disk, dir, n)) /\ kept' = (dir \in Reachable(disk))
          \/ AllocatesBeyond(dir, n)
      BY <2>2 DEF fs_touch
    <3>5. QED
      BY <3>1, <3>2, <3>3, <3>4, Zenon
  <2>3. ASSUME NEW dir, NEW n, fs_mkdir(dir, n) PROVE kept' \in BOOLEAN /\ clean' \in BOOLEAN
    <3>1. Ends(fs_create_directory(disk, dir, n)) => clean' \in BOOLEAN
      BY <2>1
    <3>2. AllocatesBeyond(dir, n) => kept' \in BOOLEAN /\ clean' \in BOOLEAN
      BY DEF AllocatesBeyond
    <3>3. kept' = (dir \in Reachable(disk)) => kept' \in BOOLEAN
      OBVIOUS
    <3>4. \/ Ends(fs_create_directory(disk, dir, n)) /\ kept' = (dir \in Reachable(disk))
          \/ AllocatesBeyond(dir, n)
      BY <2>3 DEF fs_mkdir
    <3>5. QED
      BY <3>1, <3>2, <3>3, <3>4, Zenon
  <2>4. ASSUME NEW dir, NEW n, fs_rm(dir, n) PROVE kept' \in BOOLEAN /\ clean' \in BOOLEAN
    BY <2>1, <2>4 DEF fs_rm
  <2>5. ASSUME NEW i, NEW first, NEW last, fs_write(i, first, last)
        PROVE  kept' \in BOOLEAN /\ clean' \in BOOLEAN
    BY <2>1, <2>5 DEF fs_write
  <2>6. NotFollowed => kept' \in BOOLEAN /\ clean' \in BOOLEAN
    BY DEF NotFollowed, vars
  <2>7. QED
    BY <1>1, <2>2, <2>3, <2>4, <2>5, <2>6 DEF Next
<1>2. CASE ~ Next
  BY <1>2 DEF ImageNext, install_file, install_directory, install_beyond, Copied, NoFreeInode,
              closedir, boot
<1>3. QED
  BY <1>1, <1>2

\* A disk that is no longer kept: only mkfs and the flags are left to look at.
LEMMA LostStep ==
  ASSUME Reliable, KeptInOrder, ImageNext, ~ kept'
  PROVE  KeptInOrder'
<1> DEFINE Mkfs == [next : 1 .. InodeCount, open : Seq(Inodes), booted : BOOLEAN]
<1>1. /\ kept \in BOOLEAN /\ clean \in BOOLEAN /\ mkfs \in Mkfs
      /\ mkfs.next \in 1 .. InodeCount /\ mkfs.open \in Seq(Inodes) /\ mkfs.booted \in BOOLEAN
      /\ ~ kept => PastTable
      /\ kept => DiskInOrder
  BY DEF KeptInOrder
<1>2. kept => (mkfs.booted => mkfs.open = <<>>)
  BY <1>1 DEF DiskInOrder, InOrder
<1>3. NInodes \in Nat \ {0} /\ InodeCount \in Nat \ {0}
  BY TableHolds
<1>4. CASE install_beyond
  <2>1. mkfs' = [mkfs EXCEPT !.next = @ + 1] /\ mkfs.next \in NInodes .. InodeCount - 1
    BY <1>4 DEF install_beyond
  <2>2. mkfs' \in Mkfs /\ mkfs'.next >= NInodes
    BY <1>1, <1>3, <2>1
  <2>3. QED
    BY <2>2, <1>1, FlagsTyped DEF KeptInOrder, PastTable
<1>5. CASE (\E n \in Names : \E m \in 0 .. MaxBlocks + 1 : install_file(n, m))
             \/ \E n \in Names : install_directory(n)
  <2>1. ASSUME NEW o, NEW open, Copied(o, open) PROVE kept' = kept
    BY <2>1 DEF Copied
  <2>2. ASSUME NEW n, NEW m, install_file(n, m) PROVE kept' = kept /\ Reads(n) /\ mkfs.next < NInodes
    BY <2>1, <2>2 DEF install_file
  <2>3. ASSUME NEW n, install_directory(n) PROVE kept' = kept /\ Reads(n) /\ mkfs.next < NInodes
    BY <2>1, <2>3 DEF install_directory
  <2>4. ~ kept /\ mkfs.open # <<>> /\ mkfs.next < NInodes
    BY <1>5, <2>2, <2>3 DEF Reads
  <2>5. QED
    BY <1>1, <1>3, <2>4 DEF PastTable
<1>6. CASE boot
  <2>1. mkfs' \in Mkfs /\ mkfs'.open = <<>>
    BY <1>3, <1>6, EmptySeq DEF boot
  <2>2. QED
    BY <2>1, <1>1, FlagsTyped DEF KeptInOrder, PastTable
<1>7. CASE NoFreeInode
  <2>1. mkfs' = [mkfs EXCEPT !.open = <<>>]
    BY <1>7 DEF NoFreeInode
  <2>2. mkfs' \in Mkfs /\ mkfs'.open = <<>>
    BY <1>1, <2>1, EmptySeq
  <2>3. QED
    BY <2>2, <1>1, FlagsTyped DEF KeptInOrder, PastTable
<1>8. CASE closedir
  <2>1. /\ mkfs.open # <<>> /\ kept' = kept
        /\ mkfs' = [mkfs EXCEPT !.open = SubSeq(mkfs.open, 1, Len(mkfs.open) - 1)]
    BY <1>8 DEF closedir
  <2>2. SubSeq(mkfs.open, 1, Len(mkfs.open) - 1) \in Seq(Inodes)
    BY <1>1, <2>1, OneLess
  <2>3. mkfs' \in Mkfs /\ mkfs'.next = mkfs.next
    BY <1>1, <2>1, <2>2
  <2>4. QED
    BY <2>1, <2>3, <1>1, FlagsTyped DEF KeptInOrder, PastTable
<1>9. CASE mkfs.booted /\ Next /\ UNCHANGED mkfs
  <2>1. PastTable
    BY <1>1, <1>2, <1>9 DEF PastTable
  <2>2. QED
    BY <2>1, <1>1, <1>9, FlagsTyped DEF KeptInOrder, PastTable
<1>10. QED
  BY <1>4, <1>5, <1>6, <1>7, <1>8, <1>9 DEF ImageNext

\* The invariant is inductive.
LEMMA StaysInOrder ==
  ASSUME Reliable, KeptInOrder, [ImageNext]_imageVars
  PROVE  KeptInOrder'
<1>1. CASE ImageNext /\ kept'
  <2>1. kept /\ DiskInOrder
    BY <1>1, NeverKeptAgain DEF KeptInOrder
  <2>2. PICK L : InOrder(L)
    BY <2>1 DEF DiskInOrder
  <2>3. DiskInOrder'
    BY <1>1, <2>2, ImageStep DEF StepGoal, DiskInOrder
  <2>4. kept' \in BOOLEAN
    BY <1>1, FlagsTyped
  <2>5. QED
    BY <1>1, <2>3, <2>4 DEF KeptInOrder, DiskInOrder, InOrder
<1>2. CASE ImageNext /\ ~ kept'
  BY <1>2, LostStep
<1>3. CASE UNCHANGED imageVars
  <2>1. disk' = disk /\ clean' = clean /\ kept' = kept /\ mkfs' = mkfs
    BY <1>3 DEF imageVars
  <2>2. ASSUME NEW L, InOrder(L) PROVE InOrder(L)'
    BY <2>1, <2>2 DEF InOrder, Host
  <2>3. DiskInOrder => DiskInOrder'
    BY <2>2 DEF DiskInOrder
  <2>4. QED
    BY <2>1, <2>3 DEF KeptInOrder, PastTable
<1>4. QED
  BY <1>1, <1>2, <1>3

\* For as long as the disk is kept it is in order, on the host and under the
\* kernel.
THEOREM ImageInOrder == Reliable => (ImageSpec => []KeptInOrder)
<1> SUFFICES ASSUME Reliable PROVE ImageSpec => []KeptInOrder
  OBVIOUS
<1>1. ImageInit => KeptInOrder
  <2> SUFFICES ASSUME ImageInit PROVE KeptInOrder
    OBVIOUS
  <2>1. InOrder({RootInode}) /\ kept = TRUE
    BY FormattedInOrder DEF ImageInit
  <2>2. QED
    BY <2>1 DEF KeptInOrder, DiskInOrder, InOrder
<1>2. KeptInOrder /\ [ImageNext]_imageVars => KeptInOrder'
  BY StaysInOrder
<1>3. QED
  BY <1>1, <1>2, PTL DEF ImageSpec

-----------------------------------------------------------------------------
(* What follows *)

\* The disk has its type on the host and under the kernel, and mkfs never
\* names an inode the table does not have.
THEOREM ImageTyped == Reliable => (ImageSpec => []ImageTypeOK)
<1> SUFFICES ASSUME Reliable PROVE ImageSpec => []ImageTypeOK
  OBVIOUS
<1>1. KeptInOrder => ImageTypeOK
  <2>1. ASSUME NEW L, InOrder(L) PROVE disk \in [used : SUBSET Blocks, free_blocks : Int, free_inodes : Int,
                  type : [Inodes -> {"free", "file", "directory", "other"}],
                  blocks : [Inodes -> [1 .. MaxBlocks -> 0 .. NBlocks]],
                  entries : [Blocks -> [Slots -> Entry \cup {NoEntry}]],
                  errors : {Errors}, power : {"on"}]
    BY <2>1 DEF InOrder, Typed, Types, Indices, Reliable
  <2>2. QED
    BY <2>1 DEF KeptInOrder, DiskInOrder, ImageTypeOK, TypeOK
<1>2. QED
  BY <1>1, ImageInOrder, PTL

\* Whatever was created, removed, written or cut off by a loss of power, no
\* block is listed by two inodes that paths lead to, and none of theirs can be
\* handed out again.
THEOREM BlocksStayExclusive == Reliable => (ImageSpec => []BlocksExclusive)
<1> SUFFICES ASSUME Reliable PROVE ImageSpec => []BlocksExclusive
  OBVIOUS
<1>1. KeptInOrder => BlocksExclusive
  <2> SUFFICES ASSUME NEW L, InOrder(L), kept PROVE BlocksExclusive
    BY DEF KeptInOrder, DiskInOrder, BlocksExclusive
  <2> DEFINE owned(i) == {disk.blocks[i][k] : k \in 1 .. MaxBlocks} \ {0}
  <2>1. Typed(disk) /\ Good(disk, L)
    BY DEF InOrder
  <2>2. \A i \in Reachable(disk) : i \in L /\ i \in Inodes
    BY <2>1, ResolvedMembers DEF Reachable, Good, InUse
  <2>3. ASSUME NEW i \in Reachable(disk), NEW b \in owned(i) PROVE b \in disk.used
    <3>1. PICK k \in Indices : disk.blocks[i][k] = b /\ b # 0
      BY DEF Indices
    <3>2. b \in Blocks
      BY <2>1, <2>2, <3>1, DiskAssumption DEF Typed, Blocks
    <3>3. b \in Owned(disk, L)
      BY <2>2, <3>1, <3>2 DEF Owned
    <3>4. QED
      BY <2>1, <3>3 DEF Good, Listed
  <2>4. ASSUME NEW i \in Reachable(disk), NEW j \in Reachable(disk), NEW b \in owned(i), b \in owned(j)
        PROVE  i = j
    <3>1. PICK k \in Indices : disk.blocks[i][k] = b /\ b # 0
      BY DEF Indices
    <3>2. PICK l \in Indices : disk.blocks[j][l] = b
      BY <2>4 DEF Indices
    <3>3. QED
      BY <2>1, <2>2, <3>1, <3>2 DEF Good, Listed
  <2>5. \A i \in Reachable(disk) : owned(i) \subseteq disk.used
    BY <2>3
  <2>6. \A i, j \in Reachable(disk) : i # j => owned(i) \cap owned(j) = {}
    BY <2>4
  <2> HIDE DEF owned
  <2>7. \A i \in Reachable(disk) :
          /\ owned(i) \subseteq disk.used
          /\ \A j \in Reachable(disk) : i # j => owned(i) \cap owned(j) = {}
    BY <2>5, <2>6
  <2>8. QED
    BY <2>7 DEF BlocksExclusive, owned
<1>2. QED
  BY <1>1, ImageInOrder, PTL

\* No inode is ever named twice: removing one name cannot destroy what another
\* stands for.
THEOREM NamedOnce == Reliable => (ImageSpec => []OneNamePerInode)
<1> SUFFICES ASSUME Reliable PROVE ImageSpec => []OneNamePerInode
  OBVIOUS
<1>1. KeptInOrder => OneNamePerInode
  <2> SUFFICES ASSUME NEW L, InOrder(L), kept PROVE OneNamePerInode
    BY DEF KeptInOrder, DiskInOrder, OneNamePerInode
  <2>1. Typed(disk) /\ Good(disk, L)
    BY DEF InOrder
  <2>2. QED
    BY <2>1, OnePath DEF OneNamePerInode
<1>2. QED
  BY <1>1, ImageInOrder, PTL

\* From boot on, the superblock's count of free inodes keeps its distance from
\* the number of inodes that are free, as long as no transfer fails.
THEOREM CountKeepsItsDistance == Reliable => (ImageSpec => InodesCounted)
<1> SUFFICES ASSUME Reliable PROVE ImageSpec => InodesCounted
  OBVIOUS
<1>0. Surplus = Balance(disk) /\ Surplus' = Balance(disk')
  BY DEF Surplus, Balance, Free
<1>1. KeptInOrder /\ [ImageNext]_imageVars
        => [mkfs.booted /\ clean' /\ kept' => Surplus' = Surplus]_imageVars
  <2> SUFFICES ASSUME KeptInOrder, ImageNext, mkfs.booted, clean', kept' PROVE Surplus' = Surplus
    OBVIOUS
  <2>1. PICK L : InOrder(L)
    BY NeverKeptAgain DEF KeptInOrder, DiskInOrder
  <2>2. Balance(disk') = Balance(disk)
    BY <2>1, ImageStep DEF StepGoal
  <2>3. QED
    BY <1>0, <2>2
<1>2. QED
  BY <1>1, ImageInOrder, PTL DEF ImageSpec, InodesCounted

-----------------------------------------------------------------------------
(* One place of the tree *)

TreeOf(d) == {[path |-> p.path, kind |-> d.type[p.inode]] : p \in Resolved(d)}

\* FileSystem's tree, before and after a step.
LEMMA TreeIs == tree = TreeOf(disk) /\ tree' = TreeOf(disk')
  BY DEF tree, TreeOf

\* What nobody sees is no step of the tree.
LEMMA UnchangedStutters ==
  ASSUME NEW d, Typed(d), NEW e, Typed(e), NEW L, Good(d, L), Unchanged(d, e, L)
  PROVE  TreeOf(e) = TreeOf(d)
<1>1. Resolved(e) = Resolved(d)
  BY TreeUnchanged
<1>2. \A p \in Resolved(d) : e.type[p.inode] = d.type[p.inode]
  BY ResolvedMembers DEF Unchanged
<1>3. QED
  BY <1>1, <1>2 DEF TreeOf

\* A new member is a creation.
LEMMA JoinsCreates ==
  ASSUME Typed(disk), Typed(disk'), NEW L, Good(disk, L), Joins(disk, disk', L)
  PROVE  FT!Next
<1>1. PICK q \in Resolved(disk), i \in Inodes \ L, n \in Names :
        /\ disk.type[q.inode] = "directory" /\ disk'.type[i] \in {"file", "directory"}
        /\ Joined(disk, disk', L, q.inode, i, n)
  BY DEF Joins
<1> DEFINE kind == disk'.type[i]
           N == Below(q, Naming(i, n))
           new == [path |-> Append(q.path, n), kind |-> kind]
<1>2. /\ Resolved(disk') = Resolved(disk) \cup {N}
      /\ \A p \in Resolved(disk) : p.path # Append(q.path, n)
  <2>1. PICK e : e = disk'
    OBVIOUS
  <2>2. Typed(e) /\ Joined(disk, e, L, q.inode, i, n)
    BY <1>1, <2>1
  <2>3. /\ Resolved(e) = Resolved(disk) \cup {N}
        /\ \A p \in Resolved(disk) : p.path # Append(q.path, n)
    BY <2>2, TreeJoined
  <2>4. QED
    BY <2>1, <2>3
<1>3. N.path = Append(q.path, n) /\ N.inode = i
  BY DEF Below, Naming
<1>4. \A p \in Resolved(disk) : disk'.type[p.inode] = disk.type[p.inode]
  BY <1>1, ResolvedMembers DEF Joined
<1> HIDE DEF N
<1>5. TreeOf(disk') = TreeOf(disk) \cup {new}
  BY <1>2, <1>3, <1>4 DEF TreeOf
<1>6. q.path \in FT!Directories
  <2> DEFINE node == [path |-> q.path, kind |-> disk.type[q.inode]]
  <2>1. node \in tree
    BY TreeIs DEF TreeOf
  <2>2. node.kind = "directory" /\ node.path = q.path
    BY <1>1
  <2> HIDE DEF node
  <2>3. QED
    BY <2>1, <2>2 DEF FT!Directories
<1>7. Append(q.path, n) \notin FT!Paths
  BY <1>2, TreeIs DEF FT!Paths, TreeOf
<1>8. FT!Create(q.path, n, kind)
  BY <1>5, <1>6, <1>7, TreeIs DEF FT!Create
<1>9. kind \in {"file", "directory"}
  BY <1>1
<1> HIDE DEF kind
<1>10. QED
  BY <1>6, <1>8, <1>9 DEF FT!Next

\* A member that goes, goes with everything below it.
LEMMA RemovesDeletes ==
  ASSUME Typed(disk), Typed(disk'), NEW L, Good(disk, L), Removes(disk, disk', L)
  PROVE  FT!Next
<1>1. PICK q \in Resolved(disk) : \E i, n : Removed(disk, disk', L, q.inode, i, n)
  BY DEF Removes
<1>2. PICK i, n : Removed(disk, disk', L, q.inode, i, n)
  BY <1>1
<1> DEFINE N == Below(q, Naming(i, n))
<1>3. /\ N \in Resolved(disk)
      /\ \A p : p \in Resolved(disk') <=> p \in Resolved(disk) /\ ~ FT!IsPrefix(N.path, p.path)
  <2>1. PICK e : e = disk'
    OBVIOUS
  <2>2. Typed(e) /\ Removed(disk, e, L, q.inode, i, n)
    BY <1>2, <2>1
  <2>3. /\ N \in Resolved(disk)
        /\ \A p : p \in Resolved(e) <=> p \in Resolved(disk) /\ ~ FT!IsPrefix(N.path, p.path)
    BY <2>2, TreeRemoved
  <2>4. QED
    BY <2>1, <2>3
<1>4. N.path # <<>>
  <2>1. q \in Nodes(L) /\ N \in Nodes(L) /\ N.path = Append(q.path, n)
    BY <1>3, ResolvedMembers DEF Below, Naming
  <2>2. Naming(i, n) \in Listing(disk, q.inode)
    BY <1>2 DEF Removed, Naming
  <2>3. n \in Names
    BY <2>2 DEF Listing, Entry, Naming
  <2>4. QED
    BY <2>1, <2>3, AppendProperties DEF Nodes
<1> HIDE DEF N
<1>5. \A p \in Resolved(disk') : disk'.type[p.inode] = disk.type[p.inode]
  <2>1. Good(disk', L \ {i}) /\ \A j \in L \ {i} : disk'.type[j] = disk.type[j]
    BY <1>2 DEF Removed
  <2>2. \A p \in Resolved(disk') : p.inode \in L \ {i}
    <3>1. PICK e : e = disk'
      OBVIOUS
    <3>2. Typed(e) /\ Good(e, L \ {i})
      BY <2>1, <3>1
    <3>3. \A p \in Resolved(e) : p.inode \in L \ {i}
      BY <3>2, ResolvedMembers
    <3>4. QED
      BY <3>1, <3>3
  <2>3. QED
    BY <2>1, <2>2
<1>6. TreeOf(disk') = {m \in TreeOf(disk) : ~ FT!IsPrefix(N.path, m.path)}
  BY <1>3, <1>5 DEF TreeOf
<1>7. FT!Delete(N.path)
  BY <1>4, <1>6, TreeIs DEF FT!Delete
<1>8. N.path \in FT!Paths
  <2> DEFINE node == [path |-> N.path, kind |-> disk.type[N.inode]]
  <2>1. node \in tree
    BY <1>3, TreeIs DEF TreeOf
  <2>2. node.path = N.path
    OBVIOUS
  <2> HIDE DEF node
  <2>3. QED
    BY <2>1, <2>2 DEF FT!Paths
<1>9. QED
  BY <1>7, <1>8 DEF FT!Next

\* Every step of mkfs or of the kernel, with the power failing between any two
\* of its transfers, is one step of a tree of files and directories, or none.
THEOREM OnePlaceAtMost == Reliable => (ImageSpec => Atomic)
<1> SUFFICES ASSUME Reliable PROVE ImageSpec => Atomic
  OBVIOUS
<1>1. ImageInit => FT!Init
  <2> SUFFICES ASSUME ImageInit PROVE FT!Init
    OBVIOUS
  <2>1. Resolved(disk) = {Start} /\ disk.type[RootInode] = "directory"
    BY FormattedInOrder
  <2>2. TreeOf(disk) = {FT!Root}
    BY <2>1 DEF TreeOf, Start, FT!Root
  <2>3. QED
    BY <2>2, TreeIs DEF FT!Init
<1>2. KeptInOrder /\ [ImageNext]_imageVars => [kept' => FT!Next]_tree
  <2> SUFFICES ASSUME KeptInOrder, [ImageNext]_imageVars, kept' PROVE FT!Next \/ tree' = tree
    OBVIOUS
  <2>1. CASE ImageNext
    <3>1. PICK L : InOrder(L)
      BY NeverKeptAgain DEF KeptInOrder, DiskInOrder
    <3>2. StepGoal(L)
      BY <2>1, <3>1, ImageStep
    <3>3. Typed(disk) /\ Typed(disk') /\ Good(disk, L)
      BY <3>1, <3>2 DEF InOrder, StepGoal
    <3>4. CASE disk' = disk
      BY <3>4, TreeIs
    <3>5. CASE Unchanged(disk, disk', L)
      <4>1. PICK e : e = disk'
        OBVIOUS
      <4>2. Typed(e) /\ Unchanged(disk, e, L)
        BY <3>3, <3>5, <4>1
      <4>3. TreeOf(e) = TreeOf(disk)
        BY <3>3, <4>2, UnchangedStutters
      <4>4. QED
        BY <4>1, <4>3, TreeIs
    <3>6. CASE Joins(disk, disk', L)
      BY <3>3, <3>6, JoinsCreates
    <3>7. CASE Removes(disk, disk', L)
      BY <3>3, <3>7, RemovesDeletes
    <3>8. QED
      BY <3>2, <3>4, <3>5, <3>6, <3>7 DEF StepGoal, Changed
  <2>2. CASE UNCHANGED imageVars
    <3>1. disk' = disk
      BY <2>2 DEF imageVars
    <3>2. QED
      BY <3>1, TreeIs
  <2>3. QED
    BY <2>1, <2>2
<1>3. QED
  BY <1>1, <1>2, ImageInOrder, PTL DEF ImageSpec, Atomic

-----------------------------------------------------------------------------
(* Where the inodes lie *)

\* What the quotient of a division is.
LEMMA Quotient ==
  ASSUME NEW a \in Nat, NEW b \in Nat \ {0}
  PROVE  /\ a \div b \in Nat
         /\ b * (a \div b) <= a
         /\ a < b * (a \div b) + b
  OBVIOUS

\* Blocks hold at least one inode each.
LEMMA PerBlockPositive == inodes_per_block \in Nat \ {0}
  <1> DEFINE q == BlockSize \div InodeSize
  <1>1. /\ q \in Nat /\ BlockSize < InodeSize * q + InodeSize
    BY Quotient, LayoutAssumption
  <1>2. q # 0
    <2>1. SUFFICES ASSUME q = 0 PROVE FALSE
      OBVIOUS
    <2>2. InodeSize * q + InodeSize = InodeSize
      BY <2>1, LayoutAssumption
    <2> QED BY <1>1, <2>2, LayoutAssumption
  <1> QED BY <1>1, <1>2 DEF inodes_per_block

\* The table is a number of blocks.
LEMMA BlocksNatural == inode_blocks \in Nat
  <1>1. InodeCount * InodeSize + BlockSize - 1 \in Nat /\ BlockSize \in Nat \ {0}
    <2>1. InodeCount * InodeSize \in Nat
      BY LayoutAssumption
    <2> QED BY <2>1, LayoutAssumption
  <1> QED BY <1>1, Quotient DEF inode_blocks

\* An inode's block comes before the data exactly when the table has room for
\* it: the inodes from Capacity on would lie in the root directory's block and
\* behind it.
THEOREM TableApart ==
  \A i \in Nat : inode_block(i) < data_start <=> i < Capacity
  <1> SUFFICES ASSUME NEW i \in Nat
               PROVE  inode_block(i) < data_start <=> i < Capacity
    OBVIOUS
  <1> DEFINE p == inodes_per_block
             n == inode_blocks
             q == i \div p
  <1>1. p \in Nat \ {0} /\ n \in Nat
    BY PerBlockPositive, BlocksNatural
  <1>2. q \in Nat /\ p * q <= i /\ i < p * q + p
    BY <1>1, Quotient
  <1> HIDE DEF p, n, q
  <1>3. ASSUME q < n PROVE i < p * n
    <2>1. p * (q + 1) <= p * n
      BY <1>1, <1>2, <1>3
    <2>2. p * (q + 1) = p * q + p
      BY <1>1, <1>2
    <2> QED BY <1>1, <1>2, <2>1, <2>2
  <1>4. ASSUME n <= q PROVE p * n <= i
    <2>1. p * n <= p * q
      BY <1>1, <1>2, <1>4
    <2> QED BY <1>1, <1>2, <2>1
  <1>5. q < n <=> i < p * n
    <2>1. p * n \in Nat
      BY <1>1
    <2> QED BY <1>1, <1>2, <1>3, <1>4, <2>1
  <1>6. inode_block(i) < data_start <=> q < n
    BY <1>1, <1>2, LayoutAssumption DEF inode_block, data_start, q, p, n
  <1> QED BY <1>5, <1>6 DEF Capacity, p, n

\* With the numbers of fs_layout.h the table has room for 110 of the 128 inodes,
\* and inode 110 is read and written in the root directory's block.
THEOREM RootBlockHoldsInodes ==
  ASSUME BlockSize = 512, InodeSize = 88, InodeCount = 128
  PROVE  /\ Capacity = 110
         /\ inode_block(110) = data_start
  <1>1. inodes_per_block = 5
    BY DEF inodes_per_block
  <1>2. inode_blocks = 22
    BY DEF inode_blocks
  <1>3. Capacity = 110
    BY <1>1, <1>2 DEF Capacity
  <1>4. 110 \div 5 = 22
    OBVIOUS
  <1> QED BY <1>1, <1>2, <1>3, <1>4 DEF inode_block, data_start

-----------------------------------------------------------------------------
(* Walks along a path *)

Chars      == Names \cup {Slash}
AtRoot     == [inode |-> RootInode, name |-> <<>>]
WalkSteps(d, path, n, g) ==
  g = [k \in 0 .. n |-> IF k = 0 THEN AtRoot ELSE Walked(d, g[k - 1], path[k])]

LEMMA WalkExists ==
  ASSUME NEW d, NEW path, NEW n \in Nat
  PROVE  \E g : WalkSteps(d, path, n, g)
<1> DEFINE Steps(k, g) == g = [i \in 0 .. k |-> IF i = 0 THEN AtRoot
                                               ELSE Walked(d, g[i - 1], path[i])]
           T == {k \in Nat : \E g : Steps(k, g)}
<1>1. 0 \in T
  <2>1. Steps(0, [i \in 0 .. 0 |-> AtRoot])
    OBVIOUS
  <2>2. QED
    BY <2>1
<1>2. ASSUME NEW k \in 0 .. n - 1, k \in T PROVE k + 1 \in T
  <2>1. PICK g : Steps(k, g)
    BY <1>2
  <2> DEFINE h == [i \in 0 .. k + 1 |-> IF i = k + 1 THEN Walked(d, g[k], path[k + 1]) ELSE g[i]]
  <2>2. ASSUME NEW i \in 0 .. k + 1
        PROVE  h[i] = IF i = 0 THEN AtRoot ELSE Walked(d, h[i - 1], path[i])
    <3>1. CASE i = k + 1
      <4>1. i - 1 = k /\ i # 0 /\ k \in 0 .. k + 1 /\ k # k + 1
        BY <3>1
      <4>2. h[i - 1] = g[k] /\ h[i] = Walked(d, g[k], path[k + 1])
        BY <3>1, <4>1
      <4>3. QED
        BY <3>1, <4>1, <4>2
    <3>2. CASE i # k + 1
      <4>1. i \in 0 .. k /\ h[i] = g[i]
        BY <3>2
      <4>2. i # 0 => i - 1 \in 0 .. k + 1 /\ i - 1 # k + 1 /\ h[i - 1] = g[i - 1]
        BY <3>2
      <4> HIDE DEF h
      <4>3. g[i] = IF i = 0 THEN AtRoot ELSE Walked(d, g[i - 1], path[i])
        BY <2>1, <4>1
      <4>4. QED
        BY <4>1, <4>2, <4>3
    <3>3. QED
      BY <3>1, <3>2
  <2>3. Steps(k + 1, h)
    <3>1. h = [i \in 0 .. k + 1 |-> h[i]]
      OBVIOUS
    <3> HIDE DEF h
    <3>2. QED
      BY <2>2, <3>1
  <2> HIDE DEF h, Steps
  <2>4. QED
    BY <2>3
<1> HIDE DEF T
<1>3. n \in T
  BY <1>1, <1>2, UpTo
<1>4. QED
  BY <1>3 DEF T, WalkSteps

\* The walk starts at the root and goes on one character at a time.
WalkOn(d, path, w) ==
  /\ w[0] = AtRoot
  /\ \A k \in 1 .. Len(path) : w[k] = Walked(d, w[k - 1], path[k])

LEMMA WalkIs ==
  ASSUME NEW d, NEW path, Len(path) \in Nat
  PROVE  WalkOn(d, path, Walk(d, path))
<1> DEFINE w == CHOOSE g : WalkSteps(d, path, Len(path), g)
<1>1. WalkSteps(d, path, Len(path), w)
  BY WalkExists
<1>2. Walk(d, path) = w
  BY DEF Walk, WalkSteps, AtRoot
<1> HIDE DEF w
<1>3. ASSUME NEW k \in 0 .. Len(path)
      PROVE  w[k] = IF k = 0 THEN AtRoot ELSE Walked(d, w[k - 1], path[k])
  BY <1>1 DEF WalkSteps
<1>4. w[0] = AtRoot
  BY <1>3
<1>5. ASSUME NEW k \in 1 .. Len(path) PROVE w[k] = Walked(d, w[k - 1], path[k])
  BY <1>3
<1>6. QED
  BY <1>2, <1>4, <1>5 DEF WalkOn

\* A path that starts like another is walked like it.
LEMMA WalkPrefix ==
  ASSUME NEW d, NEW path \in Seq(Chars), NEW n \in 0 .. Len(path)
  PROVE  \A k \in 0 .. n : Walk(d, SubSeq(path, 1, n))[k] = Walk(d, path)[k]
<1> DEFINE part == SubSeq(path, 1, n)
           v == Walk(d, part)
           w == Walk(d, path)
           T == {k \in 0 .. n : v[k] = w[k]}
<1>0. Len(path) \in Nat /\ n \in Nat
  OBVIOUS
<1>1. Len(part) = n /\ \A k \in 1 .. n : part[k] = path[k]
  BY <1>0
<1>2. WalkOn(d, part, v) /\ WalkOn(d, path, w)
  BY <1>0, <1>1, WalkIs
<1> HIDE DEF v, w, part
<1>3. 0 \in T
  BY <1>0, <1>2 DEF WalkOn
<1>4. ASSUME NEW k \in 0 .. n - 1, k \in T PROVE k + 1 \in T
  <2>1. k + 1 \in 1 .. n /\ k + 1 \in 1 .. Len(path) /\ (k + 1) - 1 = k
    BY <1>0
  <2>2. v[k + 1] = Walked(d, v[k], part[k + 1]) /\ w[k + 1] = Walked(d, w[k], path[k + 1])
    BY <1>1, <1>2, <2>1 DEF WalkOn
  <2>3. QED
    BY <1>1, <1>4, <2>1, <2>2
<1> HIDE DEF T
<1>5. \A k \in 0 .. n : k \in T
  BY <1>0, <1>3, <1>4, UpTo
<1>6. QED
  BY <1>5 DEF T, v, w, part

\* The inode of a name is one other than the root, if there is one.
LEMMA ChildIs ==
  ASSUME NEW d, Typed(d), NEW i \in Inodes, NEW name
  PROVE  Child(d, i, name) \in (Inodes \ {RootInode}) \cup {NotFound}
<1> DEFINE read  == IF d.type[i] = "file" /\ Assigned(d.blocks[i]) # {} THEN Bytes[i]
                    ELSE Entries(d, i)
           found == {e \in read : <<e.name>> = name /\ e.inode # 0}
<1>1. Entries(d, i) \subseteq Entry
  <2>1. ASSUME NEW p \in Places(d, i), d.entries[p[1]][p[2]] # NoEntry
        PROVE  d.entries[p[1]][p[2]] \in Entry
    <3>1. p[1] \in Blocks /\ p[2] \in Slots
      BY DiskAssumption DEF Places, Assigned, Typed, Indices, Blocks
    <3>2. QED
      BY <2>1, <3>1 DEF Typed
  <2>2. QED
    BY <2>1 DEF Entries
<1>2. Bytes[i] \subseteq Entry
  BY PathAssumption
<1>3. \A e \in found : e \in Entry /\ e.inode # 0
  BY <1>1, <1>2
<1>4. Child(d, i, name) = IF found = {} THEN NotFound ELSE (CHOOSE e \in found : TRUE).inode
  BY DEF Child
<1> HIDE DEF found
<1>5. \A e \in Entry : e.inode \in Inodes
  BY DEF Entry
<1>6. QED
  BY <1>3, <1>4, <1>5 DEF RootInode

Walks == [inode : Inodes \cup {NotFound}, name : Seq(Chars)]

LEMMA EnteredTyped ==
  ASSUME NEW d, Typed(d), NEW at \in Walks
  PROVE  Entered(d, at) \in Walks /\ Entered(d, at).name = <<>>
<1>1. CASE at.name = <<>>
  BY <1>1 DEF Entered
<1>2. CASE at.name # <<>>
  <2> DEFINE i == IF at.inode = NotFound \/ Len(at.name) > LongestName THEN NotFound
                  ELSE Child(d, at.inode, at.name)
  <2>1. i \in Inodes \cup {NotFound}
    BY ChildIs DEF Walks
  <2>2. Entered(d, at) = [name |-> <<>>, inode |-> i]
    BY <1>2 DEF Entered
  <2> HIDE DEF i
  <2>3. <<>> \in Seq(Chars)
    OBVIOUS
  <2>4. QED
    BY <2>1, <2>2, <2>3 DEF Walks
<1>3. QED
  BY <1>1, <1>2

LEMMA WalkTyped ==
  ASSUME NEW d, Typed(d), NEW path \in Seq(Chars)
  PROVE  \A k \in 0 .. Len(path) : Walk(d, path)[k] \in Walks
<1> DEFINE w == Walk(d, path)
           T == {k \in 0 .. Len(path) : w[k] \in Walks}
<1>0. Len(path) \in Nat
  OBVIOUS
<1>1. WalkOn(d, path, w)
  BY <1>0, WalkIs
<1> HIDE DEF w
<1>2. 0 \in T
  <2>1. AtRoot \in Walks
    BY DiskAssumption DEF AtRoot, Walks, RootInode, Inodes
  <2>2. QED
    BY <1>0, <1>1, <2>1 DEF WalkOn
<1>3. ASSUME NEW k \in 0 .. Len(path) - 1, k \in T PROVE k + 1 \in T
  <2>1. k + 1 \in 1 .. Len(path) /\ k + 1 \in 0 .. Len(path) /\ (k + 1) - 1 = k
    BY <1>0
  <2>2. w[k + 1] = Walked(d, w[k], path[k + 1]) /\ w[k] \in Walks /\ path[k + 1] \in Chars
    BY <1>1, <1>3, <2>1 DEF WalkOn
  <2> DEFINE at == w[k]
  <2> HIDE DEF at
  <2>3. at \in Walks
    BY <2>2 DEF at
  <2>4. Walked(d, at, path[k + 1]) \in Walks
    <3>1. CASE path[k + 1] = Slash
      BY <2>3, <3>1, EnteredTyped DEF Walked
    <3>2. CASE path[k + 1] # Slash
      <4>1. Append(at.name, path[k + 1]) \in Seq(Chars)
        BY <2>2, <2>3 DEF Walks
      <4>2. QED
        BY <2>3, <3>2, <4>1 DEF Walked, Walks
    <3>3. QED
      BY <3>1, <3>2
  <2>5. QED
    BY <2>1, <2>2, <2>4 DEF at
<1> HIDE DEF T
<1>4. \A k \in 0 .. Len(path) : k \in T
  BY <1>0, <1>2, <1>3, UpTo
<1>5. QED
  BY <1>4 DEF T, w

\* The last slash.
LEMMA LastSlash ==
  ASSUME NEW path \in Seq(Chars), Slashes(path) # {}
  PROVE  /\ Max(Slashes(path)) \in Slashes(path)
         /\ \A i \in DOMAIN path : i > Max(Slashes(path)) => path[i] # Slash
<1> DEFINE S == Slashes(path)
           T == {Len(path) - i : i \in S}
<1>1. Len(path) \in Nat /\ S \subseteq 1 .. Len(path) /\ S # {}
  BY DEF Slashes
<1>2. T \subseteq Nat /\ T # {}
  BY <1>1
<1>3. PICK m \in T : \A k \in T : m <= k
  BY <1>2, LeastNumber
<1>4. PICK s \in S : m = Len(path) - s
  BY <1>3
<1>5. \A i \in S : s >= i
  <2>1. TAKE i \in S
  <2>2. Len(path) - i \in T
    OBVIOUS
  <2> HIDE DEF T
  <2>3. m <= Len(path) - i
    BY <1>3, <2>2
  <2>4. QED
    BY <1>1, <1>4, <2>3
<1>6. Max(S) \in S /\ \A i \in S : Max(S) >= i
  BY <1>5 DEF Max
<1> HIDE DEF T
<1>7. Max(S) \in Int
  BY <1>1, <1>6
<1>8. ASSUME NEW i \in DOMAIN path, i > Max(S) PROVE path[i] # Slash
  <2>1. i \in Int
    OBVIOUS
  <2>2. i \notin S
    BY <1>6, <1>7, <1>8, <2>1
  <2>3. QED
    BY <2>2 DEF Slashes
<1>9. QED
  BY <1>6, <1>8

\* From the last slash on, the walk stays where it is and reads the last component.
Reading(at, i, name) == at.inode = i /\ at.name = name

LEMMA AfterSlash ==
  ASSUME NEW d, Typed(d), NEW path \in Seq(Chars), NEW s \in DOMAIN path,
         path[s] = Slash, \A i \in DOMAIN path : i > s => path[i] # Slash
  PROVE  \A k \in s .. Len(path) :
           Reading(Walk(d, path)[k], Walk(d, path)[s].inode, SubSeq(path, s + 1, k))
<1> DEFINE w == Walk(d, path)
           T == {j \in Nat : Reading(w[s + j], w[s].inode, SubSeq(path, s + 1, s + j))}
<1>0. Len(path) \in Nat /\ s \in 1 .. Len(path)
  OBVIOUS
<1>1. WalkOn(d, path, w)
  BY <1>0, WalkIs
<1>2. \A k \in 0 .. Len(path) : w[k] \in Walks
  BY WalkTyped
<1> HIDE DEF w
<1>3. 0 \in T
  <2>1. s - 1 \in 0 .. Len(path) /\ s + 0 = s
    BY <1>0
  <2>2. w[s] = Entered(d, w[s - 1])
    BY <1>0, <1>1 DEF WalkOn, Walked
  <2>3. w[s].name = <<>>
    BY <1>2, <2>1, <2>2, EnteredTyped
  <2>4. SubSeq(path, s + 1, s + 0) = <<>>
    BY <1>0
  <2>5. QED
    BY <2>1, <2>3, <2>4 DEF Reading
<1>4. ASSUME NEW j \in 0 .. (Len(path) - s) - 1, j \in T PROVE j + 1 \in T
  <2> DEFINE k == s + j
  <2>1. /\ k \in 0 .. Len(path) /\ k >= s /\ k + 1 > s /\ k + 1 \in 1 .. Len(path)
        /\ s + (j + 1) = k + 1 /\ (k + 1) - 1 = k /\ k + 1 \in DOMAIN path
    BY <1>0
  <2>2. path[k + 1] # Slash /\ path[k + 1] \in Chars
    BY <2>1
  <2>3. Reading(w[k], w[s].inode, SubSeq(path, s + 1, k))
    BY <1>4
  <2> HIDE DEF k
  <2>4. w[k + 1] = Walked(d, w[k], path[k + 1])
    BY <1>1, <2>1 DEF WalkOn
  <2>5. w[k] \in Walks
    BY <1>2, <2>1
  <2>6. w[k + 1].inode = w[k].inode /\ w[k + 1].name = Append(w[k].name, path[k + 1])
    BY <2>2, <2>4, <2>5 DEF Walked, Walks
  <2>7. Append(SubSeq(path, s + 1, k), path[k + 1]) = SubSeq(path, s + 1, k + 1)
    <3>1. /\ s + 1 \in 1 .. Len(path) /\ k + 1 \in s + 1 .. Len(path) /\ (k + 1) - 1 = k
          /\ k \in Int /\ s + 1 \in Int /\ \A i \in s + 1 .. k : i \in 1 .. Len(path)
      BY <1>0, <2>1, SMTT(30)
    <3>2. SubSeq(path, s + 1, k + 1) = SubSeq(path, s + 1, (k + 1) - 1) \o <<path[k + 1]>>
      BY <3>1, SubSeqRecursiveSecond
    <3>3. \A i \in s + 1 .. k : path[i] \in Chars
      BY <3>1
    <3>4. SubSeq(path, s + 1, k) \in Seq(Chars)
      BY <3>1, <3>3, SubSeqProperties
    <3>5. Append(SubSeq(path, s + 1, k), path[k + 1]) = SubSeq(path, s + 1, k) \o <<path[k + 1]>>
      BY <2>2, <3>4, AppendIsConcat
    <3>6. QED
      BY <3>1, <3>2, <3>5
  <2>8. Reading(w[k + 1], w[s].inode, SubSeq(path, s + 1, k + 1))
    BY <2>3, <2>6, <2>7 DEF Reading
  <2>9. QED
    BY <2>1, <2>8
<1> HIDE DEF T
<1>5. \A j \in 0 .. Len(path) - s : j \in T
  <2>1. Len(path) - s \in Nat
    BY <1>0
  <2>2. QED
    BY <1>3, <1>4, <2>1, UpTo
<1>6. ASSUME NEW k \in s .. Len(path)
      PROVE  Reading(w[k], w[s].inode, SubSeq(path, s + 1, k))
  <2>1. k - s \in 0 .. Len(path) - s /\ s + (k - s) = k
    BY <1>0
  <2>2. k - s \in T
    BY <1>5, <2>1
  <2>3. QED
    BY <2>1, <2>2 DEF T
<1>7. QED
  BY <1>6 DEF w

\* Where the last component is looked up, and what it is.
LEMMA LastStep ==
  ASSUME NEW d, Typed(d), NEW path \in Seq(Chars), NEW s \in DOMAIN path,
         path[s] = Slash, \A i \in DOMAIN path : i > s => path[i] # Slash, path[1] = Slash
  PROVE  LET split == SplitAt(path, s)
             dir   == fs_resolve_path(d, split.parent)
         IN  /\ dir \in Inodes \cup {NotFound}
             /\ fs_resolve_path(d, path) =
                  IF split.name = <<>> THEN dir
                  ELSE IF dir = NotFound \/ Len(split.name) > LongestName THEN NotFound
                  ELSE Child(d, dir, split.name)
<1> DEFINE w == Walk(d, path)
           split == SplitAt(path, s)
           parent == split.parent
           dir == w[s].inode
           name == SubSeq(path, s + 1, Len(path))
<1>0. Len(path) \in Nat /\ s \in 1 .. Len(path) /\ Len(path) \in s .. Len(path) /\ path # <<>>
  OBVIOUS
<1>1. split.name = name /\ parent = IF s = 1 THEN <<Slash>> ELSE SubSeq(path, 1, s - 1)
  BY DEF SplitAt
<1>2. Reading(w[Len(path)], dir, name)
  BY <1>0, AfterSlash
<1>3. w[s] \in Walks
  BY <1>0, WalkTyped
<1>4. dir \in Inodes \cup {NotFound}
  BY <1>3 DEF Walks
<1>5. fs_resolve_path(d, path) = Entered(d, w[Len(path)]).inode
  BY <1>0 DEF fs_resolve_path
<1>6. WalkOn(d, path, w)
  BY <1>0, WalkIs
<1>7. w[s] = Entered(d, w[s - 1])
  BY <1>0, <1>6 DEF WalkOn, Walked
<1>8. fs_resolve_path(d, parent) = dir
  <2>1. CASE s = 1
    <3> DEFINE one == SubSeq(path, 1, 1)
    <3>1. one = <<Slash>> /\ Len(one) = 1 /\ one # <<>> /\ one[1] = Slash
      <4>1. \A i \in 1 .. 1 : path[i] \in Chars
        BY <1>0
      <4>2. /\ one \in Seq(Chars) /\ Len(one) = IF 1 <= 1 THEN 1 - 1 + 1 ELSE 0
            /\ \A i \in 1 .. 1 - 1 + 1 : one[i] = path[1 + i - 1]
        BY <4>1, SubSeqProperties
      <4> HIDE DEF one
      <4>3. one \in Seq(Chars) /\ Len(one) = 1 /\ one[1] = Slash
        BY <4>2
      <4>4. <<Slash>> \in Seq(Chars) /\ Len(<<Slash>>) = 1 /\ \A i \in 1 .. 1 : <<Slash>>[i] = Slash
        BY DEF Chars
      <4>5. one = <<Slash>>
        <5>1. Len(one) = Len(<<Slash>>) /\ \A i \in 1 .. Len(one) : one[i] = <<Slash>>[i]
          BY <4>3, <4>4
        <5>2. QED
          BY <4>3, <4>4, <5>1, SeqEqual
      <4>6. QED
        BY <4>3, <4>5
    <3>2. 1 \in 0 .. Len(path) /\ 1 \in 0 .. 1
      BY <1>0
    <3>3. Walk(d, one)[1] = w[1]
      BY <3>2, WalkPrefix
    <3>4. parent = one
      BY <1>1, <2>1, <3>1
    <3> HIDE DEF one, w, parent
    <3>5. fs_resolve_path(d, one) = Entered(d, w[1]).inode
      BY <3>1, <3>3 DEF fs_resolve_path
    <3>6. w[1].name = <<>>
      <4>1. 0 \in 0 .. Len(path)
        BY <1>0
      <4>2. w[0] \in Walks
        BY <4>1, WalkTyped DEF w
      <4>3. w[1] = Entered(d, w[0])
        BY <1>7, <2>1
      <4>4. QED
        BY <4>2, <4>3, EnteredTyped
    <3>7. Entered(d, w[1]) = w[1]
      BY <3>6 DEF Entered
    <3>8. QED
      BY <2>1, <3>4, <3>5, <3>7
  <2>2. CASE s # 1
    <3> DEFINE n == s - 1
    <3>1. /\ n \in 0 .. Len(path) /\ n \in 1 .. Len(path) /\ n \in Int
          /\ n \in 0 .. n /\ 1 \in Int /\ 1 \in 1 .. n
      BY <1>0, <2>2
    <3> HIDE DEF n
    <3>2. parent = SubSeq(path, 1, n)
      BY <1>1, <2>2 DEF n
    <3>3. Len(parent) = n /\ parent[1] = path[1] /\ parent # <<>>
      <4>1. \A i \in 1 .. n : path[i] \in Chars
        BY <1>0, <3>1
      <4>2. /\ Len(SubSeq(path, 1, n)) = IF 1 <= n THEN n - 1 + 1 ELSE 0
            /\ \A i \in 1 .. n - 1 + 1 : SubSeq(path, 1, n)[i] = path[1 + i - 1]
            /\ SubSeq(path, 1, n) \in Seq(Chars)
        BY <3>1, <4>1, SubSeqProperties
      <4>3. Len(SubSeq(path, 1, n)) = n /\ SubSeq(path, 1, n)[1] = path[1]
        BY <3>1, <4>2
      <4>4. QED
        BY <3>1, <3>2, <4>2, <4>3
    <3>4. Walk(d, SubSeq(path, 1, n))[n] = w[n]
      BY <3>1, WalkPrefix
    <3> HIDE DEF w, parent
    <3>5. fs_resolve_path(d, parent) = Entered(d, w[n]).inode
      BY <3>2, <3>3, <3>4 DEF fs_resolve_path
    <3>6. QED
      BY <1>7, <3>5 DEF n
  <2>3. QED
    BY <2>1, <2>2
<1> HIDE DEF w, dir
<1>9. Entered(d, w[Len(path)]).inode =
        IF name = <<>> THEN dir
        ELSE IF dir = NotFound \/ Len(name) > LongestName THEN NotFound ELSE Child(d, dir, name)
  BY <1>2 DEF Entered, Reading
<1>10. QED
  BY <1>1, <1>4, <1>5, <1>8, <1>9

\* Whatever the path and the disk, the two readings agree.
AgreeOn(d, path) ==
  LET split == split_path(path)
      dir   == fs_resolve_path(d, split.parent)
      found == fs_resolve_path(d, path)
  IN  /\ split.ok => found = IF dir = NotFound THEN NotFound ELSE Child(d, dir, split.name)
      /\ found # NotFound /\ Last(path) # Slash => split.ok /\ found # RootInode

LEMMA PathAgrees ==
  ASSUME NEW d, Typed(d), NEW path \in Seq(Chars), Slashes(path) # {}
  PROVE  AgreeOn(d, path)
<1> DEFINE s == Max(Slashes(path))
           split == SplitAt(path, s)
           dir == fs_resolve_path(d, split.parent)
           found == fs_resolve_path(d, path)
<1>0. s \in DOMAIN path /\ path[s] = Slash /\ \A i \in DOMAIN path : i > s => path[i] # Slash
  BY LastSlash DEF Slashes
<1>1. Len(path) \in Nat /\ s \in 1 .. Len(path) /\ path # <<>>
  BY <1>0
<1> HIDE DEF s
<1>2. split_path(path) = split
  BY DEF split_path, s
<1>3. split.name = SubSeq(path, s + 1, Len(path))
  BY DEF SplitAt
<1> DEFINE last == split.name
<1>7. /\ Len(last) \in Nat /\ (last = <<>> <=> Len(last) = 0)
      /\ (s < Len(path) => last # <<>>)
  <2>1. s + 1 \in Int /\ Len(path) \in Int /\ \A i \in s + 1 .. Len(path) : path[i] \in Chars
    BY <1>1
  <2>2. /\ SubSeq(path, s + 1, Len(path)) \in Seq(Chars)
        /\ Len(SubSeq(path, s + 1, Len(path)))
             = IF s + 1 <= Len(path) THEN Len(path) - (s + 1) + 1 ELSE 0
    BY <2>1, SubSeqProperties
  <2>3. last \in Seq(Chars) /\ (s < Len(path) => Len(last) > 0)
    BY <1>1, <1>3, <2>2
  <2> HIDE DEF last
  <2>4. QED
    BY <2>3, EmptySeq
<1>8. split.ok <=> last # <<>> /\ ~ (Len(last) > LongestName)
  <2>1. (Len(last) \in 1 .. LongestName) <=> last # <<>> /\ ~ (Len(last) > LongestName)
    <3> HIDE DEF last
    <3>1. \A n \in Nat : n \in 1 .. LongestName <=> n # 0 /\ ~ (n > LongestName)
      BY DEF LongestName
    <3>2. QED
      BY <1>7, <3>1
  <2>2. QED
    BY <2>1 DEF SplitAt
<1>4. CASE path[1] # Slash
  <2>1. s # 1
    BY <1>0, <1>4
  <2>2. split.parent = SubSeq(path, 1, s - 1)
    BY <2>1 DEF SplitAt
  <2>3. split.parent # <<>> /\ split.parent[1] = path[1]
    BY <1>1, <2>1, <2>2
  <2>4. dir = NotFound /\ found = NotFound
    BY <1>1, <1>4, <2>3 DEF fs_resolve_path
  <2>5. QED
    BY <1>2, <2>4 DEF AgreeOn
<1>5. CASE path[1] = Slash
  <2>1. /\ dir \in Inodes \cup {NotFound}
        /\ found = IF split.name = <<>> THEN dir
                   ELSE IF dir = NotFound \/ Len(split.name) > LongestName THEN NotFound
                   ELSE Child(d, dir, split.name)
    BY <1>0, <1>5, LastStep
  <2> HIDE DEF split, dir, found
  <2>2. split.ok => split.name # <<>> /\ ~ (Len(split.name) > LongestName)
    BY <1>8
  <2>3. split.ok => found = IF dir = NotFound THEN NotFound ELSE Child(d, dir, split.name)
    BY <2>1, <2>2
  <2>4. ASSUME found # NotFound, Last(path) # Slash PROVE split.ok /\ found # RootInode
    <3>1. s < Len(path)
      <4>1. path[Len(path)] # Slash
        BY <2>4 DEF Last
      <4>2. s # Len(path)
        BY <1>0, <4>1
      <4>3. QED
        BY <1>1, <4>2
    <3>2. Len(split.name) \in Nat \ {0} /\ split.name # <<>>
      BY <1>7, <3>1
    <3>3. dir # NotFound /\ ~ (Len(split.name) > LongestName) /\ found = Child(d, dir, split.name)
      BY <2>1, <2>4, <3>2
    <3>4. found \in (Inodes \ {RootInode}) \cup {NotFound}
      BY <2>1, <3>3, ChildIs
    <3>5. split.ok
      BY <1>8, <3>2, <3>3
    <3>6. QED
      BY <2>4, <3>4, <3>5
  <2>5. QED
    BY <1>2, <2>3, <2>4 DEF AgreeOn, split, dir, found
<1>6. QED
  BY <1>4, <1>5

\* A path means one thing: what touch, mkdir and rm create or remove under it is
\* what open finds there, at any length, however many slashes it doubles.
THEOREM PathsStayAgreed == Reliable => (ImageSpec => []PathsAgree)
<1> SUFFICES ASSUME Reliable PROVE ImageSpec => []PathsAgree
  OBVIOUS
<1>1. KeptInOrder => PathsAgree
  <2> SUFFICES ASSUME NEW L, InOrder(L), kept PROVE PathsAgree
    BY DEF KeptInOrder, DiskInOrder, PathsAgree
  <2>1. Typed(disk)
    BY DEF InOrder
  <2>2. \A path \in AllPaths : path \in Seq(Chars) /\ Slashes(path) # {}
    <3>1. BoundedSeq(Chars, PathLength) \subseteq Seq(Chars)
      BY SeqDef DEF BoundedSeq, SeqOf
    <3>2. QED
      BY <3>1 DEF AllPaths, Chars
  <2>3. \A path \in AllPaths : AgreeOn(disk, path)
    BY <2>1, <2>2, PathAgrees
  <2>4. QED
    BY <2>3 DEF PathsAgree, AgreeOn
<1>2. QED
  BY <1>1, ImageInOrder, PTL
==============================================================================
