----------------------------- MODULE PagingProofs -----------------------------
(***************************************************************************)
(* Proofs about Paging, as long as frames of the identity mapping last.    *)
(*                                                                         *)
(* Every frame has one role: the table of one directory at one entry, the  *)
(* frame of one page of one space, a directory, or none yet.  The kernel   *)
(* stores at physical addresses, so as long as every table lies in the     *)
(* identity mapping its stores reach what they should, and a frame that    *)
(* gets a role had none, so nothing else changes.                          *)
(***************************************************************************)
EXTENDS Paging, FiniteSetTheorems, NaturalsInduction, WellFoundedInduction, TLAPS

-----------------------------------------------------------------------------
(* Numbers *)

\* Every nonempty set of natural numbers has a least element.
LEMMA LeastNumber ==
  ASSUME NEW T, T \subseteq Nat, T # {}
  PROVE  \E m \in T : \A k \in T : m <= k
<1> DEFINE Less == OpToRel(<, Nat)
<1>1. IsWellFoundedOn(Less, Nat)
  BY NatLessThanWellFounded
<1>2. \A i, j \in Nat : i < j => <<i, j>> \in Less
  BY DEF OpToRel
<1> HIDE DEF Less
<1>3. PICK m \in T : \A k \in T : ~ (<<k, m>> \in Less)
  BY <1>1, WFMin
<1>4. \A k \in T : ~ (k < m)
  BY <1>2, <1>3
<1>5. QED
  BY <1>4

\* Induction up to a number, for a set of numbers.
LEMMA UpTo ==
  ASSUME NEW n \in Nat, NEW T, 0 \in T, \A k \in 0 .. n - 1 : k \in T => k + 1 \in T
  PROVE  \A k \in 0 .. n : k \in T
<1> DEFINE Bad == {k \in 0 .. n : k \notin T}
<1> SUFFICES ASSUME Bad # {} PROVE FALSE
  OBVIOUS
<1>0. Bad \subseteq Nat /\ Bad # {}
  OBVIOUS
<1>1. PICK m \in Bad : \A k \in Bad : m <= k
  BY <1>0, LeastNumber
<1>2. m # 0 /\ m - 1 \in 0 .. n - 1 /\ m - 1 \in 0 .. n
  OBVIOUS
<1>3. m - 1 \in T
  BY <1>1, <1>2
<1>4. QED
  BY <1>2, <1>3

\* The frame alloc_frame takes is the least of those it may take.
LEMMA MinIn ==
  ASSUME NEW T, T \subseteq Nat, T # {}
  PROVE  Min(T) \in T /\ \A k \in T : Min(T) <= k
<1>1. \E m \in T : \A k \in T : m <= k
  BY LeastNumber
<1>2. QED
  BY <1>1 DEF Min

Low   == 0 .. TableSize - 1

\* A number of pages is a number of tables and what is left.
LEMMA Divided ==
  ASSUME NEW v \in Nat
  PROVE  /\ DirectoryIndex(v) \in Nat /\ TableIndex(v) \in Low
         /\ v = DirectoryIndex(v) * TableSize + TableIndex(v)
<1>1. TableSize \in Nat /\ TableSize > 0
  BY PagingAssumption
<1>2. QED
  BY <1>1 DEF DirectoryIndex, TableIndex, Low

\* The product grows with its factor.
LEMMA Multiples ==
  ASSUME NEW i \in Nat, NEW j \in Nat, i < j
  PROVE  i * TableSize + TableSize <= j * TableSize
<1>0. TableSize \in Nat
  BY PagingAssumption
<1>1. PICK k \in Nat : j = i + 1 + k
  <2>1. j - i - 1 \in Nat /\ j = i + 1 + (j - i - 1)
    OBVIOUS
  <2>2. QED
    BY <2>1
<1>2. (i + 1 + k) * TableSize = i * TableSize + TableSize + k * TableSize
  BY <1>0
<1>3. k * TableSize >= 0 /\ k * TableSize \in Nat /\ i * TableSize \in Nat
  BY <1>0
<1>4. QED
  BY <1>0, <1>1, <1>2, <1>3

\* There is one way to divide it.
LEMMA PageAt ==
  ASSUME NEW i \in Nat, NEW j \in Low
  PROVE  /\ i * TableSize + j \in Nat
         /\ DirectoryIndex(i * TableSize + j) = i /\ TableIndex(i * TableSize + j) = j
<1> DEFINE v == i * TableSize + j
           q == DirectoryIndex(v)
           r == TableIndex(v)
<1>0. TableSize \in Nat /\ TableSize > 0 /\ j \in Nat /\ j < TableSize
  BY PagingAssumption DEF Low
<1>1. v \in Nat
  BY <1>0
<1>2. q \in Nat /\ r \in Nat /\ r < TableSize /\ v = q * TableSize + r
  BY <1>0, <1>1, Divided DEF Low
<1>3. q * TableSize \in Nat /\ i * TableSize \in Nat /\ v = i * TableSize + j
  BY <1>0, <1>2
<1> HIDE DEF v, q, r
<1>4. ~ (q < i)
  BY <1>0, <1>2, <1>3, Multiples
<1>5. ~ (i < q)
  BY <1>0, <1>2, <1>3, Multiples
<1>6. q = i
  BY <1>2, <1>4, <1>5
<1>7. r = j
  BY <1>0, <1>2, <1>3, <1>6
<1>8. QED
  BY <1>1, <1>6, <1>7 DEF v, q, r

\* Later pages have the same directory entry or a later one.
LEMMA IndexGrows ==
  ASSUME NEW v \in Nat, NEW w \in Nat, v <= w
  PROVE  DirectoryIndex(v) <= DirectoryIndex(w)
<1> DEFINE i == DirectoryIndex(v)
           j == DirectoryIndex(w)
<1>0. TableSize \in Nat /\ TableSize > 0
  BY PagingAssumption
<1>1. /\ i \in Nat /\ j \in Nat
      /\ \E r \in Nat : v = i * TableSize + r /\ r < TableSize
      /\ \E r \in Nat : w = j * TableSize + r /\ r < TableSize
  <2>1. \A r \in Low : r \in Nat /\ r < TableSize
    BY <1>0 DEF Low
  <2>2. QED
    BY <2>1, Divided
<1> HIDE DEF i, j
<1>2. ~ (j < i)
  <2>1. i * TableSize \in Nat /\ j * TableSize \in Nat
    BY <1>0, <1>1
  <2>2. QED
    BY <1>0, <1>1, <2>1, Multiples
<1>3. QED
  BY <1>1, <1>2 DEF i, j

\* As many pages as a table has entries touch two tables at most.
LEMMA IndexNext ==
  ASSUME NEW v \in Nat, NEW n \in Nat, n <= TableSize
  PROVE  DirectoryIndex(v + n) <= DirectoryIndex(v) + 1
<1> DEFINE i == DirectoryIndex(v)
           j == DirectoryIndex(v + n)
<1>0. TableSize \in Nat /\ TableSize > 0 /\ v + n \in Nat
  BY PagingAssumption
<1>1. /\ i \in Nat /\ j \in Nat
      /\ \E r \in Nat : v = i * TableSize + r /\ r < TableSize
      /\ \E r \in Nat : v + n = j * TableSize + r /\ r < TableSize
  <2>1. \A r \in Low : r \in Nat /\ r < TableSize
    BY <1>0 DEF Low
  <2>2. QED
    BY <1>0, <2>1, Divided
<1> HIDE DEF i, j
<1>2. ~ (i + 1 < j)
  <2>1. i * TableSize \in Nat /\ j * TableSize \in Nat /\ (i + 1) * TableSize = i * TableSize + TableSize
    BY <1>0, <1>1
  <2>2. i + 1 < j => (i + 1) * TableSize + TableSize <= j * TableSize
    BY <1>1, Multiples
  <2>3. QED
    BY <1>0, <1>1, <2>1, <2>2
<1>3. QED
  BY <1>1, <1>2 DEF i, j

KD == kernel_directory
HI == DirectoryIndex(HEAP_START)

\* Where the regions lie.
LEMMA Regions ==
  /\ HI \in Nat /\ HI # 0 /\ HEAP_START = HI * TableSize
  /\ \A v \in Nat : v < TableSize => DirectoryIndex(v) = 0 /\ TableIndex(v) = v
  /\ \A v \in Nat : TableSize <= v /\ v < HEAP_START => DirectoryIndex(v) \notin {0, HI}
  /\ \A j \in Low : /\ DirectoryIndex(HEAP_START + j) = HI /\ TableIndex(HEAP_START + j) = j
<1>0. /\ TableSize \in Nat /\ TableSize > 0 /\ HEAP_START \in Nat /\ HEAP_START % TableSize = 0
      /\ TableSize < HEAP_START
  BY PagingAssumption
<1>1. HI \in Nat /\ HEAP_START = HI * TableSize + TableIndex(HEAP_START) /\ TableIndex(HEAP_START) = 0
  BY <1>0, Divided DEF HI, TableIndex
<1>2. HEAP_START = HI * TableSize
  <2>1. HI * TableSize \in Nat
    BY <1>0, <1>1
  <2>2. QED
    BY <1>1, <2>1
<1>3. HI # 0
  <2>1. HI = 0 => HI * TableSize = 0
    BY <1>0
  <2>2. QED
    BY <1>0, <1>2, <2>1
<1>4. ASSUME NEW v \in Nat, v < TableSize PROVE DirectoryIndex(v) = 0 /\ TableIndex(v) = v
  <2>1. v \in Low /\ 0 * TableSize + v = v
    BY <1>0, <1>4 DEF Low
  <2>2. QED
    BY <2>1, PageAt
<1>5. ASSUME NEW v \in Nat, TableSize <= v, v < HEAP_START
      PROVE  DirectoryIndex(v) \notin {0, HI}
  <2> DEFINE i == DirectoryIndex(v)
             r == TableIndex(v)
  <2>1. i \in Nat /\ r \in Nat /\ r < TableSize /\ v = i * TableSize + r
    BY <1>0, Divided DEF Low
  <2> HIDE DEF i, r
  <2>2. i = 0 => i * TableSize = 0
    BY <1>0
  <2>3. i = HI => i * TableSize = HEAP_START
    BY <1>2
  <2>4. i # 0 /\ i # HI
    BY <1>0, <1>5, <2>1, <2>2, <2>3
  <2>5. QED
    BY <2>4 DEF i
<1>6. ASSUME NEW j \in Low
      PROVE  DirectoryIndex(HEAP_START + j) = HI /\ TableIndex(HEAP_START + j) = j
  BY <1>1, <1>2, PageAt
<1>7. QED
  BY <1>1, <1>2, <1>3, <1>4, <1>5, <1>6

\* How many frames below the end of the identity mapping are free.
Left(b) == Cardinality(Low \ b)

\* Reserving one of them leaves one less.
LEMMA LeftCounts ==
  ASSUME NEW b
  PROVE  /\ Left(b) \in Nat /\ Left(b) <= TableSize
         /\ 0 \in b => Left(b) < TableSize
         /\ \A f \in Low \ b : Left(b \cup {f}) = Left(b) - 1
         /\ Left(b) > 0 => Low \ b # {}
<1>0. TableSize \in Nat /\ TableSize > 0 /\ 0 \in Int /\ TableSize - 1 \in Int
  BY PagingAssumption
<1>1. IsFiniteSet(Low) /\ Cardinality(Low) = TableSize
  BY <1>0, FS_Interval DEF Low
<1>2. IsFiniteSet(Low \ b) /\ Cardinality(Low \ b) <= Cardinality(Low)
  BY <1>1, FS_Subset
<1>3. Cardinality(Low \ b) \in Nat
  BY <1>2, FS_CardinalityType
<1>4. ASSUME NEW f \in Low \ b PROVE Cardinality(Low \ (b \cup {f})) = Cardinality(Low \ b) - 1
  <2>1. Low \ (b \cup {f}) = (Low \ b) \ {f}
    OBVIOUS
  <2>2. QED
    BY <1>2, <2>1, FS_RemoveElement
<1>5. ASSUME 0 \in b PROVE Cardinality(Low \ b) < TableSize
  <2>1. 0 \in Low /\ Low \ b \subseteq Low \ {0}
    BY <1>0, <1>5 DEF Low
  <2>2. IsFiniteSet(Low \ {0}) /\ Cardinality(Low \ {0}) = TableSize - 1
    BY <1>1, <2>1, FS_RemoveElement
  <2>3. Cardinality(Low \ b) <= Cardinality(Low \ {0})
    BY <2>1, <2>2, FS_Subset
  <2>4. QED
    BY <1>0, <1>3, <2>2, <2>3
<1>6. Cardinality(Low \ b) > 0 => Low \ b # {}
  BY FS_EmptySet
<1>7. QED
  BY <1>1, <1>2, <1>3, <1>4, <1>5, <1>6 DEF Left

-----------------------------------------------------------------------------
(* Tables *)

EntrySet == [frame : Frames, user : BOOLEAN]
Contents == UNION {[S -> EntrySet] : S \in SUBSET Low}

\* Frames are numbers; all that is identity mapped is there.
LEMMA FramesAre ==
  /\ Frames \subseteq Nat /\ Low \subseteq Frames /\ Low \subseteq Nat /\ 0 \in Low /\ 0 \in Frames
  /\ \A f \in Low : f < TableSize
  /\ \A f \in Nat : f < TableSize => f \in Low
<1>1. /\ TableSize \in Nat /\ TableSize > 0 /\ NFrames \in Nat /\ TableSize <= NFrames
  BY PagingAssumption
<1>2. QED
  BY <1>1 DEF Frames, Low

\* What a table is.
LEMMA TableIs ==
  ASSUME NEW t \in Contents
  PROVE  /\ DOMAIN t \subseteq Low /\ \A j \in DOMAIN t : t[j] \in EntrySet
         /\ \A j \in DOMAIN t : t[j].frame \in Frames /\ t[j].user \in BOOLEAN
         /\ t \in [DOMAIN t -> EntrySet]
<1>1. PICK S \in SUBSET Low : t \in [S -> EntrySet]
  BY DEF Contents
<1>2. QED
  BY <1>1 DEF EntrySet

\* Anything of that kind is a table.
LEMMA IsTable ==
  ASSUME NEW S, S \subseteq Low, NEW t, t \in [S -> EntrySet]
  PROVE  t \in Contents
  BY DEF Contents

\* A table after an entry was written.
LEMMA WithIs ==
  ASSUME NEW t \in Contents, NEW i \in Low, NEW e \in EntrySet
  PROVE  /\ With(t, i, e) \in Contents
         /\ DOMAIN With(t, i, e) = DOMAIN t \cup {i} /\ With(t, i, e)[i] = e
         /\ \A j \in DOMAIN t : j # i => With(t, i, e)[j] = t[j]
<1>1. /\ DOMAIN t \subseteq Low /\ \A j \in DOMAIN t : t[j] \in EntrySet
  BY TableIs
<1> DEFINE S == DOMAIN t \cup {i}
<1>2. With(t, i, e) = [j \in S |-> IF j = i THEN e ELSE t[j]]
  BY DEF With
<1>3. With(t, i, e) \in [S -> EntrySet] /\ S \subseteq Low
  BY <1>1, <1>2
<1>4. With(t, i, e) \in Contents
  <2> HIDE DEF S
  <2> QED
    BY <1>3, IsTable
<1>5. QED
  BY <1>2, <1>4

\* The same of one that is not there any more.
Without(t, i) == [j \in DOMAIN t \ {i} |-> t[j]]

LEMMA WithoutIs ==
  ASSUME NEW t \in Contents, NEW i
  PROVE  /\ Without(t, i) \in Contents /\ DOMAIN Without(t, i) = DOMAIN t \ {i}
         /\ \A j \in DOMAIN t \ {i} : Without(t, i)[j] = t[j]
<1>1. /\ DOMAIN t \subseteq Low /\ \A j \in DOMAIN t : t[j] \in EntrySet
  BY TableIs
<1> DEFINE S == DOMAIN t \ {i}
<1>2. Without(t, i) \in [S -> EntrySet] /\ S \subseteq Low
  BY <1>1 DEF Without
<1>3. Without(t, i) \in Contents
  <2> HIDE DEF S
  <2> QED
    BY <1>2, IsTable
<1>4. QED
  BY <1>3 DEF Without

\* And of one that was zeroed.
LEMMA NoEntriesIs ==
  NoEntries \in Contents /\ DOMAIN NoEntries = {}
<1>1. DOMAIN NoEntries = {}
  BY DEF NoEntries
<1>2. NoEntries \in [{} -> EntrySet]
  BY DEF NoEntries
<1>3. QED
  BY <1>1, <1>2, IsTable

-----------------------------------------------------------------------------
(* What each frame is for *)

Free        == <<"free", 0, 0>>
Other       == <<"held", 0, 0>>
Dir         == <<"directory", 0, 0>>
Tab(d, i)   == <<"table", d, i>>
Page(d, v)  == <<"page", d, v>>

\* No frame is for two things.
LEMMA RolesDiffer ==
  /\ Free # Other /\ Free # Dir /\ Other # Dir
  /\ \A d, i : Tab(d, i) # Free /\ Tab(d, i) # Other /\ Tab(d, i) # Dir
  /\ \A d, i : Page(d, i) # Free /\ Page(d, i) # Other /\ Page(d, i) # Dir
  /\ \A d, i, e, k : Page(d, i) # Tab(e, k)
  /\ \A d, i, e, k : Tab(d, i) = Tab(e, k) => d = e /\ i = k
  /\ \A d, i, e, k : Page(d, i) = Page(e, k) => d = e /\ i = k
  BY DEF Free, Other, Dir, Tab, Page

Role == {Free, Other, Dir} \cup {Tab(d, i) : d, i \in Nat} \cup {Page(d, v) : d, v \in Nat}

\* All of them are roles.
LEMMA RolesAre ==
  /\ Free \in Role /\ Other \in Role /\ Dir \in Role
  /\ \A d, i \in Nat : Tab(d, i) \in Role /\ Page(d, i) \in Role
  BY DEF Role

\* The tables of a directory that the kernel's does not have.
Own(mem, d) == DOMAIN mem[d] \ (IF d = KD THEN {0} ELSE {0, HI})
At(mem, d, i) == mem[d][i].frame

\* Pages of the kernel's own directory are closed to programs.
UserOf(d) == IF d = KD THEN FALSE ELSE TRUE

Reserved(b, E, R) ==
  /\ \A f \in Frames \ b : R[f] = Free
  /\ \A f \in Held \cup {0} : R[f] = Other
  /\ \A d \in E : d \in Low /\ R[d] = Dir
  /\ KD \in E

\* The kernel's tables are in every directory; the first is the identity mapping.
Shared(mem, E, R) ==
  /\ 0 \in DOMAIN mem[KD] /\ DOMAIN mem[KD] \subseteq {0, HI}
  /\ E # {KD} => HI \in DOMAIN mem[KD]
  /\ \A d \in E : \A i \in DOMAIN mem[KD] : i \in DOMAIN mem[d] /\ mem[d][i] = mem[KD][i]
  /\ At(mem, KD, 0) \in Low /\ R[At(mem, KD, 0)] = Tab(KD, 0) /\ mem[KD][0].user = FALSE

\* What it does not map is a directory that is not used any more.
Identity(mem, E, R) ==
  /\ \A f \in DOMAIN mem[At(mem, KD, 0)] : mem[At(mem, KD, 0)][f] = Entry(f, FALSE)
  /\ \A f \in Low \ DOMAIN mem[At(mem, KD, 0)] : f \notin E /\ R[f] = Dir

\* Every other table is one directory's, and what it maps is one page's.
OwnTables(mem, E, R) ==
  \A d \in E : \A i \in Own(mem, d) :
    /\ At(mem, d, i) \in Low /\ R[At(mem, d, i)] = Tab(d, i) /\ mem[d][i].user = UserOf(d)
    /\ \A j \in DOMAIN mem[At(mem, d, i)] :
         /\ R[mem[At(mem, d, i)][j].frame] = Page(d, i * TableSize + j)
         /\ mem[At(mem, d, i)][j].user = UserOf(d)

Spaces(b, mem, E, R) ==
  /\ b \subseteq Frames /\ mem \in [Frames -> Contents] /\ R \in [Frames -> Role]
  /\ Reserved(b, E, R) /\ Shared(mem, E, R) /\ Identity(mem, E, R) /\ OwnTables(mem, E, R)

\* Numbers of directory entries and frames.
LEMMA EntriesTyped ==
  ASSUME NEW mem \in [Frames -> Contents], NEW d \in Frames, NEW i \in DOMAIN mem[d]
  PROVE  /\ i \in Low /\ i \in Nat /\ mem[d][i] \in EntrySet /\ At(mem, d, i) \in Frames
         /\ mem[At(mem, d, i)] \in Contents
         /\ \A j \in DOMAIN mem[At(mem, d, i)] :
              /\ j \in Low /\ j \in Nat /\ mem[At(mem, d, i)][j] \in EntrySet
              /\ mem[At(mem, d, i)][j].frame \in Frames
<1>1. mem[d] \in Contents
  OBVIOUS
<1>2. i \in Low /\ mem[d][i] \in EntrySet /\ mem[d][i].frame \in Frames
  BY <1>1, TableIs
<1>3. mem[At(mem, d, i)] \in Contents
  BY <1>2 DEF At
<1>4. QED
  BY <1>2, <1>3, TableIs, FramesAre DEF At

\* A table of one directory is nobody else's.
LEMMA TablesApart ==
  ASSUME NEW b, NEW mem, NEW E, NEW R, Spaces(b, mem, E, R), NEW d \in E, NEW i \in Own(mem, d)
  PROVE  /\ At(mem, d, i) \notin E /\ At(mem, d, i) # At(mem, KD, 0)
         /\ \A e \in E : \A k \in Own(mem, e) : At(mem, e, k) = At(mem, d, i) => e = d /\ k = i
<1>1. /\ R[At(mem, d, i)] = Tab(d, i) /\ \A e \in E : R[e] = Dir
      /\ \A e \in E : \A k \in Own(mem, e) : R[At(mem, e, k)] = Tab(e, k)
      /\ R[At(mem, KD, 0)] = Tab(KD, 0)
  BY DEF Spaces, OwnTables, Reserved, Shared
<1>2. i # 0
  BY DEF Own
<1>3. QED
  BY <1>1, <1>2, RolesDiffer

-----------------------------------------------------------------------------
(* What keeps the spaces as they should be *)

\* What a member has, in range.
LEMMA MembersAre ==
  ASSUME NEW b, NEW mem, NEW E, NEW R, Spaces(b, mem, E, R), NEW d \in E
  PROVE  /\ d \in Low /\ d \in Frames /\ d \in Nat /\ KD \in E /\ KD \in Frames
         /\ \A i \in Own(mem, d) :
              /\ i \in DOMAIN mem[d] /\ i \in Low /\ i \in Nat /\ i # 0
              /\ At(mem, d, i) \in Low /\ At(mem, d, i) \in Frames
              /\ mem[At(mem, d, i)] \in Contents
         /\ At(mem, KD, 0) \in Low /\ At(mem, KD, 0) \in Frames /\ At(mem, KD, 0) \notin E
<1>1. d \in Low /\ KD \in E /\ KD \in Low /\ \A e \in E : R[e] = Dir
  BY DEF Spaces, Reserved
<1>2. d \in Frames /\ d \in Nat /\ KD \in Frames
  BY <1>1, FramesAre
<1>3. At(mem, KD, 0) \in Low /\ R[At(mem, KD, 0)] = Tab(KD, 0)
  BY DEF Spaces, Shared
<1>4. ASSUME NEW i \in Own(mem, d)
      PROVE  /\ i \in DOMAIN mem[d] /\ i \in Low /\ i \in Nat /\ i # 0
             /\ At(mem, d, i) \in Low /\ At(mem, d, i) \in Frames
             /\ mem[At(mem, d, i)] \in Contents
  <2>1. i \in DOMAIN mem[d] /\ i # 0
    BY DEF Own
  <2>2. mem \in [Frames -> Contents] /\ At(mem, d, i) \in Low
    BY DEF Spaces, OwnTables
  <2>3. QED
    BY <1>2, <2>1, <2>2, EntriesTyped
<1>5. QED
  BY <1>1, <1>2, <1>3, <1>4, FramesAre, RolesDiffer

\* What writing an entry changes, and giving a frame away.
Written(mem, mem2, t, j, e) ==
  /\ mem2 \in [Frames -> Contents] /\ DOMAIN mem2[t] = DOMAIN mem[t] \cup {j}
  /\ mem2[t][j] = e /\ \A k \in DOMAIN mem[t] : k # j => mem2[t][k] = mem[t][k]
  /\ \A g \in Frames : g # t => mem2[g] = mem[g]

Given(R, R2, f, r) ==
  R2 \in [Frames -> Role] /\ R2[f] = r /\ \A g \in Frames : g # f => R2[g] = R[g]

LEMMA EntryWritten ==
  ASSUME NEW mem \in [Frames -> Contents], NEW t \in Frames, NEW j \in Low, NEW e \in EntrySet,
         NEW mem2, mem2 = [mem EXCEPT ![t] = With(mem[t], j, e)]
  PROVE  Written(mem, mem2, t, j, e)
<1>1. mem[t] \in Contents
  OBVIOUS
<1>2. PICK w : w = With(mem[t], j, e)
  OBVIOUS
<1>3. /\ w \in Contents /\ DOMAIN w = DOMAIN mem[t] \cup {j} /\ w[j] = e
      /\ \A k \in DOMAIN mem[t] : k # j => w[k] = mem[t][k]
  BY <1>1, <1>2, WithIs
<1>4. mem2 = [mem EXCEPT ![t] = w]
  BY <1>2
<1>5. QED
  BY <1>3, <1>4 DEF Written

\* A page is mapped to a frame that was nobody's.
LEMMA PageAdded ==
  ASSUME NEW b, NEW mem, NEW E, NEW R, Spaces(b, mem, E, R),
         NEW d \in E, NEW i \in Own(mem, d), NEW j \in Low, NEW f \in b, R[f] = Free,
         NEW t, t = At(mem, d, i),
         NEW e0 \in EntrySet, e0.frame = f, e0.user = UserOf(d),
         NEW mem2, Written(mem, mem2, t, j, e0),
         NEW R2, Given(R, R2, f, Page(d, i * TableSize + j))
  PROVE  Spaces(b, mem2, E, R2)
<1>0. /\ t \in Frames /\ t \in Low /\ t \notin E /\ t # At(mem, KD, 0) /\ mem[t] \in Contents
      /\ i \in Nat /\ d \in Frames /\ d \in Nat /\ f \in Frames /\ b \subseteq Frames
      /\ mem \in [Frames -> Contents] /\ R \in [Frames -> Role] /\ KD \in E
      /\ \A e \in E : e \in Frames
      /\ i \in DOMAIN mem[d]
      /\ At(mem, KD, 0) \in Frames
  BY MembersAre, TablesApart DEF Spaces
<1>1. R[At(mem, KD, 0)] = Tab(KD, 0)
  BY DEF Spaces, Shared
<1>3. /\ mem2 \in [Frames -> Contents] /\ DOMAIN mem2[t] = DOMAIN mem[t] \cup {j}
      /\ mem2[t][j] = e0 /\ \A k \in DOMAIN mem[t] : k # j => mem2[t][k] = mem[t][k]
      /\ \A g \in Frames : g # t => mem2[g] = mem[g]
  BY DEF Written
<1>5. /\ R2 \in [Frames -> Role] /\ R2[f] = Page(d, i * TableSize + j)
      /\ \A g \in Frames : g # f => R2[g] = R[g]
  BY DEF Given
<1>6. \A g \in Frames : R[g] # Free => R2[g] = R[g]
  BY <1>5
<1>7. Reserved(b, E, R2)
  <2>1. \A g \in Frames \ b : R2[g] = Free
    BY <1>5 DEF Spaces, Reserved
  <2>2. \A g \in Held \cup {0} : R2[g] = Other
    <3>1. \A g \in Held \cup {0} : g \in Frames /\ R[g] = Other
      BY PagingAssumption, FramesAre DEF Spaces, Reserved
    <3>2. QED
      BY <1>6, <3>1, RolesDiffer
  <2>3. \A g \in E : g \in Low /\ R2[g] = Dir
    <3>1. \A g \in E : g \in Low /\ R[g] = Dir
      BY DEF Spaces, Reserved
    <3>2. QED
      BY <1>0, <1>6, <3>1, RolesDiffer
  <2>4. QED
    BY <1>0, <2>1, <2>2, <2>3 DEF Reserved
<1>8. \A e \in E : mem2[e] = mem[e]
  BY <1>0, <1>3
<1>9. /\ \A e \in E : Own(mem2, e) = Own(mem, e)
      /\ \A e \in E : \A k : At(mem2, e, k) = At(mem, e, k)
  BY <1>8 DEF Own, At
<1>10. Shared(mem2, E, R2)
  <2>1. PICK g \in Frames : g = At(mem, KD, 0)
    BY <1>0
  <2>2. R2[At(mem, KD, 0)] = Tab(KD, 0)
    <3>1. R[g] = Tab(KD, 0) /\ R[g] # Free
      BY <1>1, <2>1, RolesDiffer
    <3>2. QED
      BY <1>6, <2>1, <3>1
  <2>3. QED
    BY <1>0, <1>8, <1>9, <2>2 DEF Spaces, Shared
<1>11. Identity(mem2, E, R2)
  <2>1. At(mem2, KD, 0) = At(mem, KD, 0) /\ mem2[At(mem, KD, 0)] = mem[At(mem, KD, 0)]
    BY <1>0, <1>3, <1>9
  <2>2. \A g \in Low : R[g] = Dir => R2[g] = Dir
    BY <1>6, RolesDiffer, FramesAre
  <2>3. QED
    BY <2>1, <2>2 DEF Spaces, Identity
<1>12. ASSUME NEW e \in E, NEW k \in Own(mem, e)
       PROVE  /\ At(mem, e, k) \in Low /\ R2[At(mem, e, k)] = Tab(e, k) /\ mem[e][k].user = UserOf(e)
              /\ \A l \in DOMAIN mem2[At(mem, e, k)] :
                   /\ R2[mem2[At(mem, e, k)][l].frame] = Page(e, k * TableSize + l)
                   /\ mem2[At(mem, e, k)][l].user = UserOf(e)
  <2>1. /\ At(mem, e, k) \in Low /\ R[At(mem, e, k)] = Tab(e, k) /\ mem[e][k].user = UserOf(e)
        /\ \A l \in DOMAIN mem[At(mem, e, k)] :
             /\ R[mem[At(mem, e, k)][l].frame] = Page(e, k * TableSize + l)
             /\ mem[At(mem, e, k)][l].user = UserOf(e)
    BY DEF Spaces, OwnTables
  <2>2. R2[At(mem, e, k)] = Tab(e, k)
    BY <1>6, <2>1, RolesDiffer, FramesAre
  <2>3. \A l \in DOMAIN mem[At(mem, e, k)] : mem[At(mem, e, k)][l].frame \in Frames
    <3>1. mem[At(mem, e, k)] \in Contents
      BY MembersAre
    <3>2. QED
      BY <3>1, TableIs
  <2>4. \A l \in DOMAIN mem[At(mem, e, k)] :
          R2[mem[At(mem, e, k)][l].frame] = Page(e, k * TableSize + l)
    BY <1>6, <2>1, <2>3, RolesDiffer
  <2>5. CASE At(mem, e, k) # t
    <3>1. mem2[At(mem, e, k)] = mem[At(mem, e, k)]
      BY <1>3, <2>1, <2>5, FramesAre
    <3>2. QED
      BY <2>1, <2>2, <2>4, <3>1
  <2>6. CASE At(mem, e, k) = t
    <3>1. e = d /\ k = i
      BY <2>6, TablesApart
    <3>2. \A l \in DOMAIN mem2[t] :
            /\ R2[mem2[t][l].frame] = Page(d, i * TableSize + l)
            /\ mem2[t][l].user = UserOf(d)
      <4>1. ASSUME NEW l \in DOMAIN mem2[t]
            PROVE  /\ R2[mem2[t][l].frame] = Page(d, i * TableSize + l)
                   /\ mem2[t][l].user = UserOf(d)
        <5>1. CASE l = j
          BY <1>3, <1>5, <5>1
        <5>2. CASE l # j
          <6>1. l \in DOMAIN mem[t] /\ mem2[t][l] = mem[t][l]
            BY <1>3, <5>2
          <6>2. QED
            BY <2>1, <2>4, <2>6, <3>1, <6>1
        <5>3. QED
          BY <5>1, <5>2
      <4>2. QED
        BY <4>1
    <3>3. QED
      BY <2>1, <2>2, <2>6, <3>1, <3>2
  <2>7. QED
    BY <2>5, <2>6
<1>13. OwnTables(mem2, E, R2)
  <2>1. ASSUME NEW e \in E, NEW k \in Own(mem2, e)
        PROVE  /\ k \in Own(mem, e) /\ At(mem2, e, k) = At(mem, e, k) /\ mem2[e][k] = mem[e][k]
    BY <1>8, <1>9
  <2>2. ASSUME NEW e \in E, NEW k \in Own(mem2, e)
        PROVE  /\ At(mem2, e, k) \in Low /\ R2[At(mem2, e, k)] = Tab(e, k)
               /\ mem2[e][k].user = UserOf(e)
               /\ \A l \in DOMAIN mem2[At(mem2, e, k)] :
                    /\ R2[mem2[At(mem2, e, k)][l].frame] = Page(e, k * TableSize + l)
                    /\ mem2[At(mem2, e, k)][l].user = UserOf(e)
    BY <1>12, <2>1
  <2>3. QED
    BY <2>2 DEF OwnTables
<1>14. QED
  BY <1>0, <1>3, <1>5, <1>7, <1>10, <1>11, <1>13 DEF Spaces

\* What is in a frame that is nobody's does not matter.
LEMMA ZeroedUnseen ==
  ASSUME NEW b, NEW mem, NEW E, NEW R, Spaces(b, mem, E, R), NEW t \in Frames, R[t] = Free,
         NEW mem2 \in [Frames -> Contents], \A g \in Frames : g # t => mem2[g] = mem[g]
  PROVE  Spaces(b, mem2, E, R)
<1>1. \A e \in E : e \in Frames /\ mem2[e] = mem[e]
  <2>1. \A e \in E : e \in Frames /\ R[e] = Dir
    BY FramesAre DEF Spaces, Reserved
  <2>2. QED
    BY <2>1, RolesDiffer
<1>2. /\ \A e \in E : Own(mem2, e) = Own(mem, e)
      /\ \A e \in E : \A k : At(mem2, e, k) = At(mem, e, k)
  BY <1>1 DEF Own, At
<1>3. KD \in E /\ At(mem, KD, 0) \in Frames /\ R[At(mem, KD, 0)] = Tab(KD, 0)
  BY FramesAre DEF Spaces, Reserved, Shared
<1>4. mem2[At(mem, KD, 0)] = mem[At(mem, KD, 0)]
  BY <1>3, RolesDiffer
<1>5. \A e \in E : \A k \in Own(mem, e) : mem2[At(mem, e, k)] = mem[At(mem, e, k)]
  <2>1. \A e \in E : \A k \in Own(mem, e) : At(mem, e, k) \in Frames /\ R[At(mem, e, k)] = Tab(e, k)
    BY FramesAre DEF Spaces, OwnTables
  <2>2. QED
    BY <2>1, RolesDiffer
<1>6. Shared(mem2, E, R)
  BY <1>1, <1>2, <1>3 DEF Spaces, Shared
<1>7. Identity(mem2, E, R)
  BY <1>2, <1>3, <1>4 DEF Spaces, Identity
<1>8. OwnTables(mem2, E, R)
  BY <1>1, <1>2, <1>5 DEF Spaces, OwnTables
<1>9. QED
  BY <1>6, <1>7, <1>8 DEF Spaces

\* Where a directory may get a table of its own.
MayAdd(mem, E, d, i) ==
  /\ i \in Low
  /\ \/ d # KD /\ i \notin {0, HI}
     \/ d = KD /\ i = HI /\ E = {KD}

\* A directory gets a table that was nobody's.
LEMMA TableAdded ==
  ASSUME NEW b, NEW mem, NEW E, NEW R, Spaces(b, mem, E, R),
         NEW d \in E, NEW i, MayAdd(mem, E, d, i), i \notin DOMAIN mem[d],
         NEW t \in b, R[t] = Free, t \in Low, DOMAIN mem[t] = {},
         NEW e0 \in EntrySet, e0.frame = t, e0.user = UserOf(d),
         NEW mem2, Written(mem, mem2, d, i, e0),
         NEW R2, Given(R, R2, t, Tab(d, i))
  PROVE  Spaces(b, mem2, E, R2) /\ Own(mem2, d) = Own(mem, d) \cup {i} /\ At(mem2, d, i) = t
<1>0. /\ t \in Frames /\ t # d /\ i \in Low /\ i # 0 /\ (d # KD => i # HI)
      /\ d \in Frames /\ b \subseteq Frames /\ KD \in E /\ KD \in Frames
      /\ \A e \in E : e \in Low /\ e \in Frames /\ R[e] = Dir
  <2>1. i # 0
    BY Regions DEF MayAdd
  <2>2. KD \in E /\ \A e \in E : e \in Low /\ e \in Frames /\ R[e] = Dir
    BY FramesAre DEF Spaces, Reserved
  <2>3. QED
    BY <2>1, <2>2, FramesAre, RolesDiffer DEF MayAdd, Spaces
<1>1. /\ mem2 \in [Frames -> Contents] /\ DOMAIN mem2[d] = DOMAIN mem[d] \cup {i}
      /\ mem2[d][i] = e0 /\ \A k \in DOMAIN mem[d] : k # i => mem2[d][k] = mem[d][k]
      /\ \A g \in Frames : g # d => mem2[g] = mem[g]
  BY DEF Written
<1>2. /\ R2 \in [Frames -> Role] /\ R2[t] = Tab(d, i)
      /\ \A g \in Frames : g # t => R2[g] = R[g]
  BY DEF Given
<1>3. \A g \in Frames : R[g] # Free => R2[g] = R[g]
  BY <1>2
<1>4. Reserved(b, E, R2)
  <2>1. \A g \in Frames \ b : R2[g] = Free
    BY <1>2 DEF Spaces, Reserved
  <2>2. \A g \in Held \cup {0} : R2[g] = Other
    <3>1. \A g \in Held \cup {0} : g \in Frames /\ R[g] = Other
      BY PagingAssumption, FramesAre DEF Spaces, Reserved
    <3>2. QED
      BY <1>3, <3>1, RolesDiffer
  <2>3. \A g \in E : g \in Low /\ R2[g] = Dir
    BY <1>0, <1>3, RolesDiffer
  <2>4. QED
    BY <1>0, <2>1, <2>2, <2>3 DEF Reserved
<1>5. Own(mem2, d) = Own(mem, d) \cup {i} /\ At(mem2, d, i) = t
  BY <1>0, <1>1 DEF Own, At
<1>6. \A e \in E : \A k \in DOMAIN mem[e] : k \in DOMAIN mem2[e] /\ mem2[e][k] = mem[e][k] /\ At(mem2, e, k) = At(mem, e, k)
  BY <1>0, <1>1 DEF At
<1>7. 0 \in DOMAIN mem[KD] /\ At(mem, KD, 0) \in Frames /\ R[At(mem, KD, 0)] = Tab(KD, 0)
      /\ At(mem, KD, 0) \in Low /\ mem[KD][0].user = FALSE
  BY FramesAre DEF Spaces, Shared
<1>8. At(mem2, KD, 0) = At(mem, KD, 0) /\ R2[At(mem, KD, 0)] = Tab(KD, 0)
      /\ mem2[KD][0].user = FALSE
  BY <1>0, <1>3, <1>6, <1>7, RolesDiffer
<1>9. Shared(mem2, E, R2)
  <2>1. DOMAIN mem[KD] \subseteq {0, HI} /\ (E # {KD} => HI \in DOMAIN mem[KD])
        /\ \A e \in E : \A k \in DOMAIN mem[KD] : k \in DOMAIN mem[e] /\ mem[e][k] = mem[KD][k]
    BY DEF Spaces, Shared
  <2>2. CASE d # KD
    <3>1. mem2[KD] = mem[KD]
      BY <1>0, <1>1, <2>2
    <3>2. \A e \in E : \A k \in DOMAIN mem[KD] : k \in DOMAIN mem2[e] /\ mem2[e][k] = mem[KD][k]
      BY <1>6, <2>1
    <3>3. QED
      BY <1>7, <1>8, <2>1, <3>1, <3>2 DEF Shared
  <2>3. CASE d = KD
    <3>1. i = HI /\ E = {KD}
      BY <2>3 DEF MayAdd
    <3>2. DOMAIN mem2[KD] \subseteq {0, HI} /\ 0 \in DOMAIN mem2[KD]
      BY <1>1, <1>7, <2>1, <2>3, <3>1
    <3>3. QED
      BY <1>7, <1>8, <3>1, <3>2 DEF Shared
  <2>4. QED
    BY <2>2, <2>3
<1>10. Identity(mem2, E, R2)
  <2>1. mem2[At(mem, KD, 0)] = mem[At(mem, KD, 0)]
    BY <1>0, <1>1, <1>7, RolesDiffer
  <2>2. \A g \in Low : R[g] = Dir => R2[g] = Dir
    BY <1>3, RolesDiffer, FramesAre
  <2>3. QED
    BY <1>8, <2>1, <2>2 DEF Spaces, Identity
<1>11. ASSUME NEW e \in E, NEW k \in Own(mem2, e)
       PROVE  /\ At(mem2, e, k) \in Low /\ R2[At(mem2, e, k)] = Tab(e, k)
              /\ mem2[e][k].user = UserOf(e)
              /\ \A l \in DOMAIN mem2[At(mem2, e, k)] :
                   /\ R2[mem2[At(mem2, e, k)][l].frame] = Page(e, k * TableSize + l)
                   /\ mem2[At(mem2, e, k)][l].user = UserOf(e)
  <2>1. CASE e = d /\ k = i
    <3>1. At(mem2, e, k) = t /\ DOMAIN mem2[t] = {} /\ mem2[e][k].user = UserOf(e)
      BY <1>0, <1>1, <1>5, <2>1
    <3>2. QED
      BY <1>2, <2>1, <3>1
  <2>2. CASE ~ (e = d /\ k = i)
    <3>1. k \in Own(mem, e) /\ k \in DOMAIN mem[e]
      BY <1>0, <1>1, <1>5, <2>2 DEF Own
    <3>2. /\ At(mem, e, k) \in Low /\ R[At(mem, e, k)] = Tab(e, k) /\ mem[e][k].user = UserOf(e)
          /\ \A l \in DOMAIN mem[At(mem, e, k)] :
               /\ R[mem[At(mem, e, k)][l].frame] = Page(e, k * TableSize + l)
               /\ mem[At(mem, e, k)][l].user = UserOf(e)
      BY <3>1 DEF Spaces, OwnTables
    <3>3. At(mem2, e, k) = At(mem, e, k) /\ mem2[e][k] = mem[e][k]
      BY <1>6, <3>1
    <3>4. At(mem, e, k) \in Frames /\ mem2[At(mem, e, k)] = mem[At(mem, e, k)]
      BY <1>0, <1>1, <3>2, FramesAre, RolesDiffer
    <3>5. \A l \in DOMAIN mem[At(mem, e, k)] : mem[At(mem, e, k)][l].frame \in Frames
      <4>1. mem[At(mem, e, k)] \in Contents
        BY <3>4 DEF Spaces
      <4>2. QED
        BY <4>1, TableIs
    <3>6. R2[At(mem, e, k)] = Tab(e, k)
      BY <1>3, <3>2, <3>4, RolesDiffer
    <3>7. \A l \in DOMAIN mem[At(mem, e, k)] :
            R2[mem[At(mem, e, k)][l].frame] = Page(e, k * TableSize + l)
      BY <1>3, <3>2, <3>5, RolesDiffer
    <3>8. QED
      BY <3>2, <3>3, <3>4, <3>6, <3>7
  <2>3. QED
    BY <2>1, <2>2
<1>12. OwnTables(mem2, E, R2)
  BY <1>11 DEF OwnTables
<1>13. QED
  BY <1>1, <1>2, <1>4, <1>5, <1>9, <1>10, <1>12 DEF Spaces

\* A frame that was nobody's becomes a copy of the kernel's directory.
LEMMA DirectoryAdded ==
  ASSUME NEW b, NEW mem, NEW E, NEW R, Spaces(b, mem, E, R), HI \in DOMAIN mem[KD],
         NEW x \in b, R[x] = Free, x \in Low,
         NEW mem2 \in [Frames -> Contents], mem2[x] = mem[KD],
         \A g \in Frames : g # x => mem2[g] = mem[g],
         NEW R2, Given(R, R2, x, Dir)
  PROVE  Spaces(b, mem2, E \cup {x}, R2) /\ Own(mem2, x) = {}
<1>0. /\ x \in Frames /\ KD \in E /\ KD \in Frames
      /\ \A e \in E : e \in Low /\ e \in Frames /\ R[e] = Dir /\ e # x
  <2>1. KD \in E /\ \A e \in E : e \in Low /\ e \in Frames /\ R[e] = Dir
    BY FramesAre DEF Spaces, Reserved
  <2>2. QED
    BY <2>1, FramesAre, RolesDiffer
<1>2. /\ R2 \in [Frames -> Role] /\ R2[x] = Dir
      /\ \A g \in Frames : g # x => R2[g] = R[g]
  BY DEF Given
<1>3. \A g \in Frames : R[g] # Free => R2[g] = R[g]
  BY <1>2
<1>4. Reserved(b, E \cup {x}, R2)
  <2>1. \A g \in Frames \ b : R2[g] = Free
    BY <1>2 DEF Spaces, Reserved
  <2>2. \A g \in Held \cup {0} : R2[g] = Other
    <3>1. \A g \in Held \cup {0} : g \in Frames /\ R[g] = Other
      BY PagingAssumption, FramesAre DEF Spaces, Reserved
    <3>2. QED
      BY <1>3, <3>1, RolesDiffer
  <2>3. \A g \in E \cup {x} : g \in Low /\ R2[g] = Dir
    BY <1>0, <1>2, <1>3, RolesDiffer
  <2>4. QED
    BY <1>0, <2>1, <2>2, <2>3 DEF Reserved
<1>5. \A e \in E : mem2[e] = mem[e]
  BY <1>0
<1>6. /\ 0 \in DOMAIN mem[KD] /\ DOMAIN mem[KD] \subseteq {0, HI}
      /\ \A e \in E : \A k \in DOMAIN mem[KD] : k \in DOMAIN mem[e] /\ mem[e][k] = mem[KD][k]
      /\ At(mem, KD, 0) \in Low /\ At(mem, KD, 0) \in Frames /\ R[At(mem, KD, 0)] = Tab(KD, 0)
      /\ mem[KD][0].user = FALSE
  BY FramesAre DEF Spaces, Shared
<1>7. /\ \A e \in E : Own(mem2, e) = Own(mem, e)
      /\ \A e \in E : \A k : At(mem2, e, k) = At(mem, e, k)
  BY <1>5 DEF Own, At
<1>8. Own(mem2, x) = {}
  BY <1>0, <1>6 DEF Own
<1>9. At(mem2, KD, 0) = At(mem, KD, 0) /\ R2[At(mem, KD, 0)] = Tab(KD, 0)
      /\ mem2[At(mem, KD, 0)] = mem[At(mem, KD, 0)]
  BY <1>0, <1>3, <1>6, <1>7, RolesDiffer
<1>10. Shared(mem2, E \cup {x}, R2)
  <2>1. mem2[KD] = mem[KD]
    BY <1>0, <1>5
  <2>2. \A e \in E \cup {x} : \A k \in DOMAIN mem[KD] : k \in DOMAIN mem2[e] /\ mem2[e][k] = mem[KD][k]
    BY <1>5, <1>6
  <2>3. QED
    BY <1>6, <1>9, <2>1, <2>2 DEF Shared
<1>11. Identity(mem2, E \cup {x}, R2)
  <2>1. \A g \in Low : R[g] = Dir => R2[g] = Dir /\ g # x
    BY <1>3, RolesDiffer, FramesAre
  <2>2. QED
    BY <1>9, <2>1 DEF Spaces, Identity
<1>12. ASSUME NEW e \in E \cup {x}, NEW k \in Own(mem2, e)
       PROVE  /\ At(mem2, e, k) \in Low /\ R2[At(mem2, e, k)] = Tab(e, k)
              /\ mem2[e][k].user = UserOf(e)
              /\ \A l \in DOMAIN mem2[At(mem2, e, k)] :
                   /\ R2[mem2[At(mem2, e, k)][l].frame] = Page(e, k * TableSize + l)
                   /\ mem2[At(mem2, e, k)][l].user = UserOf(e)
  <2>1. e \in E /\ k \in Own(mem, e) /\ At(mem2, e, k) = At(mem, e, k) /\ mem2[e][k] = mem[e][k]
    BY <1>5, <1>7, <1>8
  <2>2. /\ At(mem, e, k) \in Low /\ R[At(mem, e, k)] = Tab(e, k) /\ mem[e][k].user = UserOf(e)
        /\ \A l \in DOMAIN mem[At(mem, e, k)] :
             /\ R[mem[At(mem, e, k)][l].frame] = Page(e, k * TableSize + l)
             /\ mem[At(mem, e, k)][l].user = UserOf(e)
    BY <2>1 DEF Spaces, OwnTables
  <2>3. At(mem, e, k) \in Frames /\ mem2[At(mem, e, k)] = mem[At(mem, e, k)]
        /\ R2[At(mem, e, k)] = Tab(e, k)
    BY <1>3, <2>2, FramesAre, RolesDiffer
  <2>4. \A l \in DOMAIN mem[At(mem, e, k)] : mem[At(mem, e, k)][l].frame \in Frames
    <3>1. mem[At(mem, e, k)] \in Contents
      BY <2>3 DEF Spaces
    <3>2. QED
      BY <3>1, TableIs
  <2>5. \A l \in DOMAIN mem[At(mem, e, k)] :
          R2[mem[At(mem, e, k)][l].frame] = Page(e, k * TableSize + l)
    BY <1>3, <2>2, <2>4, RolesDiffer
  <2>6. QED
    BY <2>1, <2>2, <2>3, <2>5
<1>13. OwnTables(mem2, E \cup {x}, R2)
  BY <1>12 DEF OwnTables
<1>14. QED
  BY <1>2, <1>4, <1>8, <1>10, <1>11, <1>13 DEF Spaces

\* Entries vanish from a table.
Shrunk(mem, mem2, t) ==
  /\ mem2 \in [Frames -> Contents] /\ DOMAIN mem2[t] \subseteq DOMAIN mem[t]
  /\ \A k \in DOMAIN mem2[t] : mem2[t][k] = mem[t][k]
  /\ \A g \in Frames : g # t => mem2[g] = mem[g]

\* A page of a program is not mapped any more.
LEMMA PageRemoved ==
  ASSUME NEW b, NEW mem, NEW E, NEW R, Spaces(b, mem, E, R), NEW d \in E, NEW i \in Own(mem, d),
         NEW t, t = At(mem, d, i), NEW mem2, Shrunk(mem, mem2, t)
  PROVE  /\ Spaces(b, mem2, E, R)
         /\ \A e \in E : mem2[e] = mem[e]
         /\ mem2[At(mem, KD, 0)] = mem[At(mem, KD, 0)]
         /\ \A e \in E : \A k \in Own(mem, e) : e # d => mem2[At(mem, e, k)] = mem[At(mem, e, k)]
<1>1. /\ t \in Frames /\ t \notin E /\ t # At(mem, KD, 0) /\ KD \in E /\ At(mem, KD, 0) \in Frames
      /\ \A e \in E : e \in Frames
  BY MembersAre, TablesApart
<1>2. /\ mem2 \in [Frames -> Contents] /\ DOMAIN mem2[t] \subseteq DOMAIN mem[t]
      /\ \A k \in DOMAIN mem2[t] : mem2[t][k] = mem[t][k]
      /\ \A g \in Frames : g # t => mem2[g] = mem[g]
  BY DEF Shrunk
<1>3. (\A e \in E : mem2[e] = mem[e]) /\ mem2[At(mem, KD, 0)] = mem[At(mem, KD, 0)]
  BY <1>1, <1>2
<1>4. /\ \A e \in E : Own(mem2, e) = Own(mem, e)
      /\ \A e \in E : \A k : At(mem2, e, k) = At(mem, e, k)
  BY <1>3 DEF Own, At
<1>5. Shared(mem2, E, R)
  BY <1>1, <1>3, <1>4 DEF Spaces, Shared
<1>6. Identity(mem2, E, R)
  BY <1>1, <1>3, <1>4 DEF Spaces, Identity
<1>7. ASSUME NEW e \in E, NEW k \in Own(mem, e)
      PROVE  /\ e # d => mem2[At(mem, e, k)] = mem[At(mem, e, k)]
             /\ \A l \in DOMAIN mem2[At(mem, e, k)] :
                  l \in DOMAIN mem[At(mem, e, k)] /\ mem2[At(mem, e, k)][l] = mem[At(mem, e, k)][l]
  <2>1. At(mem, e, k) \in Frames
    BY MembersAre
  <2>2. QED
    BY <1>2, <2>1, TablesApart
<1>8. OwnTables(mem2, E, R)
  <2>1. ASSUME NEW e \in E, NEW k \in Own(mem2, e)
        PROVE  /\ At(mem2, e, k) \in Low /\ R[At(mem2, e, k)] = Tab(e, k)
               /\ mem2[e][k].user = UserOf(e)
               /\ \A l \in DOMAIN mem2[At(mem2, e, k)] :
                    /\ R[mem2[At(mem2, e, k)][l].frame] = Page(e, k * TableSize + l)
                    /\ mem2[At(mem2, e, k)][l].user = UserOf(e)
    <3>1. k \in Own(mem, e) /\ At(mem2, e, k) = At(mem, e, k) /\ mem2[e][k] = mem[e][k]
      BY <1>3, <1>4
    <3>2. /\ At(mem, e, k) \in Low /\ R[At(mem, e, k)] = Tab(e, k) /\ mem[e][k].user = UserOf(e)
          /\ \A l \in DOMAIN mem[At(mem, e, k)] :
               /\ R[mem[At(mem, e, k)][l].frame] = Page(e, k * TableSize + l)
               /\ mem[At(mem, e, k)][l].user = UserOf(e)
      BY <3>1 DEF Spaces, OwnTables
    <3>3. QED
      BY <1>7, <3>1, <3>2
  <2>2. QED
    BY <2>1 DEF OwnTables
<1>9. QED
  BY <1>2, <1>3, <1>5, <1>6, <1>7, <1>8 DEF Spaces

\* The directory of a process that ended is not mapped any more.
Retired(mem, mem2, t, x) == Shrunk(mem, mem2, t) /\ DOMAIN mem2[t] = DOMAIN mem[t] \ {x}

LEMMA DirectoryRetired ==
  ASSUME NEW b, NEW mem, NEW E, NEW R, Spaces(b, mem, E, R), NEW x \in E, x # KD,
         NEW t, t = At(mem, KD, 0), NEW mem2, Retired(mem, mem2, t, x)
  PROVE  /\ Spaces(b, mem2, E \ {x}, R)
         /\ \A e \in E : mem2[e] = mem[e]
         /\ \A e \in E : \A k \in Own(mem, e) : mem2[At(mem, e, k)] = mem[At(mem, e, k)]
<1>1. /\ t \in Frames /\ t \notin E /\ KD \in E /\ x \in Low /\ R[x] = Dir
      /\ \A e \in E : e \in Frames
      /\ \A e \in E : \A k \in Own(mem, e) : At(mem, e, k) # t /\ At(mem, e, k) \in Frames
  <2>1. t \in Frames /\ t \notin E /\ KD \in E /\ \A e \in E : e \in Frames
    BY MembersAre
  <2>2. x \in Low /\ R[x] = Dir
    BY DEF Spaces, Reserved
  <2>3. ASSUME NEW e \in E, NEW k \in Own(mem, e)
        PROVE  At(mem, e, k) # t /\ At(mem, e, k) \in Frames
    BY MembersAre, TablesApart
  <2>4. QED
    BY <2>1, <2>2, <2>3
<1>2. /\ mem2 \in [Frames -> Contents] /\ DOMAIN mem2[t] = DOMAIN mem[t] \ {x}
      /\ \A k \in DOMAIN mem2[t] : mem2[t][k] = mem[t][k]
      /\ \A g \in Frames : g # t => mem2[g] = mem[g]
  BY DEF Retired, Shrunk
<1>3. (\A e \in E : mem2[e] = mem[e])
      /\ \A e \in E : \A k \in Own(mem, e) : mem2[At(mem, e, k)] = mem[At(mem, e, k)]
  BY <1>1, <1>2
<1>4. /\ \A e \in E : Own(mem2, e) = Own(mem, e)
      /\ \A e \in E : \A k : At(mem2, e, k) = At(mem, e, k)
  BY <1>3 DEF Own, At
<1>5. Reserved(b, E \ {x}, R)
  BY <1>1 DEF Spaces, Reserved
<1>6. Shared(mem2, E \ {x}, R)
  BY <1>1, <1>3, <1>4 DEF Spaces, Shared
<1>7. Identity(mem2, E \ {x}, R)
  <2>1. At(mem2, KD, 0) = t
    BY <1>1, <1>4
  <2>2. /\ \A f \in DOMAIN mem[t] : mem[t][f] = Entry(f, FALSE)
        /\ \A f \in Low \ DOMAIN mem[t] : f \notin E /\ R[f] = Dir
    BY DEF Spaces, Identity
  <2>3. QED
    BY <1>1, <1>2, <2>1, <2>2 DEF Identity
<1>8. OwnTables(mem2, E \ {x}, R)
  <2>1. ASSUME NEW e \in E \ {x}, NEW k \in Own(mem2, e)
        PROVE  /\ At(mem2, e, k) \in Low /\ R[At(mem2, e, k)] = Tab(e, k)
               /\ mem2[e][k].user = UserOf(e)
               /\ \A l \in DOMAIN mem2[At(mem2, e, k)] :
                    /\ R[mem2[At(mem2, e, k)][l].frame] = Page(e, k * TableSize + l)
                    /\ mem2[At(mem2, e, k)][l].user = UserOf(e)
    <3>1. /\ k \in Own(mem, e) /\ At(mem2, e, k) = At(mem, e, k) /\ mem2[e][k] = mem[e][k]
          /\ mem2[At(mem, e, k)] = mem[At(mem, e, k)]
      BY <1>3, <1>4
    <3>2. /\ At(mem, e, k) \in Low /\ R[At(mem, e, k)] = Tab(e, k) /\ mem[e][k].user = UserOf(e)
          /\ \A l \in DOMAIN mem[At(mem, e, k)] :
               /\ R[mem[At(mem, e, k)][l].frame] = Page(e, k * TableSize + l)
               /\ mem[At(mem, e, k)][l].user = UserOf(e)
      BY <3>1 DEF Spaces, OwnTables
    <3>3. QED
      BY <3>1, <3>2
  <2>2. QED
    BY <2>1 DEF OwnTables
<1>9. QED
  BY <1>2, <1>3, <1>5, <1>6, <1>7, <1>8 DEF Spaces

-----------------------------------------------------------------------------
(* The machine *)

Machines == [bitmap : SUBSET Frames, memory : [Frames -> Contents], cr3 : Frames,
             cached : SUBSET (Nat \X Frames), stray : BOOLEAN]

Spaced(m, E, R) ==
  m \in Machines /\ ~m.stray /\ m.cr3 \in E /\ Spaces(m.bitmap, m.memory, E, R)

\* What a machine has.
LEMMA MachineHas ==
  ASSUME NEW m \in Machines
  PROVE  /\ m.bitmap \subseteq Frames /\ m.memory \in [Frames -> Contents] /\ m.cr3 \in Frames
         /\ m.cached \subseteq Nat \X Frames /\ m.stray \in BOOLEAN
  BY DEF Machines

\* An entry of a directory is one of its own or one of the kernel's.
LEMMA EntryOf ==
  ASSUME NEW b, NEW mem, NEW E, NEW R, Spaces(b, mem, E, R), NEW d \in E, NEW i \in DOMAIN mem[d]
  PROVE  /\ \/ i = 0 /\ mem[d][i] = mem[KD][0]
            \/ i \in Own(mem, d)
            \/ i = HI /\ HI \in Own(mem, KD) /\ mem[d][i] = mem[KD][HI]
         /\ At(mem, d, i) \in Low /\ At(mem, d, i) \in Frames
         /\ R[At(mem, d, i)] \notin {Free, Other, Dir}
<1>1. /\ 0 \in DOMAIN mem[KD] /\ DOMAIN mem[KD] \subseteq {0, HI}
      /\ E # {KD} => HI \in DOMAIN mem[KD]
      /\ \A k \in DOMAIN mem[KD] : mem[d][k] = mem[KD][k]
      /\ At(mem, KD, 0) \in Low /\ R[At(mem, KD, 0)] = Tab(KD, 0)
      /\ KD \in E
  BY DEF Spaces, Shared, Reserved
<1>2. \A e \in E : \A k \in Own(mem, e) : At(mem, e, k) \in Low /\ R[At(mem, e, k)] = Tab(e, k)
  BY DEF Spaces, OwnTables
<1>3. CASE i = 0
  <2>1. mem[d][i] = mem[KD][0] /\ At(mem, d, i) = At(mem, KD, 0)
    BY <1>1, <1>3 DEF At
  <2>2. QED
    BY <1>1, <1>3, <2>1, RolesDiffer, FramesAre
<1>4. CASE i \in Own(mem, d)
  BY <1>2, <1>4, RolesDiffer, FramesAre
<1>5. CASE i # 0 /\ i \notin Own(mem, d)
  <2>1. i = HI /\ d # KD
    BY <1>1, <1>5 DEF Own
  <2>2. HI \in Own(mem, KD)
    BY <1>1, <1>5, <2>1, Regions DEF Own
  <2>3. mem[d][i] = mem[KD][HI] /\ At(mem, d, i) = At(mem, KD, HI)
    BY <1>1, <2>1, <2>2 DEF At, Own
  <2>4. At(mem, KD, HI) \in Low /\ R[At(mem, KD, HI)] = Tab(KD, HI)
    BY <1>1, <1>2, <2>2
  <2>5. QED
    BY <2>1, <2>2, <2>3, <2>4, RolesDiffer, FramesAre
<1>6. QED
  BY <1>3, <1>4, <1>5

\* Where the identity mapping leads.
LEMMA IdentityIs ==
  ASSUME NEW b, NEW mem, NEW E, NEW R, Spaces(b, mem, E, R), NEW d \in E, NEW f \in Low
  PROVE  /\ Table(mem, d, f) = At(mem, KD, 0)
         /\ Mapped(mem, d, f) <=> f \in DOMAIN mem[At(mem, KD, 0)]
         /\ f \in DOMAIN mem[At(mem, KD, 0)] => FrameOf(mem, d, f) = f
         /\ f \in E \/ R[f] # Dir => Mapped(mem, d, f) /\ FrameOf(mem, d, f) = f
<1>1. DirectoryIndex(f) = 0 /\ TableIndex(f) = f
  BY Regions, FramesAre
<1>2. 0 \in DOMAIN mem[d] /\ mem[d][0] = mem[KD][0]
  BY DEF Spaces, Shared
<1>3. /\ \A g \in DOMAIN mem[At(mem, KD, 0)] : mem[At(mem, KD, 0)][g] = Entry(g, FALSE)
      /\ \A g \in Low \ DOMAIN mem[At(mem, KD, 0)] : g \notin E /\ R[g] = Dir
  BY DEF Spaces, Identity
<1>4. Table(mem, d, f) = At(mem, KD, 0)
  BY <1>1, <1>2 DEF Table, At
<1>5. Mapped(mem, d, f) <=> f \in DOMAIN mem[At(mem, KD, 0)]
  BY <1>1, <1>2, <1>4 DEF Mapped
<1>6. ASSUME f \in DOMAIN mem[At(mem, KD, 0)] PROVE FrameOf(mem, d, f) = f
  <2>1. mem[At(mem, KD, 0)][f] = Entry(f, FALSE)
    BY <1>3, <1>6
  <2>2. FrameOf(mem, d, f) = mem[At(mem, KD, 0)][f].frame
    BY <1>1, <1>4 DEF FrameOf
  <2>3. QED
    BY <2>1, <2>2 DEF Entry
<1>7. QED
  BY <1>3, <1>4, <1>5, <1>6

\* The kernel reaches all of it that is not a directory out of use.
LEMMA Reached ==
  ASSUME NEW m, NEW E, NEW R, Spaced(m, E, R), NEW f \in Low, f \in E \/ R[f] # Dir
  PROVE  Reaches(m, f) /\ Access(m, f) = m
<1>1. Reaches(m, f)
  BY IdentityIs DEF Spaced, Reaches
<1>2. m \in Machines /\ m.stray = FALSE
  BY DEF Spaced, Machines
<1>3. Access(m, f) = m
  BY <1>1, <1>2 DEF Access, Machines
<1>4. QED
  BY <1>1, <1>3

\* A store there changes that frame.
LEMMA StoreIs ==
  ASSUME NEW m, NEW E, NEW R, Spaced(m, E, R), NEW f \in Low, f \in E \/ R[f] # Dir,
         NEW t \in Contents
  PROVE  /\ Store(m, f, t) \in Machines /\ Store(m, f, t).bitmap = m.bitmap
         /\ Store(m, f, t).memory = [m.memory EXCEPT ![f] = t]
         /\ Store(m, f, t).cr3 = m.cr3 /\ Store(m, f, t).cached = m.cached
         /\ ~Store(m, f, t).stray
<1>1. Access(m, f) = m
  BY Reached
<1>2. m \in Machines /\ ~m.stray
  BY DEF Spaced
<1>3. Store(m, f, t) = [m EXCEPT !.memory[f] = t]
  BY <1>1 DEF Store
<1>4. m.memory \in [Frames -> Contents]
  BY <1>2, MachineHas
<1>5. [m.memory EXCEPT ![f] = t] \in [Frames -> Contents]
  BY <1>4
<1>6. QED
  BY <1>2, <1>3, <1>5 DEF Machines

\* What alloc_frame takes while frames of the identity mapping are free.
LEMMA AllocIs ==
  ASSUME NEW m, NEW E, NEW R, Spaced(m, E, R), Left(m.bitmap) > 0,
         NEW f, f = FirstFree(m), NEW a, a = alloc_frame(m)
  PROVE  /\ f \in Low /\ f \in Frames /\ f \notin m.bitmap /\ f # 0 /\ R[f] = Free
         /\ Spaced(a, E, R) /\ a.bitmap = m.bitmap \cup {f} /\ a.memory = m.memory
         /\ a.cr3 = m.cr3 /\ a.cached = m.cached /\ Left(a.bitmap) = Left(m.bitmap) - 1
<1>1. /\ m \in Machines /\ ~m.stray /\ m.cr3 \in E /\ Spaces(m.bitmap, m.memory, E, R)
      /\ m.bitmap \subseteq Frames
  BY MachineHas DEF Spaced
<1>2. Low \ m.bitmap # {} /\ Low \subseteq Frames /\ Frames \subseteq Nat
  BY LeftCounts, FramesAre
<1>3. f = Min(Frames \ m.bitmap)
  BY <1>2 DEF FirstFree
<1>4. f \in Frames \ m.bitmap /\ \A g \in Frames \ m.bitmap : f <= g
  <2>1. Frames \ m.bitmap \subseteq Nat /\ Frames \ m.bitmap # {}
    BY <1>2
  <2>2. QED
    BY <1>3, <2>1, MinIn
<1>5. f \in Low
  <2>1. PICK g \in Low : g \notin m.bitmap
    BY <1>2
  <2>2. f <= g /\ g < TableSize /\ f \in Nat /\ g \in Nat /\ TableSize \in Nat
    BY <1>2, <1>4, <2>1, FramesAre, PagingAssumption
  <2>3. f < TableSize
    BY <2>2
  <2>4. QED
    BY <2>2, <2>3, FramesAre
<1>6. R[f] = Free /\ R[0] = Other
  BY <1>1, <1>4 DEF Spaces, Reserved
<1>7. /\ a \in Machines /\ a.bitmap = m.bitmap \cup {f} /\ a.memory = m.memory
      /\ a.cr3 = m.cr3 /\ a.cached = m.cached /\ a.stray = m.stray
  <2>1. m.bitmap \cup {f} \subseteq Frames
    BY <1>1, <1>4
  <2>2. a = [m EXCEPT !.bitmap = m.bitmap \cup {f}]
    BY DEF alloc_frame
  <2>3. QED
    BY <1>1, <2>1, <2>2 DEF Machines
<1>8. Spaces(a.bitmap, a.memory, E, R)
  <2>1. Reserved(a.bitmap, E, R)
    BY <1>1, <1>7 DEF Spaces, Reserved
  <2>2. QED
    BY <1>1, <1>4, <1>7, <2>1 DEF Spaces
<1>9. Left(a.bitmap) = Left(m.bitmap) - 1
  BY <1>4, <1>5, <1>7, LeftCounts
<1>10. QED
  BY <1>1, <1>4, <1>5, <1>6, <1>7, <1>8, <1>9, RolesDiffer DEF Spaced

-----------------------------------------------------------------------------
(* What is kept when memory changes *)

Kept(mem, mem2, g) ==
  \A j \in DOMAIN mem[g] : j \in DOMAIN mem2[g] /\ mem2[g][j] = mem[g][j]

KeptAt(mem, mem2, d, i) ==
  i \in DOMAIN mem2[d] /\ mem2[d][i] = mem[d][i] /\ Kept(mem, mem2, At(mem, d, i))

Grows(mem, mem2, E) == \A d \in E : \A i \in DOMAIN mem[d] : KeptAt(mem, mem2, d, i)

\* It is enough to leave what is in use alone.
LEMMA GrowsWhen ==
  ASSUME NEW b, NEW mem, NEW E, NEW R, Spaces(b, mem, E, R), NEW mem2,
         \A g \in Frames : R[g] # Free => Kept(mem, mem2, g)
  PROVE  Grows(mem, mem2, E)
<1>1. \A d \in E : d \in Frames /\ R[d] # Free
  BY FramesAre, RolesDiffer DEF Spaces, Reserved
<1>2. ASSUME NEW d \in E, NEW i \in DOMAIN mem[d] PROVE KeptAt(mem, mem2, d, i)
  <2>1. Kept(mem, mem2, d)
    BY <1>1
  <2>2. At(mem, d, i) \in Frames /\ R[At(mem, d, i)] # Free
    BY EntryOf
  <2>3. Kept(mem, mem2, At(mem, d, i))
    BY <2>2
  <2>4. QED
    BY <2>1, <2>3 DEF Kept, KeptAt
<1>3. QED
  BY <1>2 DEF Grows

\* It may grow again.
LEMMA GrowsOn ==
  ASSUME NEW mem, NEW mem2, NEW mem3, NEW E, Grows(mem, mem2, E), Grows(mem2, mem3, E)
  PROVE  Grows(mem, mem3, E)
<1>1. ASSUME NEW d \in E, NEW i \in DOMAIN mem[d] PROVE KeptAt(mem, mem3, d, i)
  <2>1. KeptAt(mem, mem2, d, i)
    BY DEF Grows
  <2>2. i \in DOMAIN mem2[d] /\ mem2[d][i] = mem[d][i] /\ Kept(mem, mem2, At(mem, d, i))
    BY <2>1 DEF KeptAt
  <2>3. KeptAt(mem2, mem3, d, i)
    BY <2>2 DEF Grows
  <2>4. At(mem2, d, i) = At(mem, d, i)
    BY <2>2 DEF At
  <2>5. i \in DOMAIN mem3[d] /\ mem3[d][i] = mem[d][i] /\ Kept(mem2, mem3, At(mem, d, i))
    BY <2>2, <2>3, <2>4 DEF KeptAt
  <2>6. Kept(mem, mem3, At(mem, d, i))
    BY <2>2, <2>5 DEF Kept
  <2>7. QED
    BY <2>5, <2>6 DEF KeptAt
<1>2. QED
  BY <1>1 DEF Grows

\* Staying the same is a way to grow.
LEMMA GrowsNot == \A mem, E : Grows(mem, mem, E)
  BY DEF Grows, KeptAt, Kept

\* The pages that a space maps are those its walk finds.
LEMMA PagesFound ==
  ASSUME NEW mem \in [Frames -> Contents], NEW d \in Frames, NEW v
  PROVE  v \in MappedPages(mem, d) <=> v \in Nat /\ Mapped(mem, d, v)
<1>1. ASSUME v \in MappedPages(mem, d) PROVE v \in Nat /\ Mapped(mem, d, v)
  <2>1. PICK i \in DOMAIN mem[d] : \E j \in DOMAIN mem[mem[d][i].frame] : v = i * TableSize + j
    BY <1>1 DEF MappedPages
  <2>2. PICK j \in DOMAIN mem[mem[d][i].frame] : v = i * TableSize + j
    BY <2>1
  <2>3. i \in Nat /\ j \in Low
    BY EntriesTyped DEF At
  <2>4. v \in Nat /\ DirectoryIndex(v) = i /\ TableIndex(v) = j
    BY <2>2, <2>3, PageAt
  <2>5. QED
    BY <2>4 DEF Mapped, Table
<1>2. ASSUME v \in Nat, Mapped(mem, d, v) PROVE v \in MappedPages(mem, d)
  <2> DEFINE i == DirectoryIndex(v)
             j == TableIndex(v)
  <2>1. v = i * TableSize + j
    BY <1>2, Divided
  <2>2. i \in DOMAIN mem[d] /\ j \in DOMAIN mem[mem[d][i].frame]
    BY <1>2 DEF Mapped, Table
  <2> HIDE DEF i, j
  <2>3. QED
    BY <2>1, <2>2 DEF MappedPages
<1>3. QED
  BY <1>1, <1>2

\* A translation is a page and a frame.
LEMMA TranslationsAre ==
  ASSUME NEW mem \in [Frames -> Contents], NEW d \in Frames
  PROVE  Translations(mem, d) \subseteq Nat \X Frames
<1>1. ASSUME NEW v \in MappedPages(mem, d) PROVE v \in Nat /\ FrameOf(mem, d, v) \in Frames
  <2>1. v \in Nat /\ Mapped(mem, d, v)
    BY PagesFound
  <2>2. DirectoryIndex(v) \in DOMAIN mem[d] /\ TableIndex(v) \in DOMAIN mem[At(mem, d, DirectoryIndex(v))]
    BY <2>1 DEF Mapped, Table, At
  <2>3. mem[At(mem, d, DirectoryIndex(v))][TableIndex(v)].frame \in Frames
    BY <2>2, EntriesTyped
  <2>4. QED
    BY <2>1, <2>3 DEF FrameOf, Table, At
<1>2. QED
  BY <1>1 DEF Translations

\* What is mapped stays mapped, to the same frame and for the same reader.
LEMMA WalkKept ==
  ASSUME NEW mem, NEW mem2, NEW d, NEW v, Mapped(mem, d, v),
         KeptAt(mem, mem2, d, DirectoryIndex(v))
  PROVE  /\ Mapped(mem2, d, v) /\ FrameOf(mem2, d, v) = FrameOf(mem, d, v)
         /\ UserPage(mem2, d, v) <=> UserPage(mem, d, v)
<1> DEFINE i == DirectoryIndex(v)
           j == TableIndex(v)
<1>1. i \in DOMAIN mem[d] /\ j \in DOMAIN mem[At(mem, d, i)]
  BY DEF Mapped, Table, At
<1>2. i \in DOMAIN mem2[d] /\ mem2[d][i] = mem[d][i] /\ At(mem2, d, i) = At(mem, d, i)
  BY DEF KeptAt, At
<1>3. j \in DOMAIN mem2[At(mem, d, i)] /\ mem2[At(mem, d, i)][j] = mem[At(mem, d, i)][j]
  BY <1>1 DEF KeptAt, Kept
<1>4. Table(mem2, d, v) = At(mem, d, i) /\ Table(mem, d, v) = At(mem, d, i)
  BY <1>2 DEF Table, At
<1>5. Mapped(mem2, d, v)
  BY <1>2, <1>3, <1>4 DEF Mapped
<1>6. FrameOf(mem2, d, v) = FrameOf(mem, d, v)
  BY <1>3, <1>4 DEF FrameOf
<1>7. UserPage(mem2, d, v) <=> UserPage(mem, d, v)
  BY <1>2, <1>3, <1>4, <1>5 DEF UserPage
<1>8. QED
  BY <1>5, <1>6, <1>7

LEMMA TranslationsKept ==
  ASSUME NEW mem \in [Frames -> Contents], NEW mem2 \in [Frames -> Contents], NEW E,
         Grows(mem, mem2, E), NEW d \in E, d \in Frames
  PROVE  Translations(mem, d) \subseteq Translations(mem2, d)
<1>1. ASSUME NEW v \in MappedPages(mem, d)
      PROVE  v \in MappedPages(mem2, d) /\ FrameOf(mem2, d, v) = FrameOf(mem, d, v)
  <2>1. v \in Nat /\ Mapped(mem, d, v)
    BY PagesFound
  <2>2. KeptAt(mem, mem2, d, DirectoryIndex(v))
    BY <2>1 DEF Grows, Mapped
  <2>3. QED
    BY <2>1, <2>2, WalkKept, PagesFound
<1>2. QED
  BY <1>1 DEF Translations

-----------------------------------------------------------------------------
(* The pages a directory maps through tables of its own *)

OwnMapped(mem, d) ==
  {v \in Nat : DirectoryIndex(v) \in Own(mem, d)
               /\ TableIndex(v) \in DOMAIN mem[At(mem, d, DirectoryIndex(v))]}

\* They are the program's, or the kernel's if the directory is.
LEMMA OwnMappedIs ==
  ASSUME NEW b, NEW mem, NEW E, NEW R, Spaces(b, mem, E, R), NEW d \in E, NEW v \in OwnMapped(mem, d)
  PROVE  /\ v \in Nat /\ v \in MappedPages(mem, d) /\ Mapped(mem, d, v)
         /\ FrameOf(mem, d, v) \in Frames /\ R[FrameOf(mem, d, v)] = Page(d, v)
         /\ UserPage(mem, d, v) <=> d # KD
<1> DEFINE i == DirectoryIndex(v)
           j == TableIndex(v)
<1>1. i \in Own(mem, d) /\ j \in DOMAIN mem[At(mem, d, i)] /\ v \in Nat /\ v = i * TableSize + j
  BY Divided DEF OwnMapped
<1>2. i \in DOMAIN mem[d] /\ Table(mem, d, v) = At(mem, d, i)
  BY <1>1 DEF Own, Table, At
<1>3. Mapped(mem, d, v)
  BY <1>1, <1>2 DEF Mapped
<1> HIDE DEF i, j
<1>4. /\ mem[d][i].user = UserOf(d) /\ R[mem[At(mem, d, i)][j].frame] = Page(d, v)
      /\ mem[At(mem, d, i)][j].user = UserOf(d)
  BY <1>1 DEF Spaces, OwnTables
<1>5. mem \in [Frames -> Contents] /\ d \in Frames
  BY MembersAre DEF Spaces
<1>6. mem[At(mem, d, i)][j].frame \in Frames
  BY <1>1, <1>2, <1>5, EntriesTyped
<1>7. FrameOf(mem, d, v) = mem[At(mem, d, i)][j].frame
  BY <1>2 DEF FrameOf, j
<1>8. UserPage(mem, d, v) <=> UserOf(d)
  BY <1>2, <1>3, <1>4 DEF UserPage, i, j
<1>9. QED
  BY <1>1, <1>3, <1>4, <1>5, <1>6, <1>7, <1>8, PagesFound DEF UserOf

\* They are the only pages a program may use.
LEMMA UsersPages ==
  ASSUME NEW b, NEW mem, NEW E, NEW R, Spaces(b, mem, E, R), NEW d \in E, NEW v \in Nat,
         UserPage(mem, d, v)
  PROVE  d # KD /\ v \in OwnMapped(mem, d)
<1> DEFINE i == DirectoryIndex(v)
<1>1. i \in DOMAIN mem[d] /\ mem[d][i].user /\ TableIndex(v) \in DOMAIN mem[At(mem, d, i)]
  BY DEF UserPage, Mapped, Table, At
<1>2. mem[KD][0].user = FALSE /\ (HI \in Own(mem, KD) => mem[KD][HI].user = UserOf(KD))
  BY DEF Spaces, Shared, OwnTables, Reserved
<1> HIDE DEF i
<1>3. i \in Own(mem, d)
  <2>1. \/ i = 0 /\ mem[d][i] = mem[KD][0]
        \/ i \in Own(mem, d)
        \/ i = HI /\ HI \in Own(mem, KD) /\ mem[d][i] = mem[KD][HI]
    BY <1>1, EntryOf
  <2>2. UserOf(KD) = FALSE
    BY DEF UserOf
  <2>3. QED
    BY <1>1, <1>2, <2>1, <2>2
<1>4. mem[d][i].user = UserOf(d)
  BY <1>3 DEF Spaces, OwnTables
<1>5. QED
  BY <1>1, <1>3, <1>4 DEF OwnMapped, UserOf, i

\* A directory nothing was done to maps what it did.
LEMMA OwnMappedSame ==
  ASSUME NEW mem, NEW mem2, NEW d, mem2[d] = mem[d],
         \A i \in Own(mem, d) : mem2[At(mem, d, i)] = mem[At(mem, d, i)]
  PROVE  Own(mem2, d) = Own(mem, d) /\ OwnMapped(mem2, d) = OwnMapped(mem, d)
<1>1. Own(mem2, d) = Own(mem, d) /\ \A i : At(mem2, d, i) = At(mem, d, i)
  BY DEF Own, At
<1>2. QED
  BY <1>1 DEF OwnMapped

-----------------------------------------------------------------------------
(* Mapping a page *)

\* What is the same after a directory got a table: everything but room for it.
Readied(m, n, E, d, i) ==
  /\ m.bitmap \subseteq n.bitmap /\ n.cr3 = m.cr3 /\ n.cached = m.cached
  /\ Grows(m.memory, n.memory, E) /\ i \in Own(n.memory, d)
  /\ \A e \in E : OwnMapped(n.memory, e) = OwnMapped(m.memory, e)

\* create_page_table gives a directory an empty table.
LEMMA TableCreated ==
  ASSUME NEW m, NEW E, NEW R, Spaced(m, E, R), Left(m.bitmap) > 0,
         NEW d \in E, NEW i, MayAdd(m.memory, E, d, i), i \notin DOMAIN m.memory[d],
         NEW n, n = create_page_table(m, d, i, UserOf(d))
  PROVE  \E R2 : /\ Spaced(n, E, R2) /\ \A g \in m.bitmap : R2[g] = R[g]
                 /\ Readied(m, n, E, d, i) /\ Left(n.bitmap) = Left(m.bitmap) - 1
<1>1. PICK t : t = FirstFree(m)
  OBVIOUS
<1>2. PICK a : a = alloc_frame(m)
  OBVIOUS
<1>3. /\ t \in Low /\ t \in Frames /\ t \notin m.bitmap /\ R[t] = Free
      /\ Spaced(a, E, R) /\ a.bitmap = m.bitmap \cup {t} /\ a.memory = m.memory
      /\ a.cr3 = m.cr3 /\ a.cached = m.cached /\ Left(a.bitmap) = Left(m.bitmap) - 1
  BY <1>1, <1>2, AllocIs
<1>4. PICK z : z = Store(a, t, NoEntries)
  OBVIOUS
<1>5. /\ z \in Machines /\ z.bitmap = a.bitmap /\ z.memory = [m.memory EXCEPT ![t] = NoEntries]
      /\ z.cr3 = m.cr3 /\ z.cached = m.cached /\ ~z.stray
  <2>1. R[t] # Dir
    BY <1>3, RolesDiffer
  <2>2. QED
    BY <1>3, <1>4, <2>1, StoreIs, NoEntriesIs
<1>6. /\ m.memory \in [Frames -> Contents] /\ m.cr3 \in E /\ m.bitmap \subseteq Frames
      /\ Spaces(a.bitmap, m.memory, E, R) /\ R \in [Frames -> Role]
  BY <1>3, MachineHas DEF Spaced, Spaces
<1>7. /\ z.memory \in [Frames -> Contents] /\ DOMAIN z.memory[t] = {}
      /\ \A g \in Frames : g # t => z.memory[g] = m.memory[g]
  BY <1>3, <1>5, <1>6, NoEntriesIs
<1>8. Spaced(z, E, R)
  <2>1. Spaces(a.bitmap, z.memory, E, R)
    BY <1>3, <1>6, <1>7, ZeroedUnseen
  <2>2. QED
    BY <1>5, <1>6, <2>1 DEF Spaced
<1>9. PICK e0 : e0 = Entry(t, UserOf(d))
  OBVIOUS
<1>10. e0 \in EntrySet /\ e0.frame = t /\ e0.user = UserOf(d)
  BY <1>3, <1>9 DEF Entry, EntrySet, UserOf
<1>11. n = Store(z, d, With(z.memory[d], i, e0))
  BY <1>1, <1>2, <1>4, <1>9 DEF create_page_table
<1>12. d \in Low /\ d \in Frames /\ i \in Low /\ i # 0 /\ (d # KD => i # HI) /\ d # t
  <2>1. d \in Low /\ R[d] = Dir
    BY <1>6 DEF Spaces, Reserved
  <2>2. QED
    BY <1>3, <2>1, Regions, FramesAre, RolesDiffer DEF MayAdd
<1>13. PICK w : w = With(z.memory[d], i, e0)
  OBVIOUS
<1>14. w \in Contents
  BY <1>7, <1>10, <1>12, <1>13, WithIs
<1>15. /\ n \in Machines /\ n.bitmap = a.bitmap
       /\ n.memory = [z.memory EXCEPT ![d] = w]
       /\ n.cr3 = m.cr3 /\ n.cached = m.cached /\ ~n.stray
  BY <1>5, <1>8, <1>11, <1>12, <1>13, <1>14, StoreIs
<1>16. Written(z.memory, n.memory, d, i, e0)
  BY <1>7, <1>10, <1>12, <1>13, <1>15, EntryWritten
<1>17. PICK R2 : R2 = [R EXCEPT ![t] = Tab(d, i)]
  OBVIOUS
<1>18. Given(R, R2, t, Tab(d, i))
  <2>1. Tab(d, i) \in Role
    BY <1>12, FramesAre, RolesAre
  <2>2. QED
    BY <1>3, <1>6, <1>17, <2>1 DEF Given
<1>19. z.memory[d] = m.memory[d]
  BY <1>7, <1>12
<1>20. Spaces(n.bitmap, n.memory, E, R2) /\ Own(n.memory, d) = Own(z.memory, d) \cup {i}
       /\ At(n.memory, d, i) = t
  <2>1. Spaces(a.bitmap, z.memory, E, R) /\ t \in a.bitmap
    BY <1>3, <1>5, <1>8 DEF Spaced
  <2>2. MayAdd(z.memory, E, d, i) /\ i \notin DOMAIN z.memory[d]
    BY <1>19 DEF MayAdd
  <2>3. QED
    BY <1>3, <1>7, <1>10, <1>15, <1>16, <1>18, <2>1, <2>2, TableAdded
<1>21. Spaced(n, E, R2)
  BY <1>6, <1>15, <1>20 DEF Spaced
<1>22. \A g \in m.bitmap : R2[g] = R[g]
  BY <1>3, <1>6, <1>17
<1>23. /\ \A g \in Frames : g # t /\ g # d => n.memory[g] = m.memory[g]
       /\ DOMAIN n.memory[t] = {} /\ \A k \in DOMAIN m.memory[d] : n.memory[d][k] = m.memory[d][k]
       /\ DOMAIN n.memory[d] = DOMAIN m.memory[d] \cup {i}
  BY <1>7, <1>12, <1>16, <1>19, <1>3 DEF Written
<1>24. Grows(m.memory, n.memory, E)
  <2>1. ASSUME NEW g \in Frames, R[g] # Free PROVE Kept(m.memory, n.memory, g)
    BY <1>3, <1>23, <2>1 DEF Kept
  <2>2. QED
    BY <1>6, <2>1, GrowsWhen
<1>25. ASSUME NEW e \in E PROVE OwnMapped(n.memory, e) = OwnMapped(m.memory, e)
  <2>1. \A k \in Own(m.memory, e) : /\ At(m.memory, e, k) \in Frames /\ At(m.memory, e, k) # t
                                    /\ At(m.memory, e, k) # d
    <3>1. ASSUME NEW k \in Own(m.memory, e)
          PROVE  At(m.memory, e, k) \in Frames /\ R[At(m.memory, e, k)] = Tab(e, k)
      BY <1>6, FramesAre DEF Spaces, OwnTables
    <3>2. R[d] = Dir
      BY <1>6 DEF Spaces, Reserved
    <3>3. QED
      BY <1>3, <3>1, <3>2, RolesDiffer
  <2>2. CASE e # d
    <3>1. e \in Frames /\ e # t
      BY <1>3, <1>6, FramesAre, RolesDiffer DEF Spaces, Reserved
    <3>2. n.memory[e] = m.memory[e]
      BY <1>23, <2>2, <3>1
    <3>3. \A k \in Own(m.memory, e) : n.memory[At(m.memory, e, k)] = m.memory[At(m.memory, e, k)]
      BY <1>23, <2>1
    <3>4. PICK old, new : old = m.memory /\ new = n.memory
      OBVIOUS
    <3>5. OwnMapped(new, e) = OwnMapped(old, e)
      BY <3>2, <3>3, <3>4, OwnMappedSame
    <3>6. QED
      BY <3>4, <3>5
  <2>3. CASE e = d
    <3>1. Own(n.memory, d) = Own(m.memory, d) \cup {i}
      BY <1>19, <1>20 DEF Own
    <3>2. \A k \in Own(m.memory, d) : /\ k # i /\ At(n.memory, d, k) = At(m.memory, d, k)
                                      /\ n.memory[At(m.memory, d, k)] = m.memory[At(m.memory, d, k)]
      BY <1>23, <2>1, <2>3 DEF Own, At
    <3>3. QED
      BY <1>20, <1>23, <2>3, <3>1, <3>2 DEF OwnMapped
  <2>4. QED
    BY <2>2, <2>3
<1>26. Readied(m, n, E, d, i)
  BY <1>3, <1>15, <1>20, <1>24, <1>25 DEF Readied
<1>27. QED
  BY <1>3, <1>15, <1>21, <1>22, <1>26

\* The entry of a page is written; its table is there.
LEMMA PagePut ==
  ASSUME NEW n, NEW E, NEW R, Spaced(n, E, R), NEW d \in E, NEW v \in Nat,
         DirectoryIndex(v) \in Own(n.memory, d), v \notin OwnMapped(n.memory, d),
         NEW f \in n.bitmap, R[f] = Free, f # 0,
         NEW t, t = At(n.memory, d, DirectoryIndex(v)), NEW r,
         r = Cache(Flush(Store(n, t, With(n.memory[t], TableIndex(v), Entry(f, UserOf(d)))), d, v))
  PROVE  \E R2 : /\ Spaced(r, E, R2) /\ r.bitmap = n.bitmap /\ r.cr3 = n.cr3
                 /\ r.cached \subseteq n.cached \cup Translations(r.memory, r.cr3)
                 /\ Grows(n.memory, r.memory, E)
                 /\ OwnMapped(r.memory, d) = OwnMapped(n.memory, d) \cup {v}
                 /\ \A e \in E : e # d => OwnMapped(r.memory, e) = OwnMapped(n.memory, e)
<1> DEFINE i == DirectoryIndex(v)
           j == TableIndex(v)
<1>1. i \in Nat /\ j \in Low /\ v = i * TableSize + j
  BY Divided
<1>2. PICK mem : mem = n.memory
  OBVIOUS
<1>3. /\ mem \in [Frames -> Contents] /\ n.cr3 \in E /\ n.bitmap \subseteq Frames /\ n \in Machines
      /\ Spaces(n.bitmap, mem, E, R) /\ R \in [Frames -> Role] /\ n.cached \subseteq Nat \X Frames
  BY <1>2, MachineHas DEF Spaced, Spaces
<1>4. i \in Own(mem, d) /\ t = At(mem, d, i)
  BY <1>2
<1>5. j \notin DOMAIN mem[t]
  BY <1>2, <1>4 DEF OwnMapped
<1>6. t \in Low /\ t \in Frames /\ R[t] = Tab(d, i) /\ mem[t] \in Contents /\ d \in Nat
      /\ d \in Frames /\ t \notin E
  <2> HIDE DEF i
  <2>1. t \in Low /\ t \in Frames /\ mem[t] \in Contents /\ d \in Nat /\ d \in Frames
    BY <1>3, <1>4, MembersAre
  <2>2. R[t] = Tab(d, i)
    BY <1>3, <1>4 DEF Spaces, OwnTables
  <2>3. t \notin E
    BY <1>3, <1>4, TablesApart
  <2>4. QED
    BY <2>1, <2>2, <2>3
<1>7. PICK e0 : e0 = Entry(f, UserOf(d))
  OBVIOUS
<1>8. e0 \in EntrySet /\ e0.frame = f /\ e0.user = UserOf(d)
  BY <1>3, <1>7 DEF Entry, EntrySet, UserOf
<1>9. PICK w : w = With(mem[t], j, e0)
  OBVIOUS
<1>10. w \in Contents
  BY <1>1, <1>6, <1>8, <1>9, WithIs
<1>11. PICK s : s = Store(n, t, w)
  OBVIOUS
<1> HIDE DEF i, j
<1>12. /\ s \in Machines /\ s.bitmap = n.bitmap /\ s.memory = [mem EXCEPT ![t] = w]
       /\ s.cr3 = n.cr3 /\ s.cached = n.cached /\ ~s.stray
  <2>1. R[t] # Dir
    BY <1>6, RolesDiffer
  <2>2. QED
    BY <1>2, <1>6, <1>10, <1>11, <2>1, StoreIs
<1>13. r = Cache(Flush(s, d, v))
  BY <1>2, <1>7, <1>9, <1>11 DEF j
<1>14. PICK u : u = Flush(s, d, v)
  OBVIOUS
<1>15. /\ u \in Machines /\ u.bitmap = n.bitmap /\ u.memory = s.memory /\ u.cr3 = n.cr3
       /\ u.cached \subseteq n.cached /\ ~u.stray
  <2>1. {c \in s.cached : c[1] # v} \subseteq n.cached
    BY <1>12
  <2>2. CASE d = kernel_directory
    <3>1. u = [s EXCEPT !.cached = {c \in s.cached : c[1] # v}]
      BY <1>14, <2>2 DEF Flush
    <3>2. PICK C : C = {c \in s.cached : c[1] # v}
      OBVIOUS
    <3>3. C \subseteq Nat \X Frames /\ C \subseteq n.cached
      BY <1>3, <2>1, <3>2
    <3>4. u = [s EXCEPT !.cached = C]
      BY <3>1, <3>2
    <3>5. QED
      BY <1>12, <3>3, <3>4 DEF Machines
  <2>3. CASE d # kernel_directory
    BY <1>12, <1>14, <2>3 DEF Flush
  <2>4. QED
    BY <2>2, <2>3
<1>16. PICK T : T = Translations(s.memory, n.cr3)
  OBVIOUS
<1>17. /\ r \in Machines /\ r.bitmap = n.bitmap /\ r.memory = s.memory /\ r.cr3 = n.cr3
       /\ r.cached = u.cached \cup T /\ ~r.stray
  <2>1. T \subseteq Nat \X Frames
    BY <1>3, <1>12, <1>16, TranslationsAre, MachineHas
  <2>2. r = [u EXCEPT !.cached = u.cached \cup T]
    BY <1>13, <1>14, <1>15, <1>16 DEF Cache
  <2>3. u.cached \subseteq Nat \X Frames
    BY <1>3, <1>15
  <2>4. QED
    BY <1>15, <2>1, <2>2, <2>3 DEF Machines
<1>18. PICK mem2 : mem2 = r.memory
  OBVIOUS
<1>19. Written(mem, mem2, t, j, e0)
  BY <1>1, <1>3, <1>6, <1>8, <1>9, <1>12, <1>17, <1>18, EntryWritten
<1>20. PICK R2 : R2 = [R EXCEPT ![f] = Page(d, v)]
  OBVIOUS
<1>21. Given(R, R2, f, Page(d, i * TableSize + j))
  <2>1. Page(d, v) \in Role
    BY <1>6, RolesAre
  <2>2. QED
    BY <1>1, <1>3, <1>20, <2>1 DEF Given
<1>22. Spaces(n.bitmap, mem2, E, R2)
  BY <1>1, <1>3, <1>4, <1>8, <1>19, <1>21, PageAdded
<1>23. Spaced(r, E, R2)
  BY <1>3, <1>17, <1>18, <1>22 DEF Spaced
<1>24. /\ DOMAIN mem2[t] = DOMAIN mem[t] \cup {j}
       /\ \A k \in DOMAIN mem[t] : mem2[t][k] = mem[t][k]
       /\ \A g \in Frames : g # t => mem2[g] = mem[g]
  BY <1>5, <1>19 DEF Written
<1>25. Grows(mem, mem2, E)
  <2>1. ASSUME NEW g \in Frames PROVE Kept(mem, mem2, g)
    BY <1>24 DEF Kept
  <2>2. QED
    BY <1>3, <2>1, GrowsWhen
<1>26. \A e \in E : mem2[e] = mem[e] /\ Own(mem2, e) = Own(mem, e)
  <2>1. \A e \in E : e \in Frames /\ e # t
    BY <1>3, <1>6, FramesAre DEF Spaces, Reserved
  <2>2. QED
    BY <1>24, <2>1 DEF Own
<1>27. ASSUME NEW e \in E, NEW k \in Own(mem, e)
       PROVE  /\ At(mem, e, k) \in Frames /\ At(mem2, e, k) = At(mem, e, k)
              /\ At(mem, e, k) = t => e = d /\ k = i
  <2>1. At(mem, e, k) \in Frames /\ At(mem2, e, k) = At(mem, e, k)
    BY <1>3, <1>26, MembersAre DEF At
  <2>2. R[At(mem, e, k)] = Tab(e, k)
    BY <1>3 DEF Spaces, OwnTables
  <2>3. QED
    BY <1>6, <2>1, <2>2, RolesDiffer
<1>28. ASSUME NEW e \in E, e # d PROVE OwnMapped(mem2, e) = OwnMapped(mem, e)
  <2>1. \A k \in Own(mem, e) : mem2[At(mem, e, k)] = mem[At(mem, e, k)]
    BY <1>24, <1>27, <1>28
  <2>2. mem2[e] = mem[e]
    BY <1>26
  <2>3. QED
    BY <2>1, <2>2, OwnMappedSame
<1>29. OwnMapped(mem2, d) = OwnMapped(mem, d) \cup {v}
  <2>1. ASSUME NEW w1 \in Nat
        PROVE  w1 \in OwnMapped(mem2, d) <=> w1 \in OwnMapped(mem, d) \/ w1 = v
    <3> DEFINE k == DirectoryIndex(w1)
               l == TableIndex(w1)
    <3>1. k \in Nat /\ l \in Low /\ w1 = k * TableSize + l
      BY Divided
    <3>2. w1 \in OwnMapped(mem, d) <=> k \in Own(mem, d) /\ l \in DOMAIN mem[At(mem, d, k)]
      BY DEF OwnMapped
    <3>3. w1 \in OwnMapped(mem2, d) <=> k \in Own(mem2, d) /\ l \in DOMAIN mem2[At(mem2, d, k)]
      BY DEF OwnMapped
    <3>4. w1 = v => k = i /\ l = j
      BY DEF i, j
    <3> HIDE DEF k, l
    <3>5. k = i /\ l = j => w1 = v
      BY <1>1, <3>1
    <3>6. Own(mem2, d) = Own(mem, d)
      BY <1>26
    <3>7. CASE k \notin Own(mem, d)
      BY <1>4, <3>2, <3>3, <3>4, <3>6, <3>7
    <3>8. CASE k \in Own(mem, d) /\ k = i
      BY <1>4, <1>24, <1>27, <3>2, <3>3, <3>4, <3>5, <3>6, <3>8
    <3>9. CASE k \in Own(mem, d) /\ k # i
      <4>1. At(mem2, d, k) = At(mem, d, k) /\ mem2[At(mem, d, k)] = mem[At(mem, d, k)]
        BY <1>24, <1>27, <3>9
      <4>2. QED
        BY <3>2, <3>3, <3>4, <3>6, <3>9, <4>1
    <3>10. QED
      BY <3>7, <3>8, <3>9
  <2>2. OwnMapped(mem, d) \subseteq Nat /\ OwnMapped(mem2, d) \subseteq Nat
    BY DEF OwnMapped
  <2>3. QED
    BY <2>1, <2>2
<1>30. r.cached \subseteq n.cached \cup Translations(r.memory, r.cr3)
  BY <1>15, <1>16, <1>17
<1>31. QED
  BY <1>2, <1>17, <1>18, <1>23, <1>25, <1>28, <1>29, <1>30

\* A machine whose spaces are as they should be, and whose TLB agrees.
Sound(m, E) ==
  /\ \E R : Spaced(m, E, R)
  /\ m.cached \subseteq Translations(m.memory, m.cr3)

\* m2 is m once the pages S are mapped in d.
Maps(m, m2, E, d, S) ==
  /\ Sound(m2, E) /\ m2.cr3 = m.cr3 /\ m.bitmap \subseteq m2.bitmap
  /\ Grows(m.memory, m2.memory, E)
  /\ OwnMapped(m2.memory, d) = OwnMapped(m.memory, d) \cup S
  /\ \A e \in E : e # d => OwnMapped(m2.memory, e) = OwnMapped(m.memory, e)

\* The frames that mapping v costs.
Cost(mem, d, v) == IF DirectoryIndex(v) \in Own(mem, d) THEN 1 ELSE 2

\* One more page in a space.
LEMMA FreshMapped ==
  ASSUME NEW m, NEW E, Sound(m, E), NEW d \in E, NEW v \in Nat, v \notin OwnMapped(m.memory, d),
         DirectoryIndex(v) \in Own(m.memory, d) \/ MayAdd(m.memory, E, d, DirectoryIndex(v)),
         Left(m.bitmap) >= Cost(m.memory, d, v),
         NEW r, r = MapFresh(m, d, v, UserOf(d))
  PROVE  Maps(m, r, E, d, {v}) /\ Left(r.bitmap) = Left(m.bitmap) - Cost(m.memory, d, v)
<1> DEFINE i == DirectoryIndex(v)
<1>1. PICK R : Spaced(m, E, R)
  BY DEF Sound
<1>2. PICK f : f = FirstFree(m)
  OBVIOUS
<1>3. PICK a : a = alloc_frame(m)
  OBVIOUS
<1>4. Left(m.bitmap) > 0 /\ Left(m.bitmap) \in Nat
  BY LeftCounts DEF Cost
<1>5. /\ f \in Low /\ f \in Frames /\ f \notin m.bitmap /\ f # 0 /\ R[f] = Free
      /\ Spaced(a, E, R) /\ a.bitmap = m.bitmap \cup {f} /\ a.memory = m.memory
      /\ a.cr3 = m.cr3 /\ a.cached = m.cached /\ Left(a.bitmap) = Left(m.bitmap) - 1
  BY <1>1, <1>2, <1>3, <1>4, AllocIs
<1>6. Spaces(a.bitmap, a.memory, E, R)
  BY <1>5 DEF Spaced
<1>7. PICK n : n = IF i \in DOMAIN a.memory[d] THEN Access(a, d)
                   ELSE create_page_table(a, d, i, UserOf(d))
  OBVIOUS
<1>8. PICK t : t = At(n.memory, d, i)
  OBVIOUS
<1>9. r = Cache(Flush(Store(n, t, With(n.memory[t], TableIndex(v), Entry(f, UserOf(d)))), d, v))
  BY <1>2, <1>3, <1>7, <1>8 DEF MapFresh, map_page, At
<1>10. d \in Low /\ (i \in Own(m.memory, d) => i \in DOMAIN m.memory[d])
  BY <1>6, MembersAre DEF Own
<1>12. \E R1 : /\ Spaced(n, E, R1) /\ R1[f] = Free /\ Readied(a, n, E, d, i)
               /\ Left(n.bitmap) = Left(m.bitmap) - Cost(m.memory, d, v)
  <2>1. CASE i \in Own(m.memory, d)
    <3>1. n = a
      BY <1>5, <1>7, <1>10, <2>1, Reached
    <3>2. Readied(a, n, E, d, i)
      BY <1>5, <2>1, <3>1, GrowsNot DEF Readied
    <3>3. QED
      BY <1>5, <2>1, <3>1, <3>2 DEF Cost
  <2>2. CASE i \notin Own(m.memory, d)
    <3>1. MayAdd(m.memory, E, d, i)
      BY <2>2
    <3>2. i \notin DOMAIN a.memory[d]
      BY <1>5, <2>2, <3>1, Regions DEF MayAdd, Own
    <3>3. Left(m.bitmap) >= 2
      BY <2>2 DEF Cost
    <3>4. Left(a.bitmap) > 0 /\ MayAdd(a.memory, E, d, i)
      BY <1>4, <1>5, <3>1, <3>3 DEF MayAdd
    <3>5. n = create_page_table(a, d, i, UserOf(d))
      BY <1>7, <3>2
    <3>6. PICK R1 : /\ Spaced(n, E, R1) /\ \A g \in a.bitmap : R1[g] = R[g]
                    /\ Readied(a, n, E, d, i) /\ Left(n.bitmap) = Left(a.bitmap) - 1
      <4>1. Spaced(a, E, R)
        BY <1>5
      <4>2. PICK k : k = i
        OBVIOUS
      <4>3. k \notin DOMAIN a.memory[d] /\ MayAdd(a.memory, E, d, k) /\ n = create_page_table(a, d, k, UserOf(d))
        BY <3>2, <3>4, <3>5, <4>2
      <4>4. \E R2 : /\ Spaced(n, E, R2) /\ \A g \in a.bitmap : R2[g] = R[g]
                    /\ Readied(a, n, E, d, k) /\ Left(n.bitmap) = Left(a.bitmap) - 1
        <5> HIDE DEF i
        <5> QED
          BY <3>4, <4>1, <4>3, TableCreated
      <4>5. QED
        BY <4>2, <4>4
    <3>7. R1[f] = Free
      BY <1>5, <3>6
    <3>8. Left(n.bitmap) = Left(m.bitmap) - 2
      BY <1>4, <1>5, <3>6
    <3>9. QED
      BY <2>2, <3>6, <3>7, <3>8 DEF Cost
  <2>3. QED
    BY <2>1, <2>2
<1>13. PICK R1 : /\ Spaced(n, E, R1) /\ R1[f] = Free /\ Readied(a, n, E, d, i)
                 /\ Left(n.bitmap) = Left(m.bitmap) - Cost(m.memory, d, v)
  BY <1>12
<1>14. /\ a.bitmap \subseteq n.bitmap /\ n.cr3 = m.cr3 /\ n.cached = m.cached
       /\ Grows(m.memory, n.memory, E) /\ i \in Own(n.memory, d)
       /\ \A e \in E : OwnMapped(n.memory, e) = OwnMapped(m.memory, e)
  BY <1>5, <1>13 DEF Readied
<1>15. f \in n.bitmap /\ v \notin OwnMapped(n.memory, d)
  BY <1>5, <1>14
<1>16. PICK R2 : /\ Spaced(r, E, R2) /\ r.bitmap = n.bitmap /\ r.cr3 = n.cr3
                 /\ r.cached \subseteq n.cached \cup Translations(r.memory, r.cr3)
                 /\ Grows(n.memory, r.memory, E)
                 /\ OwnMapped(r.memory, d) = OwnMapped(n.memory, d) \cup {v}
                 /\ \A e \in E : e # d => OwnMapped(r.memory, e) = OwnMapped(n.memory, e)
  BY <1>5, <1>8, <1>9, <1>13, <1>14, <1>15, PagePut
<1>17. Grows(m.memory, r.memory, E)
  BY <1>14, <1>16, GrowsOn
<1>18. Translations(m.memory, m.cr3) \subseteq Translations(r.memory, m.cr3)
  <2>1. /\ m.memory \in [Frames -> Contents] /\ r.memory \in [Frames -> Contents]
        /\ m.cr3 \in Frames /\ m.cr3 \in E
    BY <1>1, <1>16, MachineHas DEF Spaced
  <2>2. PICK old, new : old = m.memory /\ new = r.memory
    OBVIOUS
  <2>3. Translations(old, m.cr3) \subseteq Translations(new, m.cr3)
    BY <1>17, <2>1, <2>2, TranslationsKept
  <2>4. QED
    BY <2>2, <2>3
<1>19. Sound(r, E)
  <2>1. r.cached \subseteq Translations(r.memory, r.cr3)
    BY <1>14, <1>16, <1>18 DEF Sound
  <2>2. QED
    BY <1>16, <2>1 DEF Sound
<1>20. Maps(m, r, E, d, {v})
  BY <1>5, <1>14, <1>16, <1>17, <1>19 DEF Maps
<1>21. QED
  BY <1>13, <1>16, <1>20

\* load_page writes the frame before it is mapped, and it is there.
LEMMA LoadPageIs ==
  ASSUME NEW m, NEW E, Sound(m, E), Left(m.bitmap) > 0, NEW d, NEW v
  PROVE  LoadPage(m, d, v) = MapFresh(m, d, v, TRUE)
<1>1. PICK R : Spaced(m, E, R)
  BY DEF Sound
<1>2. PICK f : f = FirstFree(m)
  OBVIOUS
<1>3. PICK a : a = alloc_frame(m)
  OBVIOUS
<1>4. f \in Low /\ R[f] # Dir /\ Spaced(a, E, R)
  BY <1>1, <1>2, <1>3, AllocIs, RolesDiffer
<1>5. Access(a, f) = a
  BY <1>4, Reached
<1>6. QED
  BY <1>2, <1>3, <1>5 DEF LoadPage, MapFresh

-----------------------------------------------------------------------------
(* Mapping several pages *)

\* The recursion of MapPages unfolds.
MapSteps(m, d, first, n, user, g) ==
  /\ g[0] = m /\ MapPages(m, d, first, n, user) = g[n]
  /\ \A i \in 1 .. n : g[i] = MapFresh(g[i - 1], d, first + i - 1, user)

LEMMA MapPagesSteps ==
  ASSUME NEW m, NEW d, NEW first, NEW n \in Nat, NEW user
  PROVE  \E g : MapSteps(m, d, first, n, user, g)
<1> DEFINE Steps(k, g) == g = [i \in 0 .. k |-> IF i = 0 THEN m
                                               ELSE MapFresh(g[i - 1], d, first + i - 1, user)]
           T == {k \in Nat : \E g : Steps(k, g)}
<1>1. 0 \in T
  <2>1. Steps(0, [i \in 0 .. 0 |-> m])
    OBVIOUS
  <2>2. QED
    BY <2>1
<1>2. ASSUME NEW k \in 0 .. n - 1, k \in T PROVE k + 1 \in T
  <2>1. PICK g : Steps(k, g)
    BY <1>2
  <2> DEFINE h == [i \in 0 .. k + 1 |-> IF i = k + 1 THEN MapFresh(g[k], d, first + (k + 1) - 1, user)
                                       ELSE g[i]]
  <2>2. ASSUME NEW i \in 0 .. k + 1
        PROVE  h[i] = IF i = 0 THEN m ELSE MapFresh(h[i - 1], d, first + i - 1, user)
    <3>1. CASE i = k + 1
      <4>1. i - 1 = k /\ i # 0 /\ k \in 0 .. k + 1 /\ k # k + 1
        BY <3>1
      <4>2. h[i - 1] = g[k] /\ h[i] = MapFresh(g[k], d, first + (k + 1) - 1, user)
        BY <3>1, <4>1
      <4>3. QED
        BY <3>1, <4>1, <4>2
    <3>2. CASE i # k + 1
      <4>1. i \in 0 .. k /\ h[i] = g[i]
        BY <3>2
      <4>2. i # 0 => i - 1 \in 0 .. k + 1 /\ i - 1 # k + 1 /\ h[i - 1] = g[i - 1]
        BY <3>2
      <4> HIDE DEF h
      <4>3. g[i] = IF i = 0 THEN m ELSE MapFresh(g[i - 1], d, first + i - 1, user)
        BY <2>1, <4>1
      <4>4. QED
        BY <4>1, <4>2, <4>3
    <3>3. QED
      BY <3>1, <3>2
  <2>3. Steps(k + 1, h)
    <3>1. h = [i \in 0 .. k + 1 |-> h[i]]
      OBVIOUS
    <3> HIDE DEF h
    <3>2. QED
      BY <2>2, <3>1
  <2> HIDE DEF h, Steps
  <2>4. QED
    BY <2>3
<1>3. n \in T
  <2> HIDE DEF T
  <2>1. \A k \in 0 .. n : k \in T
    BY <1>1, <1>2, UpTo
  <2>2. QED
    BY <2>1
<1> DEFINE done == CHOOSE g : Steps(n, g)
<1>4. Steps(n, done)
  <2> HIDE DEF Steps
  <2> QED
    BY <1>3
<1>5. MapPages(m, d, first, n, user) = done[n]
  BY DEF MapPages
<1> HIDE DEF done
<1>6. done[0] = m
  BY <1>4
<1>7. \A i \in 1 .. n : done[i] = MapFresh(done[i - 1], d, first + i - 1, user)
  <2>1. ASSUME NEW i \in 1 .. n PROVE done[i] = MapFresh(done[i - 1], d, first + i - 1, user)
    <3>1. i \in 0 .. n /\ i # 0
      OBVIOUS
    <3>2. QED
      BY <1>4, <3>1
  <2>2. QED
    BY <2>1
<1>8. QED
  BY <1>5, <1>6, <1>7 DEF MapSteps

\* And that of LoadPages.
LEMMA LoadPagesSteps ==
  ASSUME NEW m, NEW d, NEW n \in Nat
  PROVE  \E g : /\ g[0] = m /\ LoadPages(m, d, n) = g[n]
                /\ \A i \in 1 .. n : g[i] = LoadPage(g[i - 1], d, USER_CODE_BASE + i - 1)
<1> DEFINE Steps(k, g) == g = [i \in 0 .. k |-> IF i = 0 THEN m
                                               ELSE LoadPage(g[i - 1], d, USER_CODE_BASE + i - 1)]
           T == {k \in Nat : \E g : Steps(k, g)}
<1>1. 0 \in T
  <2>1. Steps(0, [i \in 0 .. 0 |-> m])
    OBVIOUS
  <2>2. QED
    BY <2>1
<1>2. ASSUME NEW k \in 0 .. n - 1, k \in T PROVE k + 1 \in T
  <2>1. PICK g : Steps(k, g)
    BY <1>2
  <2> DEFINE h == [i \in 0 .. k + 1 |-> IF i = k + 1 THEN LoadPage(g[k], d, USER_CODE_BASE + (k + 1) - 1)
                                       ELSE g[i]]
  <2>2. ASSUME NEW i \in 0 .. k + 1
        PROVE  h[i] = IF i = 0 THEN m ELSE LoadPage(h[i - 1], d, USER_CODE_BASE + i - 1)
    <3>1. CASE i = k + 1
      <4>1. i - 1 = k /\ i # 0 /\ k \in 0 .. k + 1 /\ k # k + 1
        BY <3>1
      <4>2. h[i - 1] = g[k] /\ h[i] = LoadPage(g[k], d, USER_CODE_BASE + (k + 1) - 1)
        BY <3>1, <4>1
      <4>3. QED
        BY <3>1, <4>1, <4>2
    <3>2. CASE i # k + 1
      <4>1. i \in 0 .. k /\ h[i] = g[i]
        BY <3>2
      <4>2. i # 0 => i - 1 \in 0 .. k + 1 /\ i - 1 # k + 1 /\ h[i - 1] = g[i - 1]
        BY <3>2
      <4> HIDE DEF h
      <4>3. g[i] = IF i = 0 THEN m ELSE LoadPage(g[i - 1], d, USER_CODE_BASE + i - 1)
        BY <2>1, <4>1
      <4>4. QED
        BY <4>1, <4>2, <4>3
    <3>3. QED
      BY <3>1, <3>2
  <2>3. Steps(k + 1, h)
    <3>1. h = [i \in 0 .. k + 1 |-> h[i]]
      OBVIOUS
    <3> HIDE DEF h
    <3>2. QED
      BY <2>2, <3>1
  <2> HIDE DEF h, Steps
  <2>4. QED
    BY <2>3
<1>3. n \in T
  <2> HIDE DEF T
  <2>1. \A k \in 0 .. n : k \in T
    BY <1>1, <1>2, UpTo
  <2>2. QED
    BY <2>1
<1> DEFINE done == CHOOSE g : Steps(n, g)
<1>4. Steps(n, done)
  <2> HIDE DEF Steps
  <2> QED
    BY <1>3
<1>5. LoadPages(m, d, n) = done[n]
  BY DEF LoadPages
<1> HIDE DEF done
<1>6. done[0] = m
  BY <1>4
<1>7. \A i \in 1 .. n : done[i] = LoadPage(done[i - 1], d, USER_CODE_BASE + i - 1)
  <2>1. ASSUME NEW i \in 1 .. n PROVE done[i] = LoadPage(done[i - 1], d, USER_CODE_BASE + i - 1)
    <3>1. i \in 0 .. n /\ i # 0
      OBVIOUS
    <3>2. QED
      BY <1>4, <3>1
  <2>2. QED
    BY <2>1
<1>8. QED
  BY <1>5, <1>6, <1>7

\* Nothing is mapped in no step, and what two series map is what both do.
LEMMA MapsNothing ==
  ASSUME NEW m, NEW E, Sound(m, E), NEW d
  PROVE  Maps(m, m, E, d, {})
  BY GrowsNot DEF Maps

LEMMA MapsOn ==
  ASSUME NEW m, NEW m2, NEW m3, NEW E, NEW d \in E, NEW S, NEW S2,
         Maps(m, m2, E, d, S), Maps(m2, m3, E, d, S2)
  PROVE  Maps(m, m3, E, d, S \cup S2)
<1>1. Grows(m.memory, m3.memory, E)
  BY GrowsOn DEF Maps
<1>2. OwnMapped(m3.memory, d) = OwnMapped(m.memory, d) \cup (S \cup S2)
  BY DEF Maps
<1>3. \A e \in E : e # d => OwnMapped(m3.memory, e) = OwnMapped(m.memory, e)
  BY DEF Maps
<1>4. Sound(m3, E) /\ m3.cr3 = m.cr3 /\ m.bitmap \subseteq m3.bitmap
  BY DEF Maps
<1>5. QED
  BY <1>1, <1>2, <1>3, <1>4 DEF Maps

\* A directory keeps its tables.
LEMMA OwnKept ==
  ASSUME NEW mem, NEW mem2, NEW E, Grows(mem, mem2, E), NEW d \in E
  PROVE  Own(mem, d) \subseteq Own(mem2, d)
  BY DEF Grows, KeptAt, Own

\* The steps g of a run of n pages, for which there are frames enough, and for
\* the tables they take: c is the last table that is there, or the one before
\* the first that is needed.
Steps(m, E, d, first, n, c, g) ==
  /\ c \in Int /\ c <= DirectoryIndex(first)
  /\ c = DirectoryIndex(first) => c \in Own(m.memory, d)
  /\ \A v \in first .. first + n - 1 :
       /\ v \notin OwnMapped(m.memory, d)
       /\ \/ DirectoryIndex(v) \in Own(m.memory, d)
          \/ MayAdd(m.memory, E, d, DirectoryIndex(v))
  /\ n > 0 => Left(m.bitmap) >= n + DirectoryIndex(first + n - 1) - c
  /\ g[0] = m
  /\ \A i \in 1 .. n : Sound(g[i - 1], E) /\ Left(g[i - 1].bitmap) > 0 =>
                          g[i] = MapFresh(g[i - 1], d, first + i - 1, UserOf(d))

Laid(m, E, d, first, n, c, r) ==
  /\ Maps(m, r, E, d, first .. first + n - 1)
  /\ Left(r.bitmap) <= Left(m.bitmap) - n
  /\ n > 0 => Left(r.bitmap) >= Left(m.bitmap) - n - (DirectoryIndex(first + n - 1) - c)

\* A run of pages is laid, at one frame for each page and for each table.
LEMMA Series ==
  ASSUME NEW m, NEW E, Sound(m, E), NEW d \in E, NEW first \in Nat, NEW n \in Nat,
         NEW c, NEW g, Steps(m, E, d, first, n, c, g)
  PROVE  Laid(m, E, d, first, n, c, g[n])
<1> c \in Int /\ c <= DirectoryIndex(first)
  BY DEF Steps
<1> c = DirectoryIndex(first) => c \in Own(m.memory, d)
  BY DEF Steps
<1> \A v \in first .. first + n - 1 :
      /\ v \notin OwnMapped(m.memory, d)
      /\ \/ DirectoryIndex(v) \in Own(m.memory, d)
         \/ MayAdd(m.memory, E, d, DirectoryIndex(v))
  BY DEF Steps
<1> n > 0 => Left(m.bitmap) >= n + DirectoryIndex(first + n - 1) - c
  BY DEF Steps
<1> g[0] = m
  BY DEF Steps
<1> \A i \in 1 .. n : Sound(g[i - 1], E) /\ Left(g[i - 1].bitmap) > 0 =>
                         g[i] = MapFresh(g[i - 1], d, first + i - 1, UserOf(d))
  BY DEF Steps
<1> DEFINE Last(k) == IF k = 0 THEN c ELSE DirectoryIndex(first + k - 1)
           P(k) == /\ Maps(m, g[k], E, d, first .. first + k - 1)
                   /\ Left(g[k].bitmap) <= Left(m.bitmap) - k
                   /\ Left(g[k].bitmap) >= Left(m.bitmap) - k - (Last(k) - c)
                   /\ k # 0 => Last(k) \in Own(g[k].memory, d)
           T == {k \in Nat : P(k)}
<1>1. Left(m.bitmap) \in Nat
  BY LeftCounts
<1>2. \A v \in Nat : DirectoryIndex(v) \in Nat
  BY Divided
<1>3. 0 \in T
  <2>1. first .. first + 0 - 1 = {}
    OBVIOUS
  <2>2. Maps(m, g[0], E, d, first .. first + 0 - 1)
    BY <2>1, MapsNothing
  <2>3. QED
    BY <1>1, <2>2
<1>4. ASSUME NEW k \in 0 .. n - 1, k \in T PROVE k + 1 \in T
  <2>1. P(k)
    BY <1>4
  <2>2. PICK v : v = first + k
    OBVIOUS
  <2>3. /\ v \in Nat /\ v \in first .. first + n - 1 /\ v \notin first .. first + k - 1
        /\ v = first + (k + 1) - 1 /\ v <= first + n - 1 /\ first + n - 1 \in Nat
        /\ k \in Nat /\ n > 0 /\ k + 1 \in 1 .. n /\ k + 1 # 0 /\ (k + 1) - 1 = k /\ k + 1 <= n
        /\ (first .. first + k - 1) \cup {v} = first .. first + (k + 1) - 1
    BY <2>2
  <2>4. PICK a : a = g[k]
    OBVIOUS
  <2>5. PICK D \in Nat : D = DirectoryIndex(v)
    BY <1>2, <2>3
  <2>6. PICK L : L = Last(k)
    OBVIOUS
  <2>7. L \in Int /\ L <= D /\ (L = D => D \in Own(a.memory, d))
    <3>1. Own(m.memory, d) \subseteq Own(a.memory, d)
      BY <2>1, <2>4, OwnKept DEF Maps
    <3>2. CASE k = 0
      <4>1. L = c /\ v = first
        BY <2>2, <2>6, <3>2
      <4>2. QED
        BY <2>5, <3>1, <4>1
    <3>3. CASE k # 0
      <4>1. L = DirectoryIndex(first + k - 1) /\ first + k - 1 \in Nat /\ first + k - 1 <= v
        BY <2>2, <2>3, <2>6, <3>3
      <4>2. L <= D /\ L \in Int
        BY <1>2, <2>3, <2>5, <4>1, IndexGrows
      <4>3. L \in Own(a.memory, d)
        BY <2>1, <2>4, <2>6, <3>3
      <4>4. QED
        BY <4>2, <4>3
    <3>4. QED
      BY <3>2, <3>3
  <2>8. PICK Z \in Nat : Z = DirectoryIndex(first + n - 1) /\ D <= Z
    BY <1>2, <2>3, <2>5, IndexGrows
  <2>9. /\ Maps(m, a, E, d, first .. first + k - 1) /\ Left(a.bitmap) <= Left(m.bitmap) - k
        /\ Left(a.bitmap) >= Left(m.bitmap) - k - (L - c) /\ Left(a.bitmap) \in Nat
    BY <2>1, <2>4, <2>6, LeftCounts
  <2> HIDE DEF Last, P, T
  <2>10. PICK x \in {1, 2} : x = Cost(a.memory, d, v)
    BY DEF Cost
  <2>11. x <= 1 + (D - L)
    <3>1. L = D => x = 1
      BY <2>5, <2>7, <2>10 DEF Cost
    <3>2. QED
      BY <2>7, <3>1
  <2>12. Left(a.bitmap) >= x
    <3>1. Left(m.bitmap) >= n + Z - c
      BY <2>3, <2>8
    <3>2. PICK l0 \in Nat, l1 \in Nat : l0 = Left(m.bitmap) /\ l1 = Left(a.bitmap)
      BY LeftCounts
    <3>3. l0 >= n + Z - c /\ l1 >= l0 - k - (L - c)
      BY <2>9, <3>1, <3>2
    <3>4. L \in Int /\ D <= Z /\ k < n /\ k \in Nat
      BY <2>3, <2>7, <2>8
    <3>5. l1 >= x
      BY <2>10, <2>11, <3>3, <3>4
    <3>6. QED
      BY <3>2, <3>5
  <2>13. PICK r : r = MapFresh(a, d, v, UserOf(d))
    OBVIOUS
  <2>14. Maps(a, r, E, d, {v}) /\ Left(r.bitmap) = Left(a.bitmap) - x
    <3>1. Sound(a, E) /\ v \notin OwnMapped(a.memory, d)
      BY <2>3, <2>9 DEF Maps
    <3>2. \/ DirectoryIndex(v) \in Own(a.memory, d)
          \/ MayAdd(a.memory, E, d, DirectoryIndex(v))
      <4>1. Own(m.memory, d) \subseteq Own(a.memory, d)
        BY <2>9, OwnKept DEF Maps
      <4>2. QED
        BY <2>3, <4>1 DEF MayAdd
    <3>3. Left(a.bitmap) >= Cost(a.memory, d, v)
      BY <2>10, <2>12
    <3>4. Maps(a, r, E, d, {v}) /\ Left(r.bitmap) = Left(a.bitmap) - Cost(a.memory, d, v)
      <4>1. v \in Nat
        BY <2>3
      <4>2. QED
        BY <2>13, <3>1, <3>2, <3>3, <4>1, FreshMapped
    <3>5. QED
      BY <2>10, <3>4
  <2>15. g[k + 1] = r
    <3>1. Sound(g[(k + 1) - 1], E) /\ Left(g[(k + 1) - 1].bitmap) > 0
      <4>1. Sound(a, E) /\ Left(a.bitmap) > 0
        BY <2>9, <2>12 DEF Maps
      <4>2. QED
        BY <2>3, <2>4, <4>1
    <3>2. g[k + 1] = MapFresh(g[(k + 1) - 1], d, first + (k + 1) - 1, UserOf(d))
      BY <2>3, <3>1
    <3>3. QED
      BY <2>3, <2>4, <2>13, <3>2
  <2>16. Maps(m, r, E, d, first .. first + (k + 1) - 1)
    <3>1. PICK S, S2 : S = first .. first + k - 1 /\ S2 = first .. first + (k + 1) - 1
      OBVIOUS
    <3>2. S2 = S \cup {v}
      BY <2>3, <3>1
    <3>3. Maps(m, a, E, d, S)
      BY <2>9, <3>1
    <3>4. Maps(m, r, E, d, S \cup {v})
      BY <2>14, <3>3, MapsOn
    <3>5. QED
      BY <3>1, <3>2, <3>4
  <2>17. Left(r.bitmap) <= Left(m.bitmap) - (k + 1)
         /\ Left(r.bitmap) >= Left(m.bitmap) - (k + 1) - (D - c)
    <3>1. PICK l0, l1, l2 : l0 = Left(m.bitmap) /\ l1 = Left(a.bitmap) /\ l2 = Left(r.bitmap)
      OBVIOUS
    <3>2. /\ l0 \in Nat /\ l1 \in Nat /\ l1 <= l0 - k /\ l1 >= l0 - k - (L - c) /\ l2 = l1 - x
          /\ k \in Nat /\ L \in Int /\ x >= 1
      BY <1>1, <2>3, <2>7, <2>9, <2>14, <3>1
    <3>3. l2 <= l0 - (k + 1) /\ l2 >= l0 - (k + 1) - (D - c)
      BY <2>11, <3>2
    <3>4. QED
      BY <3>1, <3>3
  <2>18. Last(k + 1) = D
    BY <2>3, <2>5 DEF Last
  <2>19. D \in Own(r.memory, d)
    BY <2>5, <2>14 DEF Maps, OwnMapped
  <2>20. P(k + 1)
    BY <2>15, <2>16, <2>17, <2>18, <2>19 DEF P
  <2>21. QED
    BY <2>3, <2>20 DEF T
<1>5. n \in T
  <2> HIDE DEF T
  <2>1. \A k \in 0 .. n : k \in T
    BY <1>3, <1>4, UpTo
  <2>2. QED
    BY <2>1
<1>6. QED
  BY <1>5 DEF Laid

\* A program may have a table wherever its regions are.
LEMMA UserMayAdd ==
  ASSUME NEW mem, NEW E, NEW d, d # KD, NEW v \in Nat, TableSize <= v, v < HEAP_START
  PROVE  MayAdd(mem, E, d, DirectoryIndex(v)) /\ DirectoryIndex(v) \notin {0, HI}
<1> DEFINE i == DirectoryIndex(v)
           r == TableIndex(v)
<1>0. /\ TableSize \in Nat /\ HEAP_START \in Nat /\ HEAP_START < TableSize * TableSize
      /\ TableSize * TableSize \in Nat
  BY PagingAssumption, RegionsAssumption
<1>1. i \notin {0, HI}
  BY Regions
<1>2. i \in Nat /\ r \in Nat /\ v = i * TableSize + r
  BY Divided, FramesAre
<1> HIDE DEF i, r
<1>3. i < TableSize
  <2> SUFFICES ASSUME ~ (i < TableSize) PROVE FALSE
    OBVIOUS
  <2>1. i * TableSize >= TableSize * TableSize
    <3>1. CASE i = TableSize
      BY <1>0, <3>1
    <3>2. CASE TableSize < i
      <4>1. TableSize * TableSize + TableSize <= i * TableSize
        BY <1>0, <1>2, <3>2, Multiples
      <4>2. i * TableSize \in Nat
        BY <1>0, <1>2
      <4>3. QED
        BY <1>0, <4>1, <4>2
    <3>3. QED
      BY <1>0, <1>2, <3>1, <3>2
  <2>2. i * TableSize \in Nat
    BY <1>0, <1>2
  <2>3. QED
    BY <1>0, <1>2, <2>1, <2>2
<1>4. i \in Low
  BY <1>2, <1>3, FramesAre
<1>5. QED
  BY <1>1, <1>4 DEF MayAdd, i

\* The address space of a new program.
LEMMA DirectoryCopied ==
  ASSUME NEW m, NEW E, Sound(m, E), HI \in DOMAIN m.memory[KD], Left(m.bitmap) > 0,
         NEW d, d = FirstFree(m), NEW z, z = Store(alloc_frame(m), d, NoEntries),
         NEW c, c = Store(z, d, z.memory[kernel_directory])
  PROVE  /\ d \in Low /\ d \in Frames /\ d \notin m.bitmap /\ d \notin E
         /\ Sound(c, E \cup {d}) /\ c.cr3 = m.cr3 /\ c.bitmap = m.bitmap \cup {d}
         /\ Left(c.bitmap) = Left(m.bitmap) - 1
         /\ Grows(m.memory, c.memory, E) /\ OwnMapped(c.memory, d) = {}
         /\ \A e \in E : OwnMapped(c.memory, e) = OwnMapped(m.memory, e)
<1>1. PICK R : Spaced(m, E, R)
  BY DEF Sound
<1>2. PICK a : a = alloc_frame(m)
  OBVIOUS
<1>3. /\ d \in Low /\ d \in Frames /\ d \notin m.bitmap /\ R[d] = Free
      /\ Spaced(a, E, R) /\ a.bitmap = m.bitmap \cup {d} /\ a.memory = m.memory
      /\ a.cr3 = m.cr3 /\ a.cached = m.cached /\ Left(a.bitmap) = Left(m.bitmap) - 1
  BY <1>1, <1>2, AllocIs
<1>4. R[d] # Dir
  BY <1>3, RolesDiffer
<1>5. /\ z \in Machines /\ z.bitmap = a.bitmap /\ z.memory = [m.memory EXCEPT ![d] = NoEntries]
      /\ z.cr3 = m.cr3 /\ z.cached = m.cached /\ ~z.stray
  BY <1>2, <1>3, <1>4, StoreIs, NoEntriesIs
<1>6. /\ m.memory \in [Frames -> Contents] /\ m.cr3 \in E /\ m.bitmap \subseteq Frames
      /\ Spaces(a.bitmap, m.memory, E, R) /\ R \in [Frames -> Role]
  BY <1>3, MachineHas DEF Spaced, Spaces
<1>7. /\ z.memory \in [Frames -> Contents]
      /\ \A g \in Frames : g # d => z.memory[g] = m.memory[g]
  BY <1>3, <1>5, <1>6, NoEntriesIs
<1>8. Spaced(z, E, R)
  <2>1. Spaces(a.bitmap, z.memory, E, R)
    BY <1>3, <1>6, <1>7, ZeroedUnseen
  <2>2. QED
    BY <1>5, <1>6, <2>1 DEF Spaced
<1>9. d \notin E /\ KD \in E /\ KD \in Frames /\ \A e \in E : e \in Frames
  <2>1. KD \in E /\ \A e \in E : e \in Low /\ R[e] = Dir
    BY <1>6 DEF Spaces, Reserved
  <2>2. QED
    BY <1>4, <2>1, FramesAre
<1>10. PICK k : k = m.memory[KD]
  OBVIOUS
<1>11. k \in Contents /\ z.memory[kernel_directory] = k
  BY <1>6, <1>7, <1>9, <1>10 DEF KD
<1>12. /\ c \in Machines /\ c.bitmap = a.bitmap /\ c.memory = [z.memory EXCEPT ![d] = k]
       /\ c.cr3 = m.cr3 /\ c.cached = m.cached /\ ~c.stray
  BY <1>3, <1>4, <1>5, <1>8, <1>11, StoreIs
<1>13. PICK mem : mem = m.memory
  OBVIOUS
<1>14. PICK mem2 : mem2 = c.memory
  OBVIOUS
<1>15. mem2 \in [Frames -> Contents] /\ mem2[d] = mem[KD] /\ \A g \in Frames : g # d => mem2[g] = mem[g]
  BY <1>3, <1>7, <1>10, <1>11, <1>12, <1>13, <1>14
<1>16. PICK R2 : R2 = [R EXCEPT ![d] = Dir]
  OBVIOUS
<1>17. Given(R, R2, d, Dir)
  BY <1>3, <1>6, <1>16, RolesAre DEF Given
<1>18. Spaces(a.bitmap, mem2, E \cup {d}, R2) /\ Own(mem2, d) = {}
  BY <1>3, <1>6, <1>13, <1>15, <1>17, DirectoryAdded
<1>19. Spaced(c, E \cup {d}, R2)
  BY <1>6, <1>12, <1>14, <1>18 DEF Spaced
<1>20. Grows(mem, mem2, E)
  <2>1. ASSUME NEW g \in Frames, R[g] # Free PROVE Kept(mem, mem2, g)
    BY <1>3, <1>15, <2>1 DEF Kept
  <2>2. QED
    BY <1>6, <1>13, <2>1, GrowsWhen
<1>21. Sound(c, E \cup {d})
  <2>1. Translations(mem, m.cr3) \subseteq Translations(mem2, m.cr3)
    BY <1>6, <1>9, <1>13, <1>15, <1>20, TranslationsKept
  <2>2. c.cached \subseteq Translations(c.memory, c.cr3)
    BY <1>12, <1>13, <1>14, <2>1 DEF Sound
  <2>3. QED
    BY <1>19, <2>2 DEF Sound
<1>22. OwnMapped(mem2, d) = {}
  BY <1>18 DEF OwnMapped
<1>23. ASSUME NEW e \in E PROVE OwnMapped(mem2, e) = OwnMapped(mem, e)
  <2>1. mem2[e] = mem[e]
    BY <1>9, <1>15
  <2>2. ASSUME NEW i \in Own(mem, e) PROVE mem2[At(mem, e, i)] = mem[At(mem, e, i)]
    <3>1. At(mem, e, i) \in Low /\ R[At(mem, e, i)] = Tab(e, i)
      BY <1>6, <1>13 DEF Spaces, OwnTables
    <3>2. At(mem, e, i) \in Frames /\ At(mem, e, i) # d
      BY <1>3, <3>1, FramesAre, RolesDiffer
    <3>3. QED
      BY <1>15, <3>2
  <2>3. QED
    BY <2>1, <2>2, OwnMappedSame
<1>24. QED
  BY <1>3, <1>9, <1>12, <1>13, <1>14, <1>20, <1>21, <1>22, <1>23

\* One page of a program.
LEMMA UserMapped ==
  ASSUME NEW m, NEW E, Sound(m, E), NEW d \in E, d # KD,
         NEW v \in Nat, TableSize <= v, v < HEAP_START, v \notin OwnMapped(m.memory, d),
         Left(m.bitmap) >= 2
  PROVE  /\ Maps(m, MapFresh(m, d, v, TRUE), E, d, {v})
         /\ Left(MapFresh(m, d, v, TRUE).bitmap) \in {Left(m.bitmap) - 1, Left(m.bitmap) - 2}
<1>1. MayAdd(m.memory, E, d, DirectoryIndex(v))
  BY UserMayAdd
<1>2. UserOf(d) = TRUE
  BY DEF UserOf
<1>3. PICK r : r = MapFresh(m, d, v, UserOf(d))
  OBVIOUS
<1>4. Cost(m.memory, d, v) \in {1, 2} /\ Left(m.bitmap) >= Cost(m.memory, d, v)
  BY LeftCounts DEF Cost
<1>5. Maps(m, r, E, d, {v}) /\ Left(r.bitmap) = Left(m.bitmap) - Cost(m.memory, d, v)
  BY <1>1, <1>3, <1>4, FreshMapped
<1>6. QED
  BY <1>2, <1>3, <1>4, <1>5

\* Nothing is mapped in any of them.
OwnAsBefore(mem, mem2, E) == \A e \in E : OwnMapped(mem2, e) = OwnMapped(mem, e)

LEMMA Created ==
  ASSUME NEW m, NEW E, Sound(m, E), HI \in DOMAIN m.memory[KD], KD \in E, Left(m.bitmap) >= 5,
         NEW d, d = FirstFree(m), NEW r, r = create_uprocess(m)
  PROVE  /\ d \in Low /\ d \in Frames /\ d \notin m.bitmap /\ d \notin E
         /\ Sound(r, E \cup {d}) /\ r.cr3 = m.cr3 /\ m.bitmap \cup {d} \subseteq r.bitmap
         /\ Left(r.bitmap) <= Left(m.bitmap) - 3 /\ Left(r.bitmap) >= Left(m.bitmap) - 5
         /\ Grows(m.memory, r.memory, E)
         /\ OwnMapped(r.memory, d) = {USER_STACK, USER_HEAP_START}
         /\ OwnAsBefore(m.memory, r.memory, E)
<1>1. PICK z : z = Store(alloc_frame(m), d, NoEntries)
  OBVIOUS
<1>2. PICK c : c = Store(z, d, z.memory[kernel_directory])
  OBVIOUS
<1>3. Left(m.bitmap) \in Nat /\ Left(m.bitmap) > 0
  BY LeftCounts
<1>4. /\ d \in Low /\ d \in Frames /\ d \notin m.bitmap /\ d \notin E
      /\ Sound(c, E \cup {d}) /\ c.cr3 = m.cr3 /\ c.bitmap = m.bitmap \cup {d}
      /\ Left(c.bitmap) = Left(m.bitmap) - 1
      /\ Grows(m.memory, c.memory, E) /\ OwnMapped(c.memory, d) = {}
      /\ \A e \in E : OwnMapped(c.memory, e) = OwnMapped(m.memory, e)
  BY <1>1, <1>2, <1>3, DirectoryCopied
<1>5. PICK F : F = E \cup {d}
  OBVIOUS
<1>6. PICK s : s = MapFresh(c, d, USER_STACK, TRUE)
  OBVIOUS
<1>7. d # KD /\ UserOf(d) = TRUE /\ d \in F /\ E \subseteq F
  BY <1>4, <1>5 DEF UserOf
<1>8. r = MapFresh(s, d, USER_HEAP_START, TRUE)
  BY <1>1, <1>2, <1>6 DEF create_uprocess
<1>9. /\ USER_STACK \in Nat /\ TableSize <= USER_STACK /\ USER_STACK < HEAP_START
      /\ USER_HEAP_START \in Nat /\ TableSize <= USER_HEAP_START /\ USER_HEAP_START < HEAP_START
      /\ USER_HEAP_START # USER_STACK
  BY PagingAssumption
<1>10. PICK S, H : S = USER_STACK /\ H = USER_HEAP_START
  OBVIOUS
<1>11. Maps(c, s, F, d, {S}) /\ Left(s.bitmap) \in {Left(c.bitmap) - 1, Left(c.bitmap) - 2}
  <2>1. Sound(c, F) /\ S \notin OwnMapped(c.memory, d) /\ Left(c.bitmap) >= 2
    BY <1>3, <1>4, <1>5
  <2>2. S \in Nat /\ TableSize <= S /\ S < HEAP_START /\ s = MapFresh(c, d, S, TRUE)
    BY <1>6, <1>9, <1>10
  <2>3. QED
    BY <1>7, <2>1, <2>2, UserMapped
<1>13. Maps(s, r, F, d, {H}) /\ Left(r.bitmap) \in {Left(s.bitmap) - 1, Left(s.bitmap) - 2}
  <2>1. Sound(s, F) /\ H \notin OwnMapped(s.memory, d)
    BY <1>4, <1>9, <1>10, <1>11 DEF Maps
  <2>2. H \in Nat /\ TableSize <= H /\ H < HEAP_START
    BY <1>9, <1>10
  <2>3. Left(s.bitmap) >= 2
    BY <1>3, <1>4, <1>11
  <2>4. PICK q : q = MapFresh(s, d, H, TRUE)
    OBVIOUS
  <2>5. Maps(s, q, F, d, {H}) /\ Left(q.bitmap) \in {Left(s.bitmap) - 1, Left(s.bitmap) - 2}
    BY <1>7, <2>1, <2>2, <2>3, <2>4, UserMapped
  <2>6. q = r
    BY <1>8, <1>10, <2>4
  <2>7. QED
    BY <2>5, <2>6
<1>14. Maps(c, r, F, d, {S} \cup {H})
  BY <1>7, <1>11, <1>13, MapsOn
<1>15. Grows(m.memory, r.memory, E)
  <2>1. Grows(c.memory, r.memory, E)
    BY <1>7, <1>14 DEF Maps, Grows
  <2>2. QED
    BY <1>4, <2>1, GrowsOn
<1>16. Left(r.bitmap) <= Left(m.bitmap) - 3 /\ Left(r.bitmap) >= Left(m.bitmap) - 5
  BY <1>3, <1>4, <1>11, <1>13
<1>17. /\ Sound(r, F) /\ r.cr3 = c.cr3 /\ c.bitmap \subseteq r.bitmap
       /\ OwnMapped(r.memory, d) = {USER_STACK, USER_HEAP_START}
       /\ \A e \in E : OwnMapped(r.memory, e) = OwnMapped(c.memory, e)
  <2>1. \A e \in E : e # d /\ e \in F
    BY <1>4, <1>7
  <2>2. QED
    BY <1>4, <1>10, <1>14, <2>1 DEF Maps
<1>18. OwnAsBefore(m.memory, r.memory, E)
  BY <1>4, <1>17 DEF OwnAsBefore
<1>19. QED
  BY <1>4, <1>5, <1>15, <1>16, <1>17, <1>18

-----------------------------------------------------------------------------
(* What the system calls map *)

\* The table of the kernel heap holds all that expand_heap may add.
HeapUpTo(m, h) ==
  /\ h \in Nat /\ h >= HEAP_START /\ OwnMapped(m.memory, KD) = HEAP_START .. h - 1
  /\ h - HEAP_START + Left(m.bitmap) <= TableSize

Enlarged(m, E, h, n, r) ==
  Maps(m, r, E, KD, h .. h + n - 1) /\ Left(r.bitmap) = Left(m.bitmap) - n

LEMMA Expanded ==
  ASSUME NEW m, NEW E, Sound(m, E), KD \in E, HI \in Own(m.memory, KD),
         NEW h \in Nat, HeapUpTo(m, h), NEW n \in Nat, Left(m.bitmap) >= n
  PROVE  Enlarged(m, E, h, n, MapPages(m, kernel_directory, h, n, FALSE))
<1>0. /\ h \in Nat /\ h >= HEAP_START /\ OwnMapped(m.memory, KD) = HEAP_START .. h - 1
      /\ h - HEAP_START + Left(m.bitmap) <= TableSize
  BY DEF HeapUpTo
<1>1. HI \in Nat /\ HEAP_START \in Nat /\ TableSize \in Nat /\ Left(m.bitmap) \in Nat
  BY Regions, LeftCounts, PagingAssumption
<1>2. ASSUME NEW v \in h .. h + n - 1
      PROVE  DirectoryIndex(v) = HI /\ v \notin OwnMapped(m.memory, KD)
  <2>1. PICK j \in Nat : v = HEAP_START + j
    <3>1. v - HEAP_START \in Nat /\ v = HEAP_START + (v - HEAP_START)
      BY <1>0, <1>1
    <3>2. QED
      BY <3>1
  <2>2. j < TableSize /\ v \notin HEAP_START .. h - 1
    BY <1>0, <1>1, <2>1
  <2>3. j \in Low
    BY <2>2, FramesAre
  <2>4. QED
    BY <1>0, <2>1, <2>2, <2>3, Regions
<1>3. HI <= DirectoryIndex(h)
  BY <1>0, <1>1, IndexGrows DEF HI
<1>4. n > 0 => DirectoryIndex(h + n - 1) = HI
  BY <1>0, <1>2
<1>5. PICK g : /\ g[0] = m /\ MapPages(m, kernel_directory, h, n, FALSE) = g[n]
               /\ \A i \in 1 .. n : g[i] = MapFresh(g[i - 1], kernel_directory, h + i - 1, FALSE)
  <2>1. PICK user, k : user = FALSE /\ k = kernel_directory
    OBVIOUS
  <2>2. PICK g : MapSteps(m, k, h, n, user, g)
    BY MapPagesSteps
  <2>3. QED
    BY <2>1, <2>2 DEF MapSteps
<1>6. UserOf(KD) = FALSE /\ KD = kernel_directory
  BY DEF UserOf, KD
<1>7. /\ HI = DirectoryIndex(h) => HI \in Own(m.memory, KD)
      /\ n > 0 => Left(m.bitmap) >= n + DirectoryIndex(h + n - 1) - HI
      /\ \A v \in h .. h + n - 1 :
           /\ v \notin OwnMapped(m.memory, KD)
           /\ \/ DirectoryIndex(v) \in Own(m.memory, KD)
              \/ MayAdd(m.memory, E, KD, DirectoryIndex(v))
      /\ \A i \in 1 .. n : Sound(g[i - 1], E) /\ Left(g[i - 1].bitmap) > 0 =>
                             g[i] = MapFresh(g[i - 1], KD, h + i - 1, UserOf(KD))
  <2>1. n > 0 => Left(m.bitmap) >= n + DirectoryIndex(h + n - 1) - HI
    BY <1>1, <1>4
  <2>2. QED
    BY <1>2, <1>5, <1>6, <2>1
<1>8. HI \in Int
  BY <1>1
<1>9. /\ Maps(m, g[n], E, KD, h .. h + n - 1)
      /\ Left(g[n].bitmap) <= Left(m.bitmap) - n
      /\ n > 0 => Left(g[n].bitmap) >= Left(m.bitmap) - n - (DirectoryIndex(h + n - 1) - HI)
  <2>1. Steps(m, E, KD, h, n, HI, g)
    BY <1>3, <1>5, <1>7, <1>8 DEF Steps
  <2>2. Laid(m, E, KD, h, n, HI, g[n])
    BY <1>0, <2>1, Series
  <2>3. QED
    BY <2>2 DEF Laid
<1>10. Left(g[n].bitmap) \in Nat
  BY LeftCounts
<1>11. Left(g[n].bitmap) = Left(m.bitmap) - n
  <2>1. CASE n = 0
    BY <1>1, <1>5, <2>1
  <2>2. CASE n > 0
    BY <1>1, <1>4, <1>9, <1>10, <2>2
  <2>3. QED
    BY <2>1, <2>2
<1>12. Enlarged(m, E, h, n, g[n])
  BY <1>9, <1>11 DEF Enlarged
<1>13. QED
  BY <1>5, <1>12

\* load_program maps the program's own pages.
LEMMA ProgramLoaded ==
  ASSUME NEW m, NEW E, Sound(m, E), NEW d \in E, d # KD,
         OwnMapped(m.memory, d) = {USER_STACK, USER_HEAP_START},
         NEW n \in Nat, USER_CODE_BASE + n <= USER_HEAP_START, Left(m.bitmap) >= n + 2,
         NEW r, r = LoadPages(m, d, n)
  PROVE  /\ Maps(m, r, E, d, USER_CODE_BASE .. USER_CODE_BASE + n - 1)
         /\ Left(r.bitmap) <= Left(m.bitmap) - n
<1>1. /\ USER_CODE_BASE \in Nat /\ TableSize \in Nat /\ TableSize <= USER_CODE_BASE
      /\ USER_HEAP_START \in Nat /\ USER_STACK \in Nat /\ HEAP_START \in Nat
      /\ USER_HEAP_START < USER_STACK /\ USER_STACK < HEAP_START
      /\ Left(m.bitmap) \in Nat /\ Left(m.bitmap) <= TableSize
  BY LeftCounts, PagingAssumption
<1>2. PICK first \in Nat : first = USER_CODE_BASE
  BY <1>1
<1>3. PICK c : c = DirectoryIndex(first) - 1
  OBVIOUS
<1>4. DirectoryIndex(first) \in Nat
  BY <1>2, Divided
<1>5. ASSUME NEW v \in first .. first + n - 1
      PROVE  v \notin OwnMapped(m.memory, d) /\ MayAdd(m.memory, E, d, DirectoryIndex(v))
  <2>1. v \in Nat /\ TableSize <= v /\ v < HEAP_START /\ v # USER_STACK /\ v # USER_HEAP_START
    BY <1>1, <1>2
  <2>2. QED
    BY <2>1, UserMayAdd
<1>6. n > 0 => Left(m.bitmap) >= n + DirectoryIndex(first + n - 1) - c
  <2>1. SUFFICES ASSUME n > 0 PROVE Left(m.bitmap) >= n + DirectoryIndex(first + n - 1) - c
    OBVIOUS
  <2>2. PICK k \in Nat : k = n - 1
    BY <2>1
  <2>3. first + n - 1 = first + k /\ k <= TableSize
    BY <1>1, <2>2
  <2>4. DirectoryIndex(first + k) <= DirectoryIndex(first) + 1 /\ DirectoryIndex(first + k) \in Nat
    BY <2>3, IndexNext, Divided
  <2>5. QED
    BY <1>1, <1>3, <1>4, <2>3, <2>4
<1>7. PICK g : /\ g[0] = m /\ LoadPages(m, d, n) = g[n]
               /\ \A i \in 1 .. n : g[i] = LoadPage(g[i - 1], d, USER_CODE_BASE + i - 1)
  BY LoadPagesSteps
<1>8. \A i \in 1 .. n : Sound(g[i - 1], E) /\ Left(g[i - 1].bitmap) > 0 =>
                          g[i] = MapFresh(g[i - 1], d, first + i - 1, UserOf(d))
  <2>1. UserOf(d) = TRUE
    BY DEF UserOf
  <2>2. ASSUME NEW i \in 1 .. n, Sound(g[i - 1], E), Left(g[i - 1].bitmap) > 0
        PROVE  g[i] = MapFresh(g[i - 1], d, first + i - 1, UserOf(d))
    BY <1>2, <1>7, <2>1, <2>2, LoadPageIs
  <2>3. QED
    BY <2>2
<1>9. c \in Int /\ c <= DirectoryIndex(first) /\ c # DirectoryIndex(first)
  BY <1>3, <1>4
<1>10. Maps(m, g[n], E, d, first .. first + n - 1) /\ Left(g[n].bitmap) <= Left(m.bitmap) - n
  <2>1. g[0] = m
    BY <1>7
  <2>2. Steps(m, E, d, first, n, c, g)
    BY <1>5, <1>6, <1>8, <1>9, <2>1 DEF Steps
  <2>3. Laid(m, E, d, first, n, c, g[n])
    BY <1>5, <2>2, Series
  <2>4. QED
    BY <2>3 DEF Laid
<1>11. QED
  BY <1>2, <1>7, <1>10

\* sbrk goes on where the heap ends.
LEMMA HeapExtended ==
  ASSUME NEW m, NEW E, Sound(m, E), NEW d \in E, d # KD,
         NEW h \in Nat, h >= 1, h + Left(m.bitmap) <= TableSize,
         USER_HEAP_START + h - 1 \in OwnMapped(m.memory, d),
         \A v \in OwnMapped(m.memory, d) : v < USER_HEAP_START + h \/ v >= USER_STACK,
         NEW n \in Nat, Left(m.bitmap) >= n + 1,
         NEW r, r = MapPages(m, d, USER_HEAP_START + h, n, TRUE)
  PROVE  /\ Maps(m, r, E, d, USER_HEAP_START + h .. USER_HEAP_START + h + n - 1)
         /\ Left(r.bitmap) <= Left(m.bitmap) - n
<1>1. /\ USER_HEAP_START \in Nat /\ TableSize \in Nat /\ TableSize <= USER_HEAP_START
      /\ USER_STACK \in Nat /\ HEAP_START \in Nat
      /\ USER_HEAP_START + TableSize <= USER_STACK /\ USER_STACK < HEAP_START
      /\ Left(m.bitmap) \in Nat
  BY LeftCounts, PagingAssumption, RegionsAssumption
<1>2. PICK first \in Nat : first = USER_HEAP_START + h
  BY <1>1
<1>3. PICK last \in Nat : last = first - 1 /\ first = last + 1
  BY <1>1, <1>2
<1>4. PICK c \in Nat : c = DirectoryIndex(last)
  BY Divided
<1>5. c <= DirectoryIndex(first)
  <2>1. last <= first /\ last \in Nat /\ first \in Nat
    BY <1>2, <1>3
  <2>2. DirectoryIndex(last) <= DirectoryIndex(first)
    BY <2>1, IndexGrows
  <2>3. QED
    BY <1>4, <2>2
<1>6. c \in Own(m.memory, d)
  <2>0. last = USER_HEAP_START + h - 1
    BY <1>1, <1>2, <1>3
  <2>1. last \in OwnMapped(m.memory, d)
    BY <2>0
  <2>2. QED
    BY <1>4, <2>1 DEF OwnMapped
<1>7. ASSUME NEW v \in first .. first + n - 1
      PROVE  v \notin OwnMapped(m.memory, d) /\ MayAdd(m.memory, E, d, DirectoryIndex(v))
  <2>1. v \in Nat /\ TableSize <= v /\ v < HEAP_START /\ v >= USER_HEAP_START + h /\ v < USER_STACK
    BY <1>1, <1>2
  <2>2. ~ (v < USER_HEAP_START + h) /\ ~ (v >= USER_STACK)
    BY <1>1, <2>1
  <2>3. QED
    BY <2>1, <2>2, UserMayAdd
<1>8. n > 0 => Left(m.bitmap) >= n + DirectoryIndex(first + n - 1) - c
  <2>1. SUFFICES ASSUME n > 0 PROVE Left(m.bitmap) >= n + DirectoryIndex(first + n - 1) - c
    OBVIOUS
  <2>2. first + n - 1 = last + n /\ n <= TableSize
    BY <1>1, <1>3
  <2>3. DirectoryIndex(last + n) <= DirectoryIndex(last) + 1 /\ DirectoryIndex(last + n) \in Nat
    BY <2>2, IndexNext, Divided
  <2>4. QED
    BY <1>1, <1>4, <2>2, <2>3
<1>9. PICK g : /\ g[0] = m /\ MapPages(m, d, USER_HEAP_START + h, n, TRUE) = g[n]
               /\ \A i \in 1 .. n : g[i] = MapFresh(g[i - 1], d, USER_HEAP_START + h + i - 1, TRUE)
  <2>1. PICK user : user = TRUE
    OBVIOUS
  <2>2. PICK g : MapSteps(m, d, first, n, user, g)
    BY MapPagesSteps
  <2>3. QED
    BY <1>2, <2>1, <2>2 DEF MapSteps
<1>10. \A i \in 1 .. n : g[i] = MapFresh(g[i - 1], d, first + i - 1, UserOf(d))
  <2>1. UserOf(d) = TRUE
    BY DEF UserOf
  <2>2. QED
    BY <1>2, <1>9, <2>1
<1>11. Maps(m, g[n], E, d, first .. first + n - 1) /\ Left(g[n].bitmap) <= Left(m.bitmap) - n
  <2>1. g[0] = m /\ c \in Int
    BY <1>9
  <2>2. Steps(m, E, d, first, n, c, g)
    BY <1>5, <1>6, <1>7, <1>8, <1>10, <2>1 DEF Steps
  <2>3. Laid(m, E, d, first, n, c, g[n])
    BY <1>5, <1>6, <1>7, <2>2, Series
  <2>4. QED
    BY <2>3 DEF Laid
<1>12. QED
  BY <1>2, <1>9, <1>11

-----------------------------------------------------------------------------
(* Switching spaces, and taking one down *)

\* The address of a directory that is in use is where it lies.
LEMMA SwitchTo ==
  ASSUME NEW m, NEW E, Sound(m, E), NEW d \in E
  PROVE  /\ get_physical_address(m, kernel_directory, d) = d
         /\ Sound(set_cr3(m, d), E) /\ set_cr3(m, d).memory = m.memory
         /\ set_cr3(m, d).bitmap = m.bitmap /\ set_cr3(m, d).cr3 = d
<1>1. PICK R : Spaced(m, E, R)
  BY DEF Sound
<1>2. /\ m \in Machines /\ ~m.stray /\ Spaces(m.bitmap, m.memory, E, R)
      /\ m.memory \in [Frames -> Contents] /\ d \in Low /\ d \in Frames /\ KD \in E
  BY <1>1, MembersAre, MachineHas DEF Spaced
<1>3. get_physical_address(m, kernel_directory, d) = d
  <2>1. Mapped(m.memory, KD, d) /\ FrameOf(m.memory, KD, d) = d
    BY <1>2, IdentityIs
  <2>2. QED
    BY <2>1 DEF get_physical_address, KD
<1>4. PICK T : T = Translations(m.memory, d)
  OBVIOUS
<1>5. T \subseteq Nat \X Frames
  BY <1>2, <1>4, TranslationsAre
<1>6. set_cr3(m, d) = [m EXCEPT !.cr3 = d, !.cached = T]
  BY <1>4 DEF set_cr3
<1>7. PICK s : s = set_cr3(m, d)
  OBVIOUS
<1>8. /\ s \in Machines /\ s.memory = m.memory /\ s.bitmap = m.bitmap /\ s.cr3 = d
      /\ ~s.stray /\ s.cached = T
  BY <1>2, <1>5, <1>6, <1>7 DEF Machines
<1>9. Sound(s, E)
  <2>1. Spaced(s, E, R)
    BY <1>2, <1>8 DEF Spaced
  <2>2. s.cached \subseteq Translations(s.memory, s.cr3)
    BY <1>4, <1>8
  <2>3. QED
    BY <2>1, <2>2 DEF Sound
<1>10. QED
  BY <1>3, <1>7, <1>8, <1>9

\* All that a directory leads to is as it was.
Same(mem, mem2, d) ==
  mem2[d] = mem[d] /\ \A i \in DOMAIN mem[d] : mem2[At(mem, d, i)] = mem[At(mem, d, i)]

LEMMA SameGrows ==
  ASSUME NEW mem, NEW mem2, NEW d, Same(mem, mem2, d)
  PROVE  Grows(mem, mem2, {d}) /\ OwnMapped(mem2, d) = OwnMapped(mem, d)
<1>1. Grows(mem, mem2, {d})
  BY DEF Same, Grows, KeptAt, Kept
<1>2. mem2[d] = mem[d] /\ \A i \in Own(mem, d) : mem2[At(mem, d, i)] = mem[At(mem, d, i)]
  BY DEF Same, Own
<1>3. QED
  BY <1>1, <1>2, OwnMappedSame

\* Taking a page from a program changes nothing for the others.
LEMMA PageUnmapped ==
  ASSUME NEW m, NEW E, Sound(m, E), NEW d \in E, d # KD, m.cr3 # d,
         NEW v \in Nat, TableSize <= v, v < HEAP_START, NEW r, r = unmap_page(m, d, v)
  PROVE  /\ Sound(r, E) /\ r.cr3 = m.cr3 /\ r.bitmap = m.bitmap
         /\ \A e \in E : e # d => Same(m.memory, r.memory, e)
<1> DEFINE i == DirectoryIndex(v)
<1>1. PICK R : Spaced(m, E, R)
  BY DEF Sound
<1>2. PICK mem : mem = m.memory
  OBVIOUS
<1>3. /\ m \in Machines /\ ~m.stray /\ m.cr3 \in E /\ Spaces(m.bitmap, mem, E, R)
      /\ mem \in [Frames -> Contents] /\ d \in Low /\ d \in Frames /\ KD \in E /\ m.cr3 \in Frames
  BY <1>1, <1>2, MembersAre, MachineHas DEF Spaced
<1>4. Access(m, d) = m
  BY <1>1, <1>3, Reached
<1>5. i \notin {0, HI}
  BY UserMayAdd
<1>6. PICK t : t = At(mem, d, i)
  OBVIOUS
<1>7. CASE i \notin DOMAIN mem[d]
  <2>1. r = m
    BY <1>2, <1>4, <1>7 DEF unmap_page
  <2>2. QED
    BY <2>1 DEF Same
<1>8. CASE i \in DOMAIN mem[d]
  <2>1. i \in Own(mem, d)
    BY <1>5, <1>8 DEF Own
  <2> HIDE DEF i
  <2>2. t \in Low /\ t \in Frames /\ mem[t] \in Contents /\ R[t] = Tab(d, i)
    <3>1. t \in Low /\ t \in Frames /\ mem[t] \in Contents
      BY <1>3, <1>6, <2>1, MembersAre
    <3>2. R[t] = Tab(d, i)
      BY <1>3, <1>6, <2>1 DEF Spaces, OwnTables
    <3>3. QED
      BY <3>1, <3>2
  <2>3. PICK w : w = Without(mem[t], TableIndex(v))
    OBVIOUS
  <2>4. /\ w \in Contents /\ DOMAIN w \subseteq DOMAIN mem[t]
        /\ \A k \in DOMAIN w : w[k] = mem[t][k]
    <3>1. PICK T \in Contents : T = mem[t]
      BY <2>2
    <3>2. PICK j : j = TableIndex(v)
      OBVIOUS
    <3>3. w = Without(T, j)
      BY <2>3, <3>1, <3>2
    <3>4. w \in Contents /\ DOMAIN w = DOMAIN T \ {j} /\ \A k \in DOMAIN T \ {j} : w[k] = T[k]
      BY <3>3, WithoutIs
    <3>5. QED
      BY <3>1, <3>4
  <2>5. PICK s : s = Store(m, t, w)
    OBVIOUS
  <2>6. /\ s \in Machines /\ s.bitmap = m.bitmap /\ s.memory = [mem EXCEPT ![t] = w]
        /\ s.cr3 = m.cr3 /\ s.cached = m.cached /\ ~s.stray
    <3>1. R[t] # Dir
      BY <2>2, RolesDiffer
    <3>2. QED
      BY <1>1, <1>2, <2>2, <2>4, <2>5, <3>1, StoreIs
  <2>7. r = s
    <3>1. r = Flush(s, d, v)
      BY <1>2, <1>4, <1>6, <1>8, <2>3, <2>5 DEF unmap_page, Without, Table, At, i
    <3>2. QED
      BY <3>1 DEF Flush, KD
  <2>8. PICK mem2 : mem2 = r.memory
    OBVIOUS
  <2>9. Shrunk(mem, mem2, t)
    BY <1>3, <2>2, <2>4, <2>6, <2>7, <2>8 DEF Shrunk
  <2>10. /\ Spaces(m.bitmap, mem2, E, R)
         /\ \A e \in E : mem2[e] = mem[e]
         /\ mem2[At(mem, KD, 0)] = mem[At(mem, KD, 0)]
         /\ \A e \in E : \A k \in Own(mem, e) : e # d => mem2[At(mem, e, k)] = mem[At(mem, e, k)]
    BY <1>3, <1>6, <2>1, <2>9, PageRemoved
  <2>11. ASSUME NEW e \in E, e # d PROVE Same(mem, mem2, e)
    <3>1. ASSUME NEW k \in DOMAIN mem[e] PROVE mem2[At(mem, e, k)] = mem[At(mem, e, k)]
      <4>1. \/ k = 0 /\ mem[e][k] = mem[KD][0]
            \/ k \in Own(mem, e)
            \/ k = HI /\ HI \in Own(mem, KD) /\ mem[e][k] = mem[KD][HI]
        BY <1>3, EntryOf
      <4>2. CASE k = 0 /\ mem[e][k] = mem[KD][0]
        BY <2>10, <4>2 DEF At
      <4>3. CASE k \in Own(mem, e)
        BY <2>10, <2>11, <4>3
      <4>4. CASE k = HI /\ HI \in Own(mem, KD) /\ mem[e][k] = mem[KD][HI]
        <5>1. mem2[At(mem, KD, HI)] = mem[At(mem, KD, HI)]
          BY <1>3, <2>10, <4>4
        <5>2. QED
          BY <4>4, <5>1 DEF At
      <4>5. QED
        BY <4>1, <4>2, <4>3, <4>4
    <3>2. QED
      BY <2>10, <3>1 DEF Same
  <2>12. Sound(r, E)
    <3>1. Spaced(r, E, R)
      BY <1>3, <2>6, <2>7, <2>8, <2>10 DEF Spaced
    <3>2. Grows(mem, mem2, {m.cr3})
      BY <1>3, <2>11, SameGrows
    <3>3. Translations(mem, m.cr3) \subseteq Translations(mem2, m.cr3)
      <4>1. mem2 \in [Frames -> Contents] /\ m.cr3 \in {m.cr3}
        BY <2>9 DEF Shrunk
      <4>2. QED
        BY <1>3, <3>2, <4>1, TranslationsKept
    <3>4. r.cached \subseteq Translations(r.memory, r.cr3)
      BY <1>2, <2>6, <2>7, <2>8, <3>3 DEF Sound
    <3>5. QED
      BY <3>1, <3>4 DEF Sound
  <2>13. QED
    BY <1>2, <2>6, <2>7, <2>8, <2>11, <2>12
<1>9. QED
  BY <1>7, <1>8

\* What was mapped through a table of a directory stays mapped.
Holds(mem, mem2, d) ==
  OwnMapped(mem2, d) = OwnMapped(mem, d) /\ \A i \in Own(mem, d) : KeptAt(mem, mem2, d, i)

LEMMA SameHolds ==
  ASSUME NEW mem, NEW mem2, NEW d, Same(mem, mem2, d)
  PROVE  Holds(mem, mem2, d)
<1>1. Grows(mem, mem2, {d}) /\ OwnMapped(mem2, d) = OwnMapped(mem, d)
  BY SameGrows
<1>2. QED
  BY <1>1 DEF Grows, Holds, Own

LEMMA SameOn ==
  ASSUME NEW mem, NEW mem2, NEW mem3, NEW d, Same(mem, mem2, d), Same(mem2, mem3, d)
  PROVE  Same(mem, mem3, d)
<1>1. mem3[d] = mem[d] /\ \A i : At(mem2, d, i) = At(mem, d, i)
  BY DEF Same, At
<1>2. \A i \in DOMAIN mem[d] : mem3[At(mem, d, i)] = mem[At(mem, d, i)]
  BY <1>1 DEF Same
<1>3. QED
  BY <1>1, <1>2 DEF Same

\* The identity mapping of a directory goes, and the TLB forgets it.
LEMMA DirectoryUnmapped ==
  ASSUME NEW m, NEW E, Sound(m, E), NEW x \in E, x # KD, m.cr3 # x,
         NEW r, r = unmap_page(m, kernel_directory, x)
  PROVE  /\ Sound(r, E \ {x}) /\ r.cr3 = m.cr3 /\ r.bitmap = m.bitmap
         /\ \A e \in E : Holds(m.memory, r.memory, e)
<1>1. PICK R : Spaced(m, E, R)
  BY DEF Sound
<1>2. PICK mem : mem = m.memory
  OBVIOUS
<1>3. /\ m \in Machines /\ ~m.stray /\ m.cr3 \in E /\ Spaces(m.bitmap, mem, E, R)
      /\ mem \in [Frames -> Contents] /\ x \in Low /\ x \in Frames /\ KD \in E /\ m.cr3 \in Frames
      /\ KD \in Low /\ KD \in Frames
  BY <1>1, <1>2, MembersAre, MachineHas DEF Spaced
<1>4. Access(m, KD) = m
  BY <1>1, <1>3, Reached
<1>5. PICK t : t = At(mem, KD, 0)
  OBVIOUS
<1>6. /\ 0 \in DOMAIN mem[KD] /\ t \in Low /\ t \in Frames /\ R[t] = Tab(KD, 0)
      /\ \A e \in E : 0 \in DOMAIN mem[e] /\ mem[e][0] = mem[KD][0]
  BY <1>3, <1>5, FramesAre DEF Spaces, Shared
<1>7. mem[t] \in Contents
  BY <1>3, <1>6
<1>8. DirectoryIndex(x) = 0 /\ TableIndex(x) = x /\ x \in Nat
  BY <1>3, Regions, FramesAre
<1>9. PICK w : w = Without(mem[t], x)
  OBVIOUS
<1>10. /\ w \in Contents /\ DOMAIN w = DOMAIN mem[t] \ {x}
       /\ \A k \in DOMAIN mem[t] \ {x} : w[k] = mem[t][k]
  BY <1>7, <1>9, WithoutIs
<1>11. PICK s : s = Store(m, t, w)
  OBVIOUS
<1>12. /\ s \in Machines /\ s.bitmap = m.bitmap /\ s.memory = [mem EXCEPT ![t] = w]
       /\ s.cr3 = m.cr3 /\ s.cached = m.cached /\ ~s.stray
  <2>1. R[t] # Dir
    BY <1>6, RolesDiffer
  <2>2. QED
    BY <1>1, <1>2, <1>6, <1>10, <1>11, <2>1, StoreIs
<1>13. r = Flush(s, KD, x)
  BY <1>2, <1>4, <1>5, <1>6, <1>8, <1>9, <1>11 DEF unmap_page, Without, Table, At, KD
<1>14. PICK C : C = {c \in m.cached : c[1] # x}
  OBVIOUS
<1>15. /\ r \in Machines /\ r.bitmap = m.bitmap /\ r.memory = s.memory /\ r.cr3 = m.cr3
       /\ r.cached = C /\ ~r.stray
  <2>1. C \subseteq Nat \X Frames
    BY <1>3, <1>14, MachineHas
  <2>2. r = [s EXCEPT !.cached = C]
    BY <1>12, <1>13, <1>14 DEF Flush, KD
  <2>3. QED
    BY <1>12, <2>1, <2>2 DEF Machines
<1>16. PICK mem2 : mem2 = r.memory
  OBVIOUS
<1>17. /\ Shrunk(mem, mem2, t) /\ DOMAIN mem2[t] = DOMAIN mem[t] \ {x}
       /\ mem2 \in [Frames -> Contents]
       /\ \A k \in DOMAIN mem2[t] : mem2[t][k] = mem[t][k]
       /\ \A g \in Frames : g # t => mem2[g] = mem[g]
  BY <1>3, <1>6, <1>10, <1>12, <1>15, <1>16 DEF Shrunk
<1>18. /\ Spaces(m.bitmap, mem2, E \ {x}, R)
       /\ \A e \in E : mem2[e] = mem[e]
       /\ \A e \in E : \A k \in Own(mem, e) : mem2[At(mem, e, k)] = mem[At(mem, e, k)]
  <2>1. PICK b : b = m.bitmap
    OBVIOUS
  <2>2. Spaces(b, mem, E, R)
    BY <1>3, <2>1
  <2>3. Retired(mem, mem2, At(mem, KD, 0), x)
    BY <1>5, <1>17 DEF Retired
  <2>4. Spaces(b, mem2, E \ {x}, R)
    BY <2>2, <2>3, DirectoryRetired
  <2>6. \A e \in E : mem2[e] = mem[e]
    <3>1. \A e \in E : e \in Frames /\ R[e] = Dir
      BY <1>3, FramesAre DEF Spaces, Reserved
    <3>2. QED
      BY <1>6, <1>17, <3>1, RolesDiffer
  <2>7. ASSUME NEW e \in E, NEW k \in Own(mem, e)
        PROVE  mem2[At(mem, e, k)] = mem[At(mem, e, k)]
    <3>1. At(mem, e, k) \in Low /\ R[At(mem, e, k)] = Tab(e, k) /\ k # 0
      BY <1>3 DEF Spaces, OwnTables, Own
    <3>2. At(mem, e, k) \in Frames /\ At(mem, e, k) # t
      BY <1>6, <3>1, FramesAre, RolesDiffer
    <3>3. QED
      BY <1>17, <3>2
  <2>5. QED
    BY <2>1, <2>4, <2>6, <2>7
<1>19. ASSUME NEW e \in E PROVE Holds(mem, mem2, e)
  <2>1. mem2[e] = mem[e] /\ \A k \in Own(mem, e) : mem2[At(mem, e, k)] = mem[At(mem, e, k)]
    BY <1>18
  <2>2. OwnMapped(mem2, e) = OwnMapped(mem, e)
    BY <2>1, OwnMappedSame
  <2>3. QED
    BY <2>1, <2>2 DEF Holds, KeptAt, Kept, Own
<1>20. ASSUME NEW v \in MappedPages(mem, m.cr3), v # x
       PROVE  v \in MappedPages(mem2, m.cr3) /\ FrameOf(mem2, m.cr3, v) = FrameOf(mem, m.cr3, v)
  <2> DEFINE i == DirectoryIndex(v)
             j == TableIndex(v)
  <2>1. v \in Nat /\ i \in DOMAIN mem[m.cr3] /\ j \in DOMAIN mem[At(mem, m.cr3, i)]
    BY <1>3, PagesFound DEF Mapped, Table, At
  <2>2. mem2[m.cr3] = mem[m.cr3] /\ At(mem2, m.cr3, i) = At(mem, m.cr3, i)
    BY <1>3, <1>18 DEF At
  <2>3. j \in DOMAIN mem2[At(mem, m.cr3, i)] /\ mem2[At(mem, m.cr3, i)][j] = mem[At(mem, m.cr3, i)][j]
    <3>1. CASE i = 0
      <4>1. At(mem, m.cr3, i) = t
        BY <1>3, <1>5, <1>6, <3>1 DEF At
      <4>2. v = i * TableSize + j /\ TableSize \in Nat /\ j \in Nat
        BY <2>1, Divided, FramesAre, PagingAssumption
      <4> HIDE DEF i, j
      <4>3. v = j
        BY <3>1, <4>2
      <4>4. QED
        BY <1>17, <1>20, <2>1, <4>1, <4>3
    <3>2. CASE i # 0
      <4> HIDE DEF i, j
      <4>1. At(mem, m.cr3, i) \in Frames /\ (i \in Own(mem, m.cr3) \/ (i = HI /\ HI \in Own(mem, KD) /\ mem[m.cr3][i] = mem[KD][HI]))
        BY <1>3, <2>1, <3>2, EntryOf
      <4>2. mem2[At(mem, m.cr3, i)] = mem[At(mem, m.cr3, i)]
        <5>1. CASE i \in Own(mem, m.cr3)
          BY <1>3, <1>18, <5>1
        <5>2. CASE i = HI /\ HI \in Own(mem, KD) /\ mem[m.cr3][i] = mem[KD][HI]
          <6>1. mem2[At(mem, KD, HI)] = mem[At(mem, KD, HI)]
            BY <1>3, <1>18, <5>2
          <6>2. QED
            BY <5>2, <6>1 DEF At
        <5>3. QED
          BY <4>1, <5>1, <5>2
      <4>3. QED
        BY <2>1, <4>2
    <3>3. QED
      BY <3>1, <3>2
  <2>4. Table(mem2, m.cr3, v) = At(mem, m.cr3, i) /\ Table(mem, m.cr3, v) = At(mem, m.cr3, i)
    BY <2>2 DEF Table, At
  <2>5. Mapped(mem2, m.cr3, v)
    BY <2>1, <2>2, <2>3, <2>4 DEF Mapped
  <2>6. FrameOf(mem2, m.cr3, v) = FrameOf(mem, m.cr3, v)
    BY <2>3, <2>4 DEF FrameOf
  <2>7. v \in MappedPages(mem2, m.cr3)
    <3> HIDE DEF i, j
    <3> QED
      BY <1>3, <1>17, <2>1, <2>5, PagesFound
  <2>8. QED
    BY <2>6, <2>7
<1>21. C \subseteq Translations(mem2, m.cr3)
  <2>1. ASSUME NEW c \in C PROVE c \in Translations(mem2, m.cr3)
    <3>1. c \in Translations(mem, m.cr3) /\ c[1] # x
      BY <1>2, <1>14 DEF Sound
    <3>2. PICK v \in MappedPages(mem, m.cr3) : c = <<v, FrameOf(mem, m.cr3, v)>>
      BY <3>1 DEF Translations
    <3>3. v # x
      BY <3>1, <3>2
    <3>4. QED
      BY <1>20, <3>2, <3>3 DEF Translations
  <2>2. QED
    BY <2>1
<1>22. Sound(r, E \ {x})
  <2>1. Spaced(r, E \ {x}, R)
    BY <1>3, <1>15, <1>16, <1>18 DEF Spaced
  <2>2. r.cached \subseteq Translations(r.memory, r.cr3)
    BY <1>15, <1>16, <1>21
  <2>3. QED
    BY <2>1, <2>2 DEF Sound
<1>23. QED
  BY <1>2, <1>15, <1>16, <1>19, <1>22

LEMMA HoldsOn ==
  ASSUME NEW mem, NEW mem2, NEW mem3, NEW d, Same(mem, mem2, d), Holds(mem2, mem3, d)
  PROVE  Holds(mem, mem3, d)
<1>1. OwnMapped(mem2, d) = OwnMapped(mem, d) /\ mem2[d] = mem[d]
  BY SameGrows DEF Same
<1>2. ASSUME NEW i \in Own(mem, d) PROVE KeptAt(mem, mem3, d, i)
  <2>1. i \in DOMAIN mem[d] /\ i \in Own(mem2, d) /\ At(mem2, d, i) = At(mem, d, i)
    BY <1>1 DEF Own, At
  <2>2. mem2[At(mem, d, i)] = mem[At(mem, d, i)]
    BY <2>1 DEF Same
  <2>3. KeptAt(mem2, mem3, d, i)
    BY <2>1 DEF Holds
  <2>4. i \in DOMAIN mem3[d] /\ mem3[d][i] = mem2[d][i] /\ Kept(mem2, mem3, At(mem, d, i))
    BY <2>1, <2>3 DEF KeptAt
  <2>5. Kept(mem, mem3, At(mem, d, i))
    BY <2>2, <2>4 DEF Kept
  <2>6. QED
    BY <1>1, <2>4, <2>5 DEF KeptAt
<1>3. QED
  BY <1>1, <1>2 DEF Holds

\* What destroy_process leaves.
LEMMA Destroyed ==
  ASSUME NEW m, NEW E, Sound(m, E), NEW d \in E, d # KD, m.cr3 # d,
         NEW p, process[p].page_directory = d, NEW r, r = Unmapped(m, p)
  PROVE  /\ Sound(r, E \ {d}) /\ r.cr3 = m.cr3 /\ r.bitmap = m.bitmap
         /\ \A e \in E : e # d => Holds(m.memory, r.memory, e)
<1>1. PICK S, C, V : S = USER_STACK /\ C = USER_CODE_BASE /\ V = USER_VGA
  OBVIOUS
<1>2. /\ S \in Nat /\ TableSize <= S /\ S < HEAP_START
      /\ C \in Nat /\ TableSize <= C /\ C < HEAP_START
      /\ V \in Nat /\ TableSize <= V /\ V < HEAP_START
  BY <1>1, PagingAssumption, RegionsAssumption
<1>3. PICK s : s = unmap_page(m, d, S)
  OBVIOUS
<1>4. PICK c : c = unmap_page(s, d, C)
  OBVIOUS
<1>5. PICK w : w = unmap_page(c, d, V)
  OBVIOUS
<1>6. PICK x : x = unmap_page(w, kernel_directory, d)
  OBVIOUS
<1>7. r = x
  BY <1>1, <1>3, <1>4, <1>5, <1>6 DEF Unmapped
<1>8. /\ Sound(s, E) /\ s.cr3 = m.cr3 /\ s.bitmap = m.bitmap
      /\ \A e \in E : e # d => Same(m.memory, s.memory, e)
  BY <1>2, <1>3, PageUnmapped
<1>9. s.cr3 # d
  BY <1>8
<1>10. /\ Sound(c, E) /\ c.cr3 = s.cr3 /\ c.bitmap = s.bitmap
       /\ \A e \in E : e # d => Same(s.memory, c.memory, e)
  BY <1>2, <1>4, <1>8, <1>9, PageUnmapped
<1>11. c.cr3 # d
  BY <1>9, <1>10
<1>12. /\ Sound(w, E) /\ w.cr3 = c.cr3 /\ w.bitmap = c.bitmap
       /\ \A e \in E : e # d => Same(c.memory, w.memory, e)
  BY <1>2, <1>5, <1>10, <1>11, PageUnmapped
<1>13. w.cr3 # d /\ Sound(w, E)
  BY <1>11, <1>12
<1>14. /\ Sound(x, E \ {d}) /\ x.cr3 = w.cr3 /\ x.bitmap = w.bitmap
       /\ \A e \in E : Holds(w.memory, x.memory, e)
  BY <1>6, <1>13, DirectoryUnmapped
<1>15. ASSUME NEW e \in E, e # d PROVE Holds(m.memory, x.memory, e)
  <2>1. Same(m.memory, s.memory, e) /\ Same(s.memory, c.memory, e) /\ Same(c.memory, w.memory, e)
    BY <1>8, <1>10, <1>12, <1>15
  <2>2. Same(m.memory, c.memory, e)
    BY <2>1, SameOn
  <2>3. Same(m.memory, w.memory, e)
    BY <2>1, <2>2, SameOn
  <2>4. QED
    BY <1>14, <2>3, HoldsOn
<1>16. QED
  BY <1>7, <1>8, <1>10, <1>12, <1>14, <1>15

-----------------------------------------------------------------------------
(* What holds as long as no program ran before its code was there *)

AliveIn(procs) == {p \in Programs : procs[p].alive}
DirectoriesOf(procs) == {KD} \cup {procs[p].page_directory : p \in AliveIn(procs)}

ProcessTyped(procs) ==
  procs \in [Programs -> [alive : BOOLEAN, page_directory : Frames, heap_pages_allocated : Nat]]

\* No two processes share a directory, and none has one of before the first.
DirectoriesApart(procs) ==
  \A p \in AliveIn(procs) :
    /\ procs[p].page_directory # KD /\ procs[p].page_directory \notin init_heap.bitmap
    /\ \A q \in AliveIn(procs) : procs[p].page_directory = procs[q].page_directory => p = q

HeapOf(n) == USER_HEAP_START .. USER_HEAP_START + n - 1
CodeRange == USER_CODE_BASE .. USER_HEAP_START - 1

\* A program has its stack and n heap pages, and no more than its code besides.
SpaceOf(m, d, n) ==
  /\ n \in Nat /\ n >= 1 /\ n + Left(m.bitmap) <= TableSize
  /\ HeapOf(n) \cup {USER_STACK} \subseteq OwnMapped(m.memory, d)
  /\ OwnMapped(m.memory, d) \subseteq CodeRange \cup HeapOf(n) \cup {USER_STACK}

ProgramSpaces(m, procs) ==
  \A p \in AliveIn(procs) : SpaceOf(m, procs[p].page_directory, procs[p].heap_pages_allocated)

\* The kernel heap ends at h, within its table.
KernelSpace(m, h) ==
  /\ h \in Nat /\ h > HEAP_START /\ OwnMapped(m.memory, KD) = HEAP_START .. h - 1
  /\ h - HEAP_START + Left(m.bitmap) <= TableSize

Good(m, procs, h) ==
  /\ Sound(m, DirectoriesOf(procs)) /\ ProcessTyped(procs) /\ DirectoriesApart(procs)
  /\ ProgramSpaces(m, procs) /\ KernelSpace(m, h) /\ init_heap.bitmap \subseteq m.bitmap

Sane == Good(Machine, process, heapEnd) /\ current \in AliveIn(process) \cup {Kernel}

\* While the loader is at work, its program is the only one and does not run.
\* In its directory are the pages before the next one.
AtWork(mem, procs, c, l) ==
  /\ c = Kernel /\ AliveIn(procs) = {l.program} /\ l.program \in Programs
  /\ procs[l.program].page_directory = l.directory /\ procs[l.program].heap_pages_allocated = 1
  /\ USER_CODE_BASE <= l.next /\ l.next + l.left <= USER_HEAP_START
  /\ OwnMapped(mem, l.directory) =
       {USER_STACK, USER_HEAP_START} \cup (USER_CODE_BASE .. l.next - 1)

LoadingTyped(l) ==
  l \in [program : Programs \cup {Kernel}, directory : Frames, next : Nat, left : Nat]

LoaderAt(mem, procs, c, l) == LoadingTyped(l) /\ (l.left > 0 => AtWork(mem, procs, c, l))

Loader == LoaderAt(memory, process, current, loading)

-----------------------------------------------------------------------------
(* Every call leaves it true *)

\* Fewer frames are left when more are taken.
LEMMA LeftFalls ==
  ASSUME NEW b, NEW b2, b \subseteq b2
  PROVE  Left(b2) <= Left(b)
<1>1. TableSize \in Nat /\ 0 \in Int /\ TableSize - 1 \in Int
  BY PagingAssumption
<1>2. IsFiniteSet(Low)
  BY <1>1, FS_Interval DEF Low
<1>3. IsFiniteSet(Low \ b) /\ Low \ b2 \subseteq Low \ b
  BY <1>2, FS_Subset
<1>4. QED
  BY <1>3, FS_Subset DEF Left

\* A space nothing was mapped in is as it was.
LEMMA SpaceKept ==
  ASSUME NEW m, NEW m2, NEW d, NEW n, SpaceOf(m, d, n), m.bitmap \subseteq m2.bitmap,
         OwnMapped(m2.memory, d) = OwnMapped(m.memory, d)
  PROVE  SpaceOf(m2, d, n)
<1>1. Left(m2.bitmap) <= Left(m.bitmap) /\ Left(m.bitmap) \in Nat /\ Left(m2.bitmap) \in Nat
  BY LeftFalls, LeftCounts
<1>2. n + Left(m2.bitmap) <= TableSize
  BY <1>1, PagingAssumption DEF SpaceOf
<1>3. QED
  BY <1>2 DEF SpaceOf

LEMMA KernelKept ==
  ASSUME NEW m, NEW m2, NEW h, KernelSpace(m, h), m.bitmap \subseteq m2.bitmap,
         OwnMapped(m2.memory, KD) = OwnMapped(m.memory, KD)
  PROVE  KernelSpace(m2, h)
<1>1. Left(m2.bitmap) <= Left(m.bitmap) /\ Left(m.bitmap) \in Nat /\ Left(m2.bitmap) \in Nat
  BY LeftFalls, LeftCounts
<1>2. h - HEAP_START + Left(m2.bitmap) <= TableSize
  BY <1>1, PagingAssumption DEF KernelSpace
<1>3. QED
  BY <1>2 DEF KernelSpace

\* Another space is switched to.
LEMMA Switched ==
  ASSUME NEW m, NEW procs, NEW h, Good(m, procs, h), NEW p \in AliveIn(procs) \cup {Kernel}
  PROVE  /\ Good(SwitchMachine(m, procs, p), procs, h)
         /\ SwitchMachine(m, procs, p).memory = m.memory
         /\ SwitchMachine(m, procs, p).bitmap = m.bitmap
         /\ SwitchMachine(m, procs, p).cr3 =
              IF p = Kernel THEN KD ELSE procs[p].page_directory
<1>1. Kernel \notin AliveIn(procs)
  BY ProgramsAssumption DEF AliveIn
<1>2. PICK d : d = IF p = Kernel THEN KD ELSE procs[p].page_directory
  OBVIOUS
<1>3. d \in DirectoriesOf(procs)
  BY <1>2 DEF DirectoriesOf
<1>4. PICK s : s = set_cr3(m, d)
  OBVIOUS
<1>5. /\ get_physical_address(m, kernel_directory, d) = d
      /\ Sound(s, DirectoriesOf(procs)) /\ s.memory = m.memory
      /\ s.bitmap = m.bitmap /\ s.cr3 = d
  BY <1>3, <1>4, SwitchTo DEF Good
<1>6. SwitchMachine(m, procs, p) = s
  BY <1>2, <1>4, <1>5 DEF SwitchMachine, KD
<1>7. Good(s, procs, h)
  <2>1. ProgramSpaces(s, procs)
    BY <1>5 DEF Good, ProgramSpaces, SpaceOf
  <2>2. KernelSpace(s, h)
    BY <1>5 DEF Good, KernelSpace
  <2>3. QED
    BY <1>5, <2>1, <2>2 DEF Good
<1>8. QED
  BY <1>2, <1>5, <1>6, <1>7

\* What the living have mapped stays mapped.
Stays(mem, mem2, d) == \A i \in Own(mem, d) : KeptAt(mem, mem2, d, i)

Unmoved(m, procs, m2, procs2) ==
  \A q \in AliveIn(procs) \cap AliveIn(procs2) :
    /\ procs2[q].page_directory = procs[q].page_directory
    /\ Stays(m.memory, m2.memory, procs[q].page_directory)

LEMMA GrowsStays ==
  ASSUME NEW mem, NEW mem2, NEW E, Grows(mem, mem2, E), NEW d \in E
  PROVE  Stays(mem, mem2, d)
  BY DEF Grows, Stays, Own

\* The kernel heap grew by g pages, and a program of n pages was built in d.
Extended(m, E, h, g, n, d, r) ==
  /\ d \in Low /\ d \in Frames /\ d \notin m.bitmap /\ d \notin E
  /\ Sound(r, E \cup {d}) /\ m.bitmap \subseteq r.bitmap
  /\ Left(r.bitmap) < Left(m.bitmap) - g
  /\ Grows(m.memory, r.memory, E)
  /\ OwnMapped(r.memory, d) =
       {USER_STACK, USER_HEAP_START} \cup (USER_CODE_BASE .. USER_CODE_BASE + n - 1)
  /\ OwnMapped(r.memory, KD) = HEAP_START .. h + g - 1
  /\ \A e \in E : e # KD => OwnMapped(r.memory, e) = OwnMapped(m.memory, e)

\* The kernel heap grew by g pages.
HeapGrew(m, E, h, g, r) ==
  /\ Maps(m, r, E, KD, h .. h + g - 1) /\ Left(r.bitmap) = Left(m.bitmap) - g
  /\ HI \in DOMAIN r.memory[KD] /\ OwnMapped(r.memory, KD) = HEAP_START .. h + g - 1

LEMMA HeapGrownFirst ==
  ASSUME NEW m, NEW E, Sound(m, E), KD \in E, NEW h, KernelSpace(m, h), NEW g \in Nat,
         Left(m.bitmap) >= g
  PROVE  HeapGrew(m, E, h, g, MapPages(m, kernel_directory, h, g, FALSE))
<1>0. PICK r : r = MapPages(m, kernel_directory, h, g, FALSE)
  OBVIOUS
<1>1. /\ h \in Nat /\ h > HEAP_START /\ OwnMapped(m.memory, KD) = HEAP_START .. h - 1
      /\ h - HEAP_START + Left(m.bitmap) <= TableSize /\ HEAP_START \in Nat
  BY PagingAssumption DEF KernelSpace
<1>2. HI \in Own(m.memory, KD)
  <2>1. HEAP_START \in OwnMapped(m.memory, KD)
    BY <1>1
  <2>2. QED
    BY <2>1 DEF OwnMapped, HI
<1>3. h >= HEAP_START
  BY <1>1
<1>4. Maps(m, r, E, KD, h .. h + g - 1) /\ Left(r.bitmap) = Left(m.bitmap) - g
  <2>1. h \in Nat /\ HeapUpTo(m, h)
    BY <1>1, <1>3 DEF HeapUpTo
  <2>2. Enlarged(m, E, h, g, MapPages(m, kernel_directory, h, g, FALSE))
    BY <1>2, <2>1, Expanded
  <2>3. QED
    BY <1>0, <2>2 DEF Enlarged
<1>5. HI \in DOMAIN r.memory[KD]
  <2>1. Grows(m.memory, r.memory, E)
    BY <1>4 DEF Maps
  <2>2. QED
    BY <1>2, <2>1, OwnKept DEF Own
<1>6. OwnMapped(r.memory, KD) = HEAP_START .. h + g - 1
  <2>1. OwnMapped(r.memory, KD) = OwnMapped(m.memory, KD) \cup (h .. h + g - 1)
    BY <1>4 DEF Maps
  <2>2. OwnMapped(r.memory, KD) = (HEAP_START .. h - 1) \cup (h .. h + g - 1)
    BY <1>1, <2>1
  <2>3. (HEAP_START .. h - 1) \cup (h .. h + g - 1) = HEAP_START .. h + g - 1
    BY <1>1
  <2>4. QED
    BY <2>2, <2>3
<1>7. QED
  BY <1>0, <1>4, <1>5, <1>6 DEF HeapGrew

\* create_uprocess and the loading of the code, in d.
Built(m, E, n, d, r) ==
  /\ d \in Low /\ d \in Frames /\ d \notin m.bitmap /\ d \notin E
  /\ Sound(r, E \cup {d}) /\ m.bitmap \subseteq r.bitmap
  /\ Left(r.bitmap) < Left(m.bitmap) /\ Grows(m.memory, r.memory, E)
  /\ OwnMapped(r.memory, d) =
       {USER_STACK, USER_HEAP_START} \cup (USER_CODE_BASE .. USER_CODE_BASE + n - 1)
  /\ \A e \in E : OwnMapped(r.memory, e) = OwnMapped(m.memory, e)

LEMMA BuiltIs ==
  ASSUME NEW m, NEW E, Sound(m, E), KD \in E, HI \in DOMAIN m.memory[KD], NEW n \in Nat,
         USER_CODE_BASE + n <= USER_HEAP_START, Left(m.bitmap) >= n + 7,
         NEW d, d = FirstFree(m)
  PROVE  Built(m, E, n, d, LoadPages(create_uprocess(m), d, n))
<1>1. PICK m2 : m2 = create_uprocess(m)
  OBVIOUS
<1>2. PICK r : r = LoadPages(m2, d, n)
  OBVIOUS
<1>3. PICK l0 \in Nat : l0 = Left(m.bitmap)
  BY LeftCounts
<1>4. PICK l1 \in Nat : l1 = Left(m2.bitmap)
  BY LeftCounts
<1>5. PICK l2 \in Nat : l2 = Left(r.bitmap)
  BY LeftCounts
<1>6. l0 >= n + 7
  BY <1>3
<1>7. Left(m.bitmap) >= 5
  BY <1>3, <1>6
<1>8. /\ d \in Low /\ d \in Frames /\ d \notin m.bitmap /\ d \notin E
      /\ Sound(m2, E \cup {d}) /\ m.bitmap \cup {d} \subseteq m2.bitmap
      /\ Left(m2.bitmap) <= Left(m.bitmap) - 3 /\ Left(m2.bitmap) >= Left(m.bitmap) - 5
      /\ Grows(m.memory, m2.memory, E)
      /\ OwnMapped(m2.memory, d) = {USER_STACK, USER_HEAP_START}
      /\ OwnAsBefore(m.memory, m2.memory, E)
  BY <1>1, <1>7, Created
<1>9. \A e \in E : OwnMapped(m2.memory, e) = OwnMapped(m.memory, e)
  BY <1>8 DEF OwnAsBefore
<1>10. l1 <= l0 - 3 /\ l1 >= l0 - 5
  BY <1>3, <1>4, <1>8
<1>11. PICK F : F = E \cup {d}
  OBVIOUS
<1>12. d \in F /\ d # KD /\ E \subseteq F /\ Sound(m2, F)
  BY <1>8, <1>11
<1>13. l1 >= n + 2
  BY <1>6, <1>10
<1>14. Left(m2.bitmap) >= n + 2
  BY <1>4, <1>13
<1>15. /\ Maps(m2, r, F, d, USER_CODE_BASE .. USER_CODE_BASE + n - 1)
       /\ Left(r.bitmap) <= Left(m2.bitmap) - n
  BY <1>2, <1>8, <1>12, <1>14, ProgramLoaded
<1>16. /\ Sound(r, F) /\ m2.bitmap \subseteq r.bitmap /\ Grows(m2.memory, r.memory, F)
       /\ OwnMapped(r.memory, d) =
            OwnMapped(m2.memory, d) \cup (USER_CODE_BASE .. USER_CODE_BASE + n - 1)
       /\ \A e \in F : e # d => OwnMapped(r.memory, e) = OwnMapped(m2.memory, e)
  BY <1>15 DEF Maps
<1>17. l2 <= l1 - n
  BY <1>4, <1>5, <1>15
<1>18. l2 < l0
  BY <1>10, <1>17
<1>19. Left(r.bitmap) < Left(m.bitmap)
  BY <1>3, <1>5, <1>18
<1>20. Grows(m.memory, r.memory, E)
  <2>1. Grows(m2.memory, r.memory, E)
    BY <1>12, <1>16 DEF Grows
  <2>2. QED
    BY <1>8, <2>1, GrowsOn
<1>21. \A e \in E : OwnMapped(r.memory, e) = OwnMapped(m.memory, e)
  BY <1>8, <1>9, <1>12, <1>16
<1>22. Sound(r, E \cup {d}) /\ m.bitmap \subseteq r.bitmap
  BY <1>8, <1>11, <1>16
<1>23. OwnMapped(r.memory, d) =
         {USER_STACK, USER_HEAP_START} \cup (USER_CODE_BASE .. USER_CODE_BASE + n - 1)
  BY <1>8, <1>16
<1>24. Built(m, E, n, d, r)
  BY <1>8, <1>19, <1>20, <1>21, <1>22, <1>23 DEF Built
<1>25. QED
  BY <1>1, <1>2, <1>24

LEMMA SpaceBuilt ==
  ASSUME NEW m, NEW E, Sound(m, E), KD \in E, NEW h, KernelSpace(m, h), NEW g \in Nat,
         NEW n \in Nat, USER_CODE_BASE + n <= USER_HEAP_START, Left(m.bitmap) >= g + n + 7,
         NEW m1, m1 = MapPages(m, kernel_directory, h, g, FALSE)
  PROVE  Extended(m, E, h, g, n, FirstFree(m1), LoadPages(create_uprocess(m1), FirstFree(m1), n))
<1>1. PICK d : d = FirstFree(m1)
  OBVIOUS
<1>2. PICK r : r = LoadPages(create_uprocess(m1), d, n)
  OBVIOUS
<1>3. PICK l0 \in Nat : l0 = Left(m.bitmap)
  BY LeftCounts
<1>4. PICK l1 \in Nat : l1 = Left(m1.bitmap)
  BY LeftCounts
<1>5. l0 >= g + n + 7
  BY <1>3
<1>6. Left(m.bitmap) >= g
  BY <1>3, <1>5
<1>7. PICK q : q = MapPages(m, kernel_directory, h, g, FALSE)
  OBVIOUS
<1>8. HeapGrew(m, E, h, g, q)
  BY <1>6, <1>7, HeapGrownFirst
<1>9. q = m1
  BY <1>7
<1>10. /\ Maps(m, m1, E, KD, h .. h + g - 1) /\ Left(m1.bitmap) = Left(m.bitmap) - g
       /\ HI \in DOMAIN m1.memory[KD] /\ OwnMapped(m1.memory, KD) = HEAP_START .. h + g - 1
  BY <1>8, <1>9 DEF HeapGrew
<1>11. /\ Sound(m1, E) /\ m.bitmap \subseteq m1.bitmap /\ Grows(m.memory, m1.memory, E)
       /\ \A e \in E : e # KD => OwnMapped(m1.memory, e) = OwnMapped(m.memory, e)
  BY <1>10 DEF Maps
<1>12. l1 = l0 - g
  BY <1>3, <1>4, <1>10
<1>13. l1 >= n + 7
  BY <1>5, <1>12
<1>14. Left(m1.bitmap) >= n + 7
  BY <1>4, <1>13
<1>15. PICK x : x = m1
  OBVIOUS
<1>16. Built(x, E, n, d, LoadPages(create_uprocess(x), d, n))
  BY <1>1, <1>10, <1>11, <1>14, <1>15, BuiltIs
<1>17. Built(m1, E, n, d, r)
  BY <1>2, <1>15, <1>16
<1>18. /\ d \in Low /\ d \in Frames /\ d \notin m1.bitmap /\ d \notin E
       /\ Sound(r, E \cup {d}) /\ m1.bitmap \subseteq r.bitmap
       /\ Left(r.bitmap) < Left(m1.bitmap) /\ Grows(m1.memory, r.memory, E)
       /\ OwnMapped(r.memory, d) =
            {USER_STACK, USER_HEAP_START} \cup (USER_CODE_BASE .. USER_CODE_BASE + n - 1)
       /\ \A e \in E : OwnMapped(r.memory, e) = OwnMapped(m1.memory, e)
  BY <1>17 DEF Built
<1>19. Extended(m, E, h, g, n, d, r)
  <2>1. Grows(m.memory, r.memory, E)
    BY <1>11, <1>18, GrowsOn
  <2>2. Left(r.bitmap) < Left(m.bitmap) - g
    BY <1>10, <1>18
  <2>3. d \notin m.bitmap /\ m.bitmap \subseteq r.bitmap
    BY <1>11, <1>18
  <2>4. OwnMapped(r.memory, KD) = HEAP_START .. h + g - 1
    BY <1>10, <1>18
  <2>5. \A e \in E : e # KD => OwnMapped(r.memory, e) = OwnMapped(m.memory, e)
    BY <1>11, <1>18
  <2>6. QED
    BY <1>18, <2>1, <2>2, <2>3, <2>4, <2>5 DEF Extended
<1>20. QED
  BY <1>1, <1>2, <1>19

\* One record is replaced.
Replaces(procs, procs2, p, a, d, k) ==
  /\ ProcessTyped(procs2) /\ procs2[p].alive = a /\ procs2[p].page_directory = d
  /\ procs2[p].heap_pages_allocated = k
  /\ \A q \in Programs : q # p => procs2[q] = procs[q]

LEMMA Replaced ==
  ASSUME NEW procs, ProcessTyped(procs), NEW p \in Programs, NEW a \in BOOLEAN,
         NEW d \in Frames, NEW k \in Nat, NEW procs2,
         procs2 = [procs EXCEPT ![p] = [alive |-> a, page_directory |-> d, heap_pages_allocated |-> k]]
  PROVE  Replaces(procs, procs2, p, a, d, k)
<1>1. PICK x : x = [alive |-> a, page_directory |-> d, heap_pages_allocated |-> k]
  OBVIOUS
<1>2. /\ x \in [alive : BOOLEAN, page_directory : Frames, heap_pages_allocated : Nat]
      /\ x.alive = a /\ x.page_directory = d /\ x.heap_pages_allocated = k
  BY <1>1
<1>3. procs2 = [procs EXCEPT ![p] = x]
  BY <1>1
<1>4. ProcessTyped(procs2) /\ procs2[p] = x /\ \A q \in Programs : q # p => procs2[q] = procs[q]
  BY <1>2, <1>3 DEF ProcessTyped
<1>5. QED
  BY <1>2, <1>4 DEF Replaces

\* A program is loaded.
LEMMA ProgramListed ==
  ASSUME NEW m, NEW procs, NEW h, Good(m, procs, h), NEW p \in Programs, p \notin AliveIn(procs),
         NEW g \in Nat, NEW n \in Nat, USER_CODE_BASE + n <= USER_HEAP_START, NEW d, NEW r,
         Extended(m, DirectoriesOf(procs), h, g, n, d, r),
         NEW procs2, Replaces(procs, procs2, p, TRUE, d, 1)
  PROVE  Good(r, procs2, h + g) /\ Unmoved(m, procs, r, procs2)
<1> DEFINE E == DirectoriesOf(procs)
<1>1. /\ ProcessTyped(procs) /\ DirectoriesApart(procs) /\ ProgramSpaces(m, procs)
      /\ KernelSpace(m, h) /\ init_heap.bitmap \subseteq m.bitmap /\ KD \in E
  BY DEF Good, DirectoriesOf
<1>2. Extended(m, E, h, g, n, d, r)
  OBVIOUS
<1>3. E = {KD} \cup {procs[q].page_directory : q \in AliveIn(procs)}
  BY DEF DirectoriesOf
<1> HIDE DEF E
<1>4. /\ d \notin E /\ d \notin m.bitmap /\ Sound(r, E \cup {d}) /\ m.bitmap \subseteq r.bitmap
      /\ Left(r.bitmap) < Left(m.bitmap) - g /\ Grows(m.memory, r.memory, E)
  BY <1>2 DEF Extended
<1>5. /\ OwnMapped(r.memory, KD) = HEAP_START .. h + g - 1
      /\ \A e \in E : e # KD => OwnMapped(r.memory, e) = OwnMapped(m.memory, e)
  BY <1>2 DEF Extended
<1>6. /\ procs2[p].alive = TRUE /\ procs2[p].page_directory = d
      /\ procs2[p].heap_pages_allocated = 1 /\ ProcessTyped(procs2)
      /\ \A q \in Programs : q # p => procs2[q] = procs[q]
  BY DEF Replaces
<1>7. AliveIn(procs2) = AliveIn(procs) \cup {p}
  BY <1>6 DEF AliveIn
<1>8. \A q \in AliveIn(procs) : /\ q # p /\ procs2[q] = procs[q]
                                /\ procs[q].page_directory \in E
  BY <1>3, <1>6 DEF AliveIn
<1>9. DirectoriesOf(procs2) = E \cup {d}
  <2>1. DirectoriesOf(procs2) = {KD} \cup {procs2[q].page_directory : q \in AliveIn(procs) \cup {p}}
    BY <1>7 DEF DirectoriesOf
  <2>2. \A q \in AliveIn(procs) : procs2[q].page_directory = procs[q].page_directory
    BY <1>8
  <2>3. QED
    BY <1>3, <1>6, <2>1, <2>2
<1>10. d # KD
  BY <1>1, <1>4
<1>11. DirectoriesApart(procs2)
  <2>1. d \notin init_heap.bitmap
    BY <1>1, <1>4
  <2>2. ASSUME NEW q \in AliveIn(procs)
        PROVE  /\ procs2[q].page_directory # KD /\ procs2[q].page_directory \notin init_heap.bitmap
               /\ procs2[q].page_directory # d
               /\ \A s \in AliveIn(procs) : procs2[q].page_directory = procs2[s].page_directory => q = s
    <3>1. /\ procs[q].page_directory # KD /\ procs[q].page_directory \notin init_heap.bitmap
          /\ \A s \in AliveIn(procs) : procs[q].page_directory = procs[s].page_directory => q = s
      BY <1>1 DEF DirectoriesApart
    <3>2. procs[q].page_directory # d
      BY <1>4, <1>8
    <3>3. QED
      BY <1>8, <3>1, <3>2
  <2>3. QED
    BY <1>6, <1>7, <1>10, <2>1, <2>2 DEF DirectoriesApart
<1>12. ProgramSpaces(r, procs2)
  <2>1. ASSUME NEW q \in AliveIn(procs)
        PROVE  SpaceOf(r, procs2[q].page_directory, procs2[q].heap_pages_allocated)
    <3>1. PICK e, k : e = procs[q].page_directory /\ k = procs[q].heap_pages_allocated
      OBVIOUS
    <3>2. SpaceOf(m, e, k)
      BY <1>1, <3>1 DEF ProgramSpaces
    <3>3. e \in E /\ e # KD
      BY <1>1, <1>8, <3>1 DEF DirectoriesApart
    <3>4. OwnMapped(r.memory, e) = OwnMapped(m.memory, e)
      BY <1>5, <3>3
    <3>5. SpaceOf(r, e, k)
      BY <1>4, <3>2, <3>4, SpaceKept
    <3>6. QED
      BY <1>8, <3>1, <3>5
  <2>2. SpaceOf(r, d, 1)
    <3>1. 1 + Left(r.bitmap) <= TableSize
      <4>1. /\ Left(r.bitmap) \in Nat /\ Left(m.bitmap) \in Nat /\ Left(m.bitmap) <= TableSize
            /\ TableSize \in Nat
        BY LeftCounts, PagingAssumption
      <4>2. QED
        BY <1>4, <4>1
    <3>2. OwnMapped(r.memory, d) = {USER_STACK, USER_HEAP_START} \cup (USER_CODE_BASE .. USER_CODE_BASE + n - 1)
      BY <1>2 DEF Extended
    <3>3. /\ USER_HEAP_START \in Nat /\ USER_CODE_BASE \in Nat
      BY PagingAssumption
    <3>4. HeapOf(1) = {USER_HEAP_START}
      BY <3>3 DEF HeapOf
    <3>5. USER_CODE_BASE .. USER_CODE_BASE + n - 1 \subseteq CodeRange
      BY <3>3 DEF CodeRange
    <3>6. /\ HeapOf(1) \cup {USER_STACK} \subseteq OwnMapped(r.memory, d)
          /\ OwnMapped(r.memory, d) \subseteq CodeRange \cup HeapOf(1) \cup {USER_STACK}
      BY <3>2, <3>4, <3>5
    <3>7. QED
      BY <3>1, <3>6 DEF SpaceOf
  <2>3. QED
    BY <1>6, <1>7, <2>1, <2>2 DEF ProgramSpaces
<1>13. KernelSpace(r, h + g)
  <2>1. /\ h \in Nat /\ h > HEAP_START /\ HEAP_START \in Nat
        /\ h - HEAP_START + Left(m.bitmap) <= TableSize
    BY <1>1, PagingAssumption DEF KernelSpace
  <2>2. PICK l0 \in Nat : l0 = Left(m.bitmap)
    BY LeftCounts
  <2>3. PICK l1 \in Nat : l1 = Left(r.bitmap)
    BY LeftCounts
  <2>4. h - HEAP_START + l0 <= TableSize /\ l1 < l0 - g
    BY <1>4, <2>1, <2>2, <2>3
  <2>5. TableSize \in Nat
    BY PagingAssumption
  <2>6. h + g - HEAP_START + l1 <= TableSize /\ h + g \in Nat /\ h + g > HEAP_START
    BY <2>1, <2>4, <2>5
  <2>7. h + g - HEAP_START + Left(r.bitmap) <= TableSize
    BY <2>3, <2>6
  <2>8. OwnMapped(r.memory, KD) = HEAP_START .. h + g - 1
    BY <1>5
  <2>9. PICK k \in Nat : k = h + g
    BY <2>1
  <2>10. k \in Nat /\ k > HEAP_START /\ k - HEAP_START + Left(r.bitmap) <= TableSize
    BY <2>1, <2>3, <2>5, <2>6, <2>9
  <2>11. OwnMapped(r.memory, KD) = HEAP_START .. k - 1
    <3>1. k - 1 = h + g - 1
      BY <2>1, <2>9
    <3>2. QED
      BY <2>8, <3>1
  <2>12. KernelSpace(r, k)
    BY <2>10, <2>11 DEF KernelSpace
  <2>13. QED
    BY <2>9, <2>12
<1>14. Good(r, procs2, h + g)
  <2>1. Sound(r, DirectoriesOf(procs2)) /\ init_heap.bitmap \subseteq r.bitmap
    BY <1>1, <1>4, <1>9
  <2>2. QED
    BY <1>6, <1>11, <1>12, <1>13, <2>1 DEF Good
<1>15. Unmoved(m, procs, r, procs2)
  <2>1. ASSUME NEW q \in AliveIn(procs)
        PROVE  /\ procs2[q].page_directory = procs[q].page_directory
               /\ Stays(m.memory, r.memory, procs[q].page_directory)
    BY <1>4, <1>8, GrowsStays
  <2>2. QED
    BY <2>1 DEF Unmoved
<1>16. QED
  BY <1>14, <1>15

\* What destroy_process left of the spaces E.
Dismantled(m, E, d, r) ==
  /\ Sound(r, E \ {d}) /\ r.bitmap = m.bitmap
  /\ \A e \in E : e # d => Holds(m.memory, r.memory, e)

\* A process that is not in the processor's space any more is destroyed.
LEMMA ProcessDismantled ==
  ASSUME NEW m, NEW h, Good(m, process, h), NEW c \in AliveIn(process),
         NEW p \in AliveIn(process) \cup {Kernel}, p # c
  PROVE  Dismantled(m, DirectoriesOf(process), process[c].page_directory,
                    Unmapped(SwitchMachine(m, process, p), c))
<1>1. PICK s : s = SwitchMachine(m, process, p)
  OBVIOUS
<1>2. PICK d : d = process[c].page_directory
  OBVIOUS
<1>3. PICK r : r = Unmapped(s, c)
  OBVIOUS
<1>4. PICK E : E = DirectoriesOf(process)
  OBVIOUS
<1>5. /\ Good(s, process, h) /\ s.memory = m.memory /\ s.bitmap = m.bitmap
      /\ s.cr3 = IF p = Kernel THEN KD ELSE process[p].page_directory
  BY <1>1, Switched
<1>6. Sound(s, E) /\ DirectoriesApart(process)
  BY <1>4, <1>5 DEF Good
<1>7. d \in E /\ d # KD
  BY <1>2, <1>4, <1>6 DEF DirectoriesOf, DirectoriesApart
<1>8. s.cr3 # d
  <2>1. CASE p = Kernel
    BY <1>5, <1>7, <2>1
  <2>2. CASE p # Kernel
    <3>1. p \in AliveIn(process) /\ s.cr3 = process[p].page_directory
      BY <1>5, <2>2
    <3>2. QED
      BY <1>2, <1>6, <3>1 DEF DirectoriesApart
  <2>3. QED
    BY <2>1, <2>2
<1>9. /\ Sound(r, E \ {d}) /\ r.cr3 = s.cr3 /\ r.bitmap = s.bitmap
      /\ \A e \in E : e # d => Holds(s.memory, r.memory, e)
  BY <1>2, <1>3, <1>6, <1>7, <1>8, Destroyed
<1>10. Dismantled(m, E, d, r)
  BY <1>5, <1>9 DEF Dismantled
<1>11. QED
  BY <1>1, <1>2, <1>3, <1>4, <1>10

LEMMA ProcessEnded ==
  ASSUME NEW m, NEW procs, NEW h, Good(m, procs, h), NEW c \in AliveIn(procs), NEW r,
         Dismantled(m, DirectoriesOf(procs), procs[c].page_directory, r),
         NEW procs2, Replaces(procs, procs2, c, FALSE, 0, 0)
  PROVE  Good(r, procs2, h) /\ Unmoved(m, procs, r, procs2)
<1>1. PICK d : d = procs[c].page_directory
  OBVIOUS
<1>2. PICK E : E = DirectoriesOf(procs)
  OBVIOUS
<1>3. /\ DirectoriesApart(procs) /\ ProgramSpaces(m, procs) /\ KernelSpace(m, h)
      /\ init_heap.bitmap \subseteq m.bitmap
  BY DEF Good
<1>4. /\ Sound(r, E \ {d}) /\ r.bitmap = m.bitmap
      /\ \A e \in E : e # d => Holds(m.memory, r.memory, e)
  BY <1>1, <1>2 DEF Dismantled
<1>5. /\ procs2[c].alive = FALSE /\ ProcessTyped(procs2)
      /\ \A q \in Programs : q # c => procs2[q] = procs[q]
  BY DEF Replaces
<1>6. AliveIn(procs2) = AliveIn(procs) \ {c}
  BY <1>5 DEF AliveIn
<1>7. E = {KD} \cup {procs[q].page_directory : q \in AliveIn(procs)}
  BY <1>2 DEF DirectoriesOf
<1>8. \A q \in AliveIn(procs2) :
        /\ q \in AliveIn(procs) /\ procs2[q] = procs[q]
        /\ procs[q].page_directory \in E /\ procs[q].page_directory # d
        /\ procs[q].page_directory # KD
  <2>1. ASSUME NEW q \in AliveIn(procs2)
        PROVE  /\ q \in AliveIn(procs) /\ q # c /\ procs2[q] = procs[q]
               /\ procs[q].page_directory \in E
    BY <1>5, <1>6, <1>7 DEF AliveIn
  <2>2. ASSUME NEW q \in AliveIn(procs2)
        PROVE  procs[q].page_directory # d /\ procs[q].page_directory # KD
    BY <1>1, <1>3, <2>1 DEF DirectoriesApart
  <2>3. QED
    BY <2>1, <2>2
<1>9. d # KD
  BY <1>1, <1>3 DEF DirectoriesApart
<1>10. DirectoriesOf(procs2) = E \ {d}
  <2>1. DirectoriesOf(procs2) \subseteq E \ {d}
    BY <1>7, <1>8, <1>9 DEF DirectoriesOf
  <2>2. ASSUME NEW e \in E, e # d PROVE e \in DirectoriesOf(procs2)
    <3>1. CASE e = KD
      BY <3>1 DEF DirectoriesOf
    <3>2. CASE e # KD
      <4>1. PICK q \in AliveIn(procs) : e = procs[q].page_directory
        BY <1>7, <3>2
      <4>2. q # c
        BY <1>1, <2>2, <4>1
      <4>3. q \in AliveIn(procs2) /\ procs2[q] = procs[q]
        BY <1>6, <1>8, <4>1, <4>2
      <4>4. QED
        BY <4>1, <4>3 DEF DirectoriesOf
    <3>3. QED
      BY <3>1, <3>2
  <2>3. QED
    BY <2>1, <2>2
<1>11. Sound(r, DirectoriesOf(procs2))
  BY <1>4, <1>10
<1>12. DirectoriesApart(procs2)
  <2>1. ASSUME NEW q \in AliveIn(procs2)
        PROVE  /\ procs2[q].page_directory # KD /\ procs2[q].page_directory \notin init_heap.bitmap
               /\ \A s \in AliveIn(procs2) : procs2[q].page_directory = procs2[s].page_directory => q = s
    BY <1>3, <1>8 DEF DirectoriesApart
  <2>2. QED
    BY <2>1 DEF DirectoriesApart
<1>13. ProgramSpaces(r, procs2)
  <2>1. ASSUME NEW q \in AliveIn(procs2)
        PROVE  SpaceOf(r, procs2[q].page_directory, procs2[q].heap_pages_allocated)
    <3>1. PICK e, k : e = procs[q].page_directory /\ k = procs[q].heap_pages_allocated
      OBVIOUS
    <3>2. SpaceOf(m, e, k)
      BY <1>3, <1>8, <3>1 DEF ProgramSpaces
    <3>3. OwnMapped(r.memory, e) = OwnMapped(m.memory, e)
      BY <1>4, <1>8, <3>1 DEF Holds
    <3>4. SpaceOf(r, e, k)
      BY <1>4, <3>2, <3>3, SpaceKept
    <3>5. QED
      BY <1>8, <3>1, <3>4
  <2>2. QED
    BY <2>1 DEF ProgramSpaces
<1>14. KernelSpace(r, h)
  <2>1. OwnMapped(r.memory, KD) = OwnMapped(m.memory, KD)
    BY <1>4, <1>7, <1>9 DEF Holds
  <2>2. QED
    BY <1>3, <1>4, <2>1, KernelKept
<1>15. Good(r, procs2, h)
  BY <1>3, <1>4, <1>5, <1>11, <1>12, <1>13, <1>14 DEF Good
<1>16. Unmoved(m, procs, r, procs2)
  <2>1. ASSUME NEW q \in AliveIn(procs2)
        PROVE  /\ procs2[q].page_directory = procs[q].page_directory
               /\ Stays(m.memory, r.memory, procs[q].page_directory)
    BY <1>4, <1>8 DEF Holds, Stays
  <2>2. QED
    BY <2>1 DEF Unmoved
<1>17. QED
  BY <1>15, <1>16

\* sbrk maps the next n pages of a heap of k.
Lengthened(m, E, d, k, n, r) ==
  /\ Maps(m, r, E, d, USER_HEAP_START + k .. USER_HEAP_START + k + n - 1)
  /\ Left(r.bitmap) <= Left(m.bitmap) - n

LEMMA HeapLengthened ==
  ASSUME NEW m, NEW E, Sound(m, E), NEW d \in E, d # KD, NEW k, SpaceOf(m, d, k),
         NEW n \in Nat, Left(m.bitmap) >= n + 1
  PROVE  Lengthened(m, E, d, k, n, MapPages(m, d, USER_HEAP_START + k, n, TRUE))
<1>1. /\ k \in Nat /\ k >= 1 /\ k + Left(m.bitmap) <= TableSize
      /\ HeapOf(k) \cup {USER_STACK} \subseteq OwnMapped(m.memory, d)
      /\ OwnMapped(m.memory, d) \subseteq CodeRange \cup HeapOf(k) \cup {USER_STACK}
  BY DEF SpaceOf
<1>2. USER_HEAP_START \in Nat /\ USER_CODE_BASE \in Nat /\ USER_STACK \in Nat
  BY PagingAssumption
<1>3. USER_HEAP_START + k - 1 \in OwnMapped(m.memory, d)
  <2>1. USER_HEAP_START + k - 1 \in HeapOf(k)
    BY <1>1, <1>2 DEF HeapOf
  <2>2. QED
    BY <1>1, <2>1
<1>4. \A v \in OwnMapped(m.memory, d) : v < USER_HEAP_START + k \/ v >= USER_STACK
  BY <1>1, <1>2 DEF CodeRange, HeapOf
<1>5. PICK r : r = MapPages(m, d, USER_HEAP_START + k, n, TRUE)
  OBVIOUS
<1>6. /\ Maps(m, r, E, d, USER_HEAP_START + k .. USER_HEAP_START + k + n - 1)
      /\ Left(r.bitmap) <= Left(m.bitmap) - n
  BY <1>1, <1>3, <1>4, <1>5, HeapExtended
<1>7. QED
  BY <1>5, <1>6 DEF Lengthened

LEMMA HeapGoesOn ==
  ASSUME NEW k \in Nat, NEW n \in Nat
  PROVE  HeapOf(k + n) = HeapOf(k) \cup (USER_HEAP_START + k .. USER_HEAP_START + k + n - 1)
<1>1. PICK u \in Nat : u = USER_HEAP_START
  BY PagingAssumption
<1>2. u .. u + (k + n) - 1 = (u .. u + k - 1) \cup (u + k .. u + k + n - 1)
  OBVIOUS
<1>3. QED
  BY <1>1, <1>2 DEF HeapOf

LEMMA HeapGrown ==
  ASSUME NEW m, NEW procs, NEW h, Good(m, procs, h), NEW c \in AliveIn(procs), NEW n \in Nat,
         NEW d, d = procs[c].page_directory, NEW k, k = procs[c].heap_pages_allocated, NEW r,
         Lengthened(m, DirectoriesOf(procs), d, k, n, r),
         NEW procs2, Replaces(procs, procs2, c, TRUE, d, k + n)
  PROVE  Good(r, procs2, h) /\ Unmoved(m, procs, r, procs2)
<1>1. PICK E : E = DirectoriesOf(procs)
  OBVIOUS
<1>2. /\ DirectoriesApart(procs) /\ ProgramSpaces(m, procs) /\ KernelSpace(m, h)
      /\ init_heap.bitmap \subseteq m.bitmap
  BY DEF Good
<1>3. PICK S : S = USER_HEAP_START + k .. USER_HEAP_START + k + n - 1
  OBVIOUS
<1>4. /\ Sound(r, E) /\ m.bitmap \subseteq r.bitmap /\ Grows(m.memory, r.memory, E)
      /\ OwnMapped(r.memory, d) = OwnMapped(m.memory, d) \cup S
      /\ \A e \in E : e # d => OwnMapped(r.memory, e) = OwnMapped(m.memory, e)
      /\ Left(r.bitmap) <= Left(m.bitmap) - n
  BY <1>1, <1>3 DEF Lengthened, Maps
<1>5. /\ procs2[c].alive = TRUE /\ ProcessTyped(procs2) /\ procs2[c].page_directory = d
      /\ procs2[c].heap_pages_allocated = k + n
      /\ \A q \in Programs : q # c => procs2[q] = procs[q]
  BY DEF Replaces
<1>6. AliveIn(procs2) = AliveIn(procs)
  BY <1>5 DEF AliveIn
<1>7. E = {KD} \cup {procs[q].page_directory : q \in AliveIn(procs)}
  BY <1>1 DEF DirectoriesOf
<1>8. \A q \in AliveIn(procs) :
        /\ procs2[q].page_directory = procs[q].page_directory
        /\ procs[q].page_directory \in E /\ procs[q].page_directory # KD
        /\ q # c => procs2[q] = procs[q] /\ procs[q].page_directory # d
  <2>1. ASSUME NEW q \in AliveIn(procs)
        PROVE  /\ procs2[q].page_directory = procs[q].page_directory
               /\ q # c => procs2[q] = procs[q]
    BY <1>5 DEF AliveIn
  <2>2. ASSUME NEW q \in AliveIn(procs)
        PROVE  /\ procs[q].page_directory # KD
               /\ q # c => procs[q].page_directory # d
    BY <1>2 DEF DirectoriesApart
  <2>3. QED
    BY <1>7, <2>1, <2>2
<1>9. DirectoriesOf(procs2) = E
  BY <1>6, <1>7, <1>8 DEF DirectoriesOf
<1>10. d \in E /\ d # KD
  BY <1>8
<1>11. DirectoriesApart(procs2)
  <2>1. ASSUME NEW q \in AliveIn(procs)
        PROVE  /\ procs2[q].page_directory # KD /\ procs2[q].page_directory \notin init_heap.bitmap
               /\ \A s \in AliveIn(procs) : procs2[q].page_directory = procs2[s].page_directory => q = s
    BY <1>2, <1>8 DEF DirectoriesApart
  <2>2. QED
    BY <1>6, <2>1 DEF DirectoriesApart
<1>12. SpaceOf(r, d, k + n)
  <2>1. SpaceOf(m, d, k)
    BY <1>2 DEF ProgramSpaces
  <2>2. /\ k \in Nat /\ k >= 1 /\ k + Left(m.bitmap) <= TableSize
        /\ HeapOf(k) \cup {USER_STACK} \subseteq OwnMapped(m.memory, d)
        /\ OwnMapped(m.memory, d) \subseteq CodeRange \cup HeapOf(k) \cup {USER_STACK}
    BY <2>1 DEF SpaceOf
  <2>3. USER_HEAP_START \in Nat /\ TableSize \in Nat
    BY PagingAssumption
  <2>4. HeapOf(k + n) = HeapOf(k) \cup S
    BY <1>3, <2>2, HeapGoesOn
  <2>5. k + n + Left(r.bitmap) <= TableSize
    <3>1. PICK l0 \in Nat : l0 = Left(m.bitmap)
      BY LeftCounts
    <3>2. PICK l1 \in Nat : l1 = Left(r.bitmap)
      BY LeftCounts
    <3>3. k + l0 <= TableSize /\ l1 <= l0 - n
      BY <1>4, <2>2, <3>1, <3>2
    <3>4. k + n + l1 <= TableSize
      BY <2>2, <2>3, <3>3
    <3>5. QED
      BY <3>2, <3>4
  <2>6. k + n \in Nat /\ k + n >= 1
    BY <2>2
  <2>7. /\ HeapOf(k + n) \cup {USER_STACK} \subseteq OwnMapped(r.memory, d)
        /\ OwnMapped(r.memory, d) \subseteq CodeRange \cup HeapOf(k + n) \cup {USER_STACK}
    BY <1>4, <2>2, <2>4
  <2>8. QED
    BY <2>5, <2>6, <2>7 DEF SpaceOf
<1>13. ProgramSpaces(r, procs2)
  <2>1. ASSUME NEW q \in AliveIn(procs), q # c
        PROVE  SpaceOf(r, procs2[q].page_directory, procs2[q].heap_pages_allocated)
    <3>1. PICK e, j : e = procs[q].page_directory /\ j = procs[q].heap_pages_allocated
      OBVIOUS
    <3>2. SpaceOf(m, e, j)
      BY <1>2, <3>1 DEF ProgramSpaces
    <3>3. OwnMapped(r.memory, e) = OwnMapped(m.memory, e)
      BY <1>4, <1>8, <2>1, <3>1
    <3>4. SpaceOf(r, e, j)
      BY <1>4, <3>2, <3>3, SpaceKept
    <3>5. QED
      BY <1>8, <2>1, <3>1, <3>4
  <2>2. SpaceOf(r, procs2[c].page_directory, procs2[c].heap_pages_allocated)
    BY <1>5, <1>12
  <2>3. QED
    BY <1>6, <2>1, <2>2 DEF ProgramSpaces
<1>14. KernelSpace(r, h)
  <2>1. OwnMapped(r.memory, KD) = OwnMapped(m.memory, KD)
    BY <1>4, <1>7, <1>10
  <2>2. QED
    BY <1>2, <1>4, <2>1, KernelKept
<1>15. Good(r, procs2, h)
  <2>1. Sound(r, DirectoriesOf(procs2)) /\ init_heap.bitmap \subseteq r.bitmap
    BY <1>2, <1>4, <1>9
  <2>2. QED
    BY <1>5, <1>11, <1>13, <1>14, <2>1 DEF Good
<1>16. Unmoved(m, procs, r, procs2)
  <2>1. ASSUME NEW q \in AliveIn(procs)
        PROVE  Stays(m.memory, r.memory, procs[q].page_directory)
    BY <1>4, <1>8, GrowsStays
  <2>2. QED
    BY <1>8, <2>1 DEF Unmoved
<1>17. QED
  BY <1>15, <1>16

-----------------------------------------------------------------------------
(* The first address space *)

\* While frames of the identity mapping are left, alloc_frame takes one of them.
LEMMA FirstLeft ==
  ASSUME NEW m, m.bitmap \subseteq Frames, Left(m.bitmap) > 0, NEW f, f = FirstFree(m)
  PROVE  /\ f = Min(Frames \ m.bitmap) /\ f \in Low /\ f \in Frames /\ f \notin m.bitmap
         /\ Left(m.bitmap \cup {f}) = Left(m.bitmap) - 1
<1>1. Low \ m.bitmap # {} /\ Low \subseteq Frames /\ Frames \subseteq Nat
  BY LeftCounts, FramesAre
<1>2. f = Min(Frames \ m.bitmap)
  BY <1>1 DEF FirstFree
<1>3. f \in Frames \ m.bitmap /\ \A g \in Frames \ m.bitmap : f <= g
  <2>1. Frames \ m.bitmap \subseteq Nat /\ Frames \ m.bitmap # {}
    BY <1>1
  <2>2. QED
    BY <1>2, <2>1, MinIn
<1>4. f \in Low
  <2>1. PICK g \in Low : g \notin m.bitmap
    BY <1>1
  <2>2. f <= g /\ g < TableSize /\ f \in Nat /\ g \in Nat /\ TableSize \in Nat
    BY <1>1, <1>3, <2>1, FramesAre, PagingAssumption
  <2>3. f < TableSize
    BY <2>2
  <2>4. QED
    BY <2>2, <2>3, FramesAre
<1>5. Left(m.bitmap \cup {f}) = Left(m.bitmap) - 1
  BY <1>3, <1>4, LeftCounts
<1>6. QED
  BY <1>2, <1>3, <1>4, <1>5

BootBitmap == (Frames \ Usable) \cup Held \cup {0}

\* init_vmm's directory is the first frame that init_pmm left.
LEMMA BootFrames ==
  /\ BootBitmap \subseteq Frames /\ Left(BootBitmap) >= 4 /\ 0 \in BootBitmap
  /\ init_pmm.bitmap = BootBitmap /\ KD = FirstFree(init_pmm)
<1>1. BootBitmap \subseteq Frames /\ 0 \in BootBitmap
  BY FramesAre, PagingAssumption DEF BootBitmap
<1>2. Frames \ BootBitmap = Usable \ (Held \cup {0})
  BY PagingAssumption DEF BootBitmap
<1>3. Low \ BootBitmap = {f \in Usable \ (Held \cup {0}) : f < TableSize}
  BY <1>2, FramesAre
<1>4. Left(BootBitmap) >= 4
  BY <1>3, RegionsAssumption DEF Left
<1>5. init_pmm.bitmap = BootBitmap
  BY DEF init_pmm, BootBitmap
<1>6. Left(init_pmm.bitmap) > 0
  BY <1>4, <1>5, LeftCounts
<1>7. FirstFree(init_pmm) = Min(Frames \ BootBitmap)
  BY <1>1, <1>5, <1>6, FirstLeft
<1>8. KD = FirstFree(init_pmm)
  BY <1>2, <1>7 DEF KD, kernel_directory
<1>9. QED
  BY <1>1, <1>4, <1>5, <1>8

\* The tables that init_vmm writes.
FirstTables(mem, t) ==
  /\ mem \in [Frames -> Contents]
  /\ DOMAIN mem[KD] = {0} /\ mem[KD][0] = Entry(t, FALSE)
  /\ DOMAIN mem[t] = Low /\ \A f \in Low : mem[t][f] = Entry(f, FALSE)

\* A machine with nothing but the kernel's directory d and its table t.
Booted(m, t) ==
  /\ m.bitmap = BootBitmap \cup {KD, t} /\ FirstTables(m.memory, t)
  /\ m \in Machines /\ m.cr3 = KD /\ m.cached = Translations(m.memory, KD) /\ ~m.stray

LEMMA FirstWritten ==
  ASSUME NEW t \in Frames, KD \in Frames, t # KD, NEW mem0, mem0 = [f \in Frames |-> NoEntries], NEW mem,
         mem = [mem0 EXCEPT ![KD] = With(NoEntries, 0, Entry(t, FALSE)),
                            ![t] = [i \in 0 .. TableSize - 1 |-> Entry(i, FALSE)]]
  PROVE  FirstTables(mem, t)
<1>1. PICK w : w = With(NoEntries, 0, Entry(t, FALSE))
  OBVIOUS
<1>2. PICK i : i = [j \in 0 .. TableSize - 1 |-> Entry(j, FALSE)]
  OBVIOUS
<1>3. w \in Contents /\ DOMAIN w = {0} /\ w[0] = Entry(t, FALSE)
  <2>1. Entry(t, FALSE) \in EntrySet /\ 0 \in Low
    BY FramesAre DEF Entry, EntrySet
  <2>2. PICK e : e = Entry(t, FALSE)
    OBVIOUS
  <2>3. PICK n : n = NoEntries
    OBVIOUS
  <2>4. n \in Contents /\ DOMAIN n = {} /\ e \in EntrySet /\ 0 \in Low
    BY <2>1, <2>2, <2>3, NoEntriesIs
  <2>5. PICK x : x = With(n, 0, e)
    OBVIOUS
  <2>6. x \in Contents /\ DOMAIN x = DOMAIN n \cup {0} /\ x[0] = e
    BY <2>4, <2>5, WithIs
  <2>7. x = w
    BY <1>1, <2>2, <2>3, <2>5
  <2>8. QED
    BY <2>2, <2>4, <2>6, <2>7
<1>4. i \in Contents /\ DOMAIN i = Low /\ \A f \in Low : i[f] = Entry(f, FALSE)
  <2>1. \A f \in Low : Entry(f, FALSE) \in EntrySet
    BY FramesAre DEF Entry, EntrySet
  <2>2. i = [j \in Low |-> Entry(j, FALSE)]
    BY <1>2 DEF Low
  <2>3. i \in [Low -> EntrySet] /\ DOMAIN i = Low /\ \A f \in Low : i[f] = Entry(f, FALSE)
    BY <2>1, <2>2
  <2>4. QED
    BY <2>3, IsTable
<1>5. mem0 \in [Frames -> Contents]
  BY NoEntriesIs
<1>6. mem = [mem0 EXCEPT ![KD] = w, ![t] = i]
  BY <1>1, <1>2
<1>7. mem \in [Frames -> Contents] /\ mem[KD] = w /\ mem[t] = i
  <2>1. PICK mem1 : mem1 = [mem0 EXCEPT ![KD] = w]
    OBVIOUS
  <2>2. mem1 \in [Frames -> Contents] /\ mem1[KD] = w
    BY <1>3, <1>5, <2>1
  <2>3. mem = [mem1 EXCEPT ![t] = i]
    BY <1>6, <2>1
  <2>4. QED
    BY <1>4, <2>2, <2>3
<1>8. QED
  BY <1>3, <1>4, <1>7 DEF FirstTables

\* Paging starts with one directory and the identity mapping.
LEMMA VmmStarts ==
  \E t : /\ t \in Low /\ t \notin BootBitmap /\ t # KD /\ KD \in Low /\ KD \notin BootBitmap
         /\ Booted(init_vmm, t) /\ Left(init_vmm.bitmap) >= 2
<1>1. PICK b : b = BootBitmap
  OBVIOUS
<1>2. PICK mem0 : mem0 = [f \in Frames |-> NoEntries]
  OBVIOUS
<1>3. PICK z : z = init_pmm
  OBVIOUS
<1>4. /\ b \subseteq Frames /\ Left(b) >= 4 /\ 0 \in b /\ KD = FirstFree(z) /\ z.bitmap = b
  BY <1>1, <1>3, BootFrames
<1>5. Left(b) \in Nat
  BY LeftCounts
<1>6. KD \in Low /\ KD \in Frames /\ KD \notin b /\ Left(b \cup {KD}) = Left(b) - 1
  <2>1. z.bitmap \subseteq Frames /\ Left(z.bitmap) > 0
    BY <1>4, <1>5
  <2>2. PICK f : f = FirstFree(z)
    OBVIOUS
  <2>3. f \in Low /\ f \in Frames /\ f \notin z.bitmap /\ Left(z.bitmap \cup {f}) = Left(z.bitmap) - 1
    BY <2>1, <2>2, FirstLeft
  <2>4. QED
    BY <1>4, <2>2, <2>3
<1>7. PICK one : one = alloc_frame(z)
  OBVIOUS
<1>8. one = [bitmap |-> b \cup {KD}, memory |-> mem0, cr3 |-> KD, cached |-> {}, stray |-> FALSE]
  <2>1. z = [bitmap |-> b, memory |-> mem0, cr3 |-> KD, cached |-> {}, stray |-> FALSE]
    BY <1>1, <1>2, <1>3 DEF init_pmm, KD, BootBitmap
  <2>2. one = [z EXCEPT !.bitmap = z.bitmap \cup {KD}]
    BY <1>4, <1>7 DEF alloc_frame
  <2>3. QED
    BY <2>1, <2>2
<1>9. one.bitmap = b \cup {KD}
  BY <1>8
<1>10. PICK t : t = FirstFree(one)
  OBVIOUS
<1>11. t \in Low /\ t \in Frames /\ t \notin b \cup {KD} /\ Left((b \cup {KD}) \cup {t}) = Left(b \cup {KD}) - 1
  <2>1. one.bitmap \subseteq Frames
    BY <1>4, <1>6, <1>9
  <2>2. Left(b \cup {KD}) > 0
    BY <1>4, <1>5, <1>6
  <2>3. Left(one.bitmap) > 0
    BY <1>9, <2>2
  <2>4. /\ t \in Low /\ t \in Frames /\ t \notin one.bitmap
        /\ Left(one.bitmap \cup {t}) = Left(one.bitmap) - 1
    BY <1>10, <2>1, <2>3, FirstLeft
  <2>5. QED
    BY <1>9, <2>4
<1>12. PICK two : two = alloc_frame(one)
  OBVIOUS
<1>13. PICK b2 : b2 = b \cup {KD, t}
  OBVIOUS
<1>14. /\ b2 = (b \cup {KD}) \cup {t} /\ b2 \subseteq Frames
       /\ Left(b2) >= 2
  <2>1. b2 = (b \cup {KD}) \cup {t} /\ b2 \subseteq Frames
    BY <1>4, <1>6, <1>11, <1>13
  <2>2. Left(b2) = Left(b \cup {KD}) - 1
    BY <1>11, <2>1
  <2>3. QED
    BY <1>4, <1>5, <1>6, <2>1, <2>2
<1>15. two = [bitmap |-> b2, memory |-> mem0, cr3 |-> KD, cached |-> {}, stray |-> FALSE]
  BY <1>8, <1>10, <1>12, <1>14 DEF alloc_frame
<1>16. PICK mem : mem = [mem0 EXCEPT ![KD] = With(NoEntries, 0, Entry(t, FALSE)),
                                     ![t] = [i \in 0 .. TableSize - 1 |-> Entry(i, FALSE)]]
  OBVIOUS
<1>17. FirstTables(mem, t)
  BY <1>2, <1>6, <1>11, <1>16, FirstWritten
<1>18. PICK written : written = [two EXCEPT !.memory = mem]
  OBVIOUS
<1>19. written = [bitmap |-> b2, memory |-> mem, cr3 |-> KD, cached |-> {}, stray |-> FALSE]
  BY <1>15, <1>18
<1>20. init_vmm = set_cr3(written, KD)
  BY <1>3, <1>7, <1>10, <1>12, <1>15, <1>16, <1>18 DEF init_vmm, KD
<1>21. PICK c : c = Translations(mem, KD)
  OBVIOUS
<1>22. PICK m : m = init_vmm
  OBVIOUS
<1>23. m = [bitmap |-> b2, memory |-> mem, cr3 |-> KD, cached |-> c, stray |-> FALSE]
  BY <1>19, <1>20, <1>21, <1>22 DEF set_cr3
<1>24. c \subseteq Nat \X Frames
  BY <1>6, <1>17, <1>21, TranslationsAre DEF FirstTables
<1>25. m \in Machines
  BY <1>6, <1>14, <1>17, <1>23, <1>24 DEF Machines, FirstTables
<1>26. /\ m.bitmap = b2 /\ m.memory = mem /\ m.cr3 = KD /\ m.cached = c /\ m.stray = FALSE
  BY <1>23
<1>27. Booted(m, t)
  BY <1>1, <1>13, <1>17, <1>21, <1>25, <1>26 DEF Booted
<1>28. QED
  BY <1>1, <1>6, <1>11, <1>14, <1>22, <1>26, <1>27

\* What each frame is for at first.
FirstRoles(t) ==
  [f \in Frames |-> IF f = KD THEN Dir ELSE IF f = t THEN Tab(KD, 0)
                    ELSE IF f \in BootBitmap THEN Other ELSE Free]

LEMMA FirstSpaces ==
  ASSUME NEW t \in Low, t \notin BootBitmap, t # KD, KD \in Low, KD \notin BootBitmap,
         NEW b, b = BootBitmap \cup {KD, t}, NEW mem, FirstTables(mem, t)
  PROVE  Spaces(b, mem, {KD}, FirstRoles(t)) /\ OwnMapped(mem, KD) = {}
<1>1. PICK R : R = FirstRoles(t)
  OBVIOUS
<1>2. /\ KD \in Frames /\ t \in Frames /\ BootBitmap \subseteq Frames
      /\ KD \in Nat /\ 0 \in Nat
  BY BootFrames, FramesAre
<1>3. /\ R \in [Frames -> Role] /\ R[KD] = Dir /\ R[t] = Tab(KD, 0)
      /\ \A f \in BootBitmap : R[f] = Other
      /\ \A f \in Frames \ b : R[f] = Free
  <2>1. \A f \in Frames : R[f] = IF f = KD THEN Dir ELSE IF f = t THEN Tab(KD, 0)
                                 ELSE IF f \in BootBitmap THEN Other ELSE Free
    BY <1>1 DEF FirstRoles
  <2>2. R = [f \in Frames |-> R[f]]
    BY <1>1 DEF FirstRoles
  <2>3. \A f \in Frames : R[f] \in Role
    BY <1>2, <2>1, RolesAre
  <2>4. QED
    BY <1>2, <2>1, <2>2, <2>3
<1>4. Reserved(b, {KD}, R)
  <2>1. Held \cup {0} \subseteq BootBitmap
    BY DEF BootBitmap
  <2>2. QED
    BY <1>3, <2>1 DEF Reserved
<1>5. /\ mem \in [Frames -> Contents] /\ DOMAIN mem[KD] = {0} /\ mem[KD][0] = Entry(t, FALSE)
      /\ DOMAIN mem[t] = Low /\ \A f \in Low : mem[t][f] = Entry(f, FALSE)
  BY DEF FirstTables
<1>6. At(mem, KD, 0) = t /\ mem[KD][0].user = FALSE
  BY <1>5 DEF At, Entry
<1>7. Shared(mem, {KD}, R)
  BY <1>3, <1>5, <1>6 DEF Shared
<1>8. Identity(mem, {KD}, R)
  BY <1>5, <1>6 DEF Identity
<1>9. Own(mem, KD) = {}
  BY <1>5 DEF Own
<1>10. OwnTables(mem, {KD}, R)
  BY <1>9 DEF OwnTables
<1>11. OwnMapped(mem, KD) = {}
  BY <1>9 DEF OwnMapped
<1>12. b \subseteq Frames
  BY <1>2
<1>13. QED
  BY <1>1, <1>3, <1>4, <1>5, <1>7, <1>8, <1>10, <1>11, <1>12 DEF Spaces

\* The kernel heap has its table within the directory.
LEMMA HeapsIndex == HI \in Low
<1>1. /\ HEAP_START = HI * TableSize /\ HI \in Nat /\ TableSize \in Nat
      /\ HEAP_START < TableSize * TableSize
  BY Regions, RegionsAssumption, PagingAssumption
<1>2. ~ (TableSize < HI)
  <2> SUFFICES ASSUME TableSize < HI PROVE FALSE
    OBVIOUS
  <2>1. TableSize * TableSize + TableSize <= HI * TableSize
    BY <1>1, Multiples
  <2>2. PICK a \in Int, c \in Int : a = TableSize * TableSize /\ c = HI * TableSize
    BY <1>1
  <2>3. a + TableSize <= c /\ c < a
    BY <1>1, <2>1, <2>2
  <2>4. QED
    BY <1>1, <2>3
<1>3. HI # TableSize
  BY <1>1
<1>4. QED
  BY <1>1, <1>2, <1>3, FramesAre

LEMMA HeapStarts ==
  /\ Sound(init_heap, {KD}) /\ OwnMapped(init_heap.memory, KD) = {HEAP_START}
  /\ Left(init_heap.bitmap) < TableSize
<1>1. PICK t : /\ t \in Low /\ t \notin BootBitmap /\ t # KD /\ KD \in Low /\ KD \notin BootBitmap
               /\ Booted(init_vmm, t) /\ Left(init_vmm.bitmap) >= 2
  BY VmmStarts
<1>2. PICK m : m = init_vmm
  OBVIOUS
<1>3. /\ m.bitmap = BootBitmap \cup {KD, t} /\ FirstTables(m.memory, t) /\ Left(m.bitmap) >= 2
      /\ m \in Machines /\ m.cr3 = KD /\ m.cached = Translations(m.memory, KD) /\ ~m.stray
  BY <1>1, <1>2 DEF Booted
<1>4. Spaces(m.bitmap, m.memory, {KD}, FirstRoles(t)) /\ OwnMapped(m.memory, KD) = {}
  BY <1>1, <1>3, FirstSpaces
<1>5. Sound(m, {KD})
  BY <1>3, <1>4 DEF Sound, Spaced
<1>6. PICK v \in Nat : v = HEAP_START
  BY PagingAssumption
<1>7. DirectoryIndex(v) = HI
  BY <1>6 DEF HI
<1>8. MayAdd(m.memory, {KD}, KD, DirectoryIndex(v))
  BY <1>7, HeapsIndex DEF MayAdd
<1>9. Cost(m.memory, KD, v) \in {1, 2}
  BY DEF Cost
<1>10. Left(m.bitmap) \in Nat /\ Left(m.bitmap) <= TableSize /\ TableSize \in Nat
  BY LeftCounts, PagingAssumption
<1>11. Left(m.bitmap) >= Cost(m.memory, KD, v)
  BY <1>3, <1>9, <1>10
<1>12. PICK r : r = MapFresh(m, KD, v, UserOf(KD))
  OBVIOUS
<1>13. Maps(m, r, {KD}, KD, {v}) /\ Left(r.bitmap) = Left(m.bitmap) - Cost(m.memory, KD, v)
  BY <1>4, <1>5, <1>8, <1>11, <1>12, FreshMapped
<1>14. r = init_heap
  BY <1>2, <1>6, <1>12 DEF init_heap, UserOf, KD
<1>15. Sound(r, {KD}) /\ OwnMapped(r.memory, KD) = {v}
  BY <1>4, <1>13 DEF Maps
<1>16. Left(r.bitmap) < TableSize
  BY <1>9, <1>10, <1>13
<1>17. QED
  BY <1>6, <1>14, <1>15, <1>16

LEMMA FirstGood == Good(init_heap, [p \in Programs |-> Dead], HEAP_START + 1)
<1>1. PICK procs : procs = [p \in Programs |-> Dead]
  OBVIOUS
<1>2. AliveIn(procs) = {}
  BY <1>1 DEF AliveIn, Dead
<1>3. DirectoriesOf(procs) = {KD}
  BY <1>2 DEF DirectoriesOf
<1>4. ProcessTyped(procs)
  <2>1. Dead \in [alive : BOOLEAN, page_directory : Frames, heap_pages_allocated : Nat]
    BY FramesAre DEF Dead
  <2>2. QED
    BY <1>1, <2>1 DEF ProcessTyped
<1>5. DirectoriesApart(procs) /\ ProgramSpaces(init_heap, procs)
  BY <1>2 DEF DirectoriesApart, ProgramSpaces
<1>6. PICK m : m = init_heap
  OBVIOUS
<1>7. Sound(m, {KD}) /\ OwnMapped(m.memory, KD) = {HEAP_START} /\ Left(m.bitmap) < TableSize
  BY <1>6, HeapStarts
<1>8. HEAP_START \in Nat /\ TableSize \in Nat /\ Left(m.bitmap) \in Nat
  BY LeftCounts, PagingAssumption
<1>9. PICK k \in Nat : k = HEAP_START + 1
  BY <1>8
<1>10. OwnMapped(m.memory, KD) = HEAP_START .. k - 1
  BY <1>7, <1>8, <1>9
<1>11. k > HEAP_START /\ k - HEAP_START + Left(m.bitmap) <= TableSize
  BY <1>7, <1>8, <1>9
<1>12. KernelSpace(m, k)
  BY <1>10, <1>11 DEF KernelSpace
<1>13. Good(m, procs, k)
  BY <1>3, <1>4, <1>5, <1>6, <1>7, <1>12 DEF Good
<1>14. QED
  BY <1>1, <1>6, <1>9, <1>13

-----------------------------------------------------------------------------
(* Every step *)

\* What a call leaves is the machine of the next state.
LEMMA Became ==
  ASSUME NEW m \in Machines, Become(m)
  PROVE  Machine' = m
  BY DEF Become, Machine, Machines

LEMMA GoodMachine ==
  ASSUME NEW m, NEW procs, NEW h, Good(m, procs, h)
  PROVE  m \in Machines
  BY DEF Good, Sound, Spaced

\* Nothing moves while memory stays as it is.
LEMMA UnmovedSame ==
  ASSUME NEW m, NEW m2, NEW procs, m2.memory = m.memory
  PROVE  Unmoved(m, procs, m2, procs)
  BY DEF Unmoved, Stays, KeptAt, Kept, Own

LEMMA UnmovedMemory ==
  ASSUME NEW m, NEW m2, NEW m3, NEW procs, NEW procs2, Unmoved(m, procs, m2, procs2),
         m3.memory = m2.memory
  PROVE  Unmoved(m, procs, m3, procs2)
  BY DEF Unmoved

\* No program is there while the kernel starts.
LEMMA NobodyYet ==
  ASSUME NEW m, NEW procs, NEW h, Good(m, procs, h), m.bitmap = init_heap.bitmap
  PROVE  AliveIn(procs) = {}
<1> SUFFICES ASSUME NEW q \in AliveIn(procs) PROVE FALSE
  OBVIOUS
<1>1. PICK d : d = procs[q].page_directory
  OBVIOUS
<1>2. d \notin m.bitmap /\ d \in DirectoriesOf(procs)
  BY <1>1 DEF Good, DirectoriesApart, DirectoriesOf
<1>3. PICK E : E = DirectoriesOf(procs)
  OBVIOUS
<1>4. PICK R : Spaced(m, E, R)
  BY <1>3 DEF Good, Sound
<1>5. Spaces(m.bitmap, m.memory, E, R) /\ d \in E
  BY <1>2, <1>3, <1>4 DEF Spaced
<1>6. d \in Frames /\ R[d] = Dir
  <2>1. d \in Frames
    BY <1>5, MembersAre
  <2>2. R[d] = Dir
    BY <1>5 DEF Spaces, Reserved
  <2>3. QED
    BY <2>1, <2>2
<1>7. R[d] = Free
  BY <1>2, <1>5, <1>6 DEF Spaces, Reserved
<1>8. QED
  BY <1>6, <1>7, RolesDiffer

\* Room keeps frames for what a call takes.
LEMMA RoomIs ==
  ASSUME MemoryLasts, NEW n, Room(n)
  PROVE  Left(Machine.bitmap) >= n
  BY DEF Room, Left, Low, Machine

\* Sizes are numbers, and the code ends before the heap begins.
LEMMA SizesAre ==
  /\ KernelGrowth \subseteq Nat /\ CodePages \subseteq Nat /\ HeapGrowth \subseteq Nat
  /\ \A n \in CodePages : USER_CODE_BASE + n <= USER_HEAP_START
  BY PagingAssumption, RegionsAssumption

LEMMA LoadedGood ==
  ASSUME MemoryLasts, Good(Machine, process, heapEnd), NEW p \in Programs, p \notin AliveIn(process),
         NEW g \in KernelGrowth, NEW n \in Nat, USER_CODE_BASE + n <= USER_HEAP_START,
         Room(g + n + 7)
  PROVE  /\ Good(Loaded(g, n), Listed(p, g), heapEnd + g)
         /\ Unmoved(Machine, process, Loaded(g, n), Listed(p, g))
         /\ AliveIn(Listed(p, g)) = AliveIn(process) \cup {p}
         /\ FirstFree(Grown(g)) \in Frames
         /\ Listed(p, g)[p].page_directory = FirstFree(Grown(g))
         /\ Listed(p, g)[p].heap_pages_allocated = 1
         /\ OwnMapped(Loaded(g, n).memory, FirstFree(Grown(g))) =
              {USER_STACK, USER_HEAP_START} \cup (USER_CODE_BASE .. USER_CODE_BASE + n - 1)
<1>1. g \in Nat /\ n \in Nat /\ USER_CODE_BASE + n <= USER_HEAP_START
  BY SizesAre
<1>2. PICK m, E : m = Machine /\ E = DirectoriesOf(process)
  OBVIOUS
<1>3. Left(m.bitmap) >= g + n + 7
  BY <1>2, RoomIs
<1>4. Sound(m, E) /\ KD \in E /\ KernelSpace(m, heapEnd) /\ ProcessTyped(process)
  BY <1>2 DEF Good, DirectoriesOf
<1>5. PICK m1 : m1 = MapPages(m, kernel_directory, heapEnd, g, FALSE)
  OBVIOUS
<1>6. PICK d : d = FirstFree(m1)
  OBVIOUS
<1>7. PICK r : r = LoadPages(create_uprocess(m1), d, n)
  OBVIOUS
<1>8. Extended(m, E, heapEnd, g, n, FirstFree(m1), LoadPages(create_uprocess(m1), FirstFree(m1), n))
  BY <1>1, <1>3, <1>4, <1>5, SpaceBuilt
<1>9. Extended(m, E, heapEnd, g, n, d, r)
  BY <1>6, <1>7, <1>8
<1>10. m1 = Grown(g) /\ r = Loaded(g, n)
  BY <1>2, <1>5, <1>6, <1>7 DEF Grown, Loaded, expand_heap
<1>11. d \in Frames
  BY <1>9 DEF Extended
<1>12. PICK procs2 : procs2 = [process EXCEPT ![p] =
                       [alive |-> TRUE, page_directory |-> d, heap_pages_allocated |-> 1]]
  OBVIOUS
<1>13. procs2 = Listed(p, g)
  BY <1>6, <1>10, <1>12 DEF Listed
<1>14. Replaces(process, procs2, p, TRUE, d, 1)
  <2>1. PICK a \in BOOLEAN, k \in Nat : a = TRUE /\ k = 1
    OBVIOUS
  <2>2. procs2 = [process EXCEPT ![p] =
                       [alive |-> a, page_directory |-> d, heap_pages_allocated |-> k]]
    BY <1>12, <2>1
  <2>3. Replaces(process, procs2, p, a, d, k)
    BY <1>4, <1>11, <2>2, Replaced
  <2>4. QED
    BY <2>1, <2>3
<1>15. Good(r, procs2, heapEnd + g) /\ Unmoved(m, process, r, procs2)
  BY <1>1, <1>2, <1>9, <1>14, ProgramListed
<1>16. AliveIn(procs2) = AliveIn(process) \cup {p}
  BY <1>14 DEF Replaces, AliveIn
<1>17. procs2[p].page_directory = d /\ procs2[p].heap_pages_allocated = 1
  BY <1>14 DEF Replaces
<1>18. OwnMapped(r.memory, d) =
         {USER_STACK, USER_HEAP_START} \cup (USER_CODE_BASE .. USER_CODE_BASE + n - 1)
  BY <1>9 DEF Extended
<1>19. QED
  BY <1>2, <1>6, <1>10, <1>11, <1>13, <1>15, <1>16, <1>17, <1>18

\* A step ends well.
Stepped(m, procs, h, c) ==
  /\ Good(m, procs, h) /\ c \in AliveIn(procs) \cup {Kernel}
  /\ Unmoved(Machine, process, m, procs)

LEMMA StepEnds ==
  ASSUME NEW m, NEW procs, NEW h, NEW c, Stepped(m, procs, h, c),
         Become(m), process' = procs, heapEnd' = h, current' = c
  PROVE  Sane' /\ Unmoved(Machine, process, Machine', process')
<1>1. Machine' = m
  BY GoodMachine, Became DEF Stepped
<1>2. Good(Machine', process', heapEnd') /\ current' \in AliveIn(process') \cup {Kernel}
  BY <1>1 DEF Stepped
<1>3. Sane'
  BY <1>2 DEF Sane
<1>4. Unmoved(Machine, process, Machine', process')
  BY <1>1 DEF Stepped
<1>5. QED
  BY <1>3, <1>4

LEMMA SwitchStep ==
  ASSUME Sane, NEW p, context_switch(p)
  PROVE  Sane' /\ Unmoved(Machine, process, Machine', process')
<1>1. PICK m, procs, h : m = SwitchMachine(Machine, process, p) /\ procs = process /\ h = heapEnd
  OBVIOUS
<1>2. /\ p \in AliveIn(process) \cup {Kernel} /\ Become(m) /\ current' = p
      /\ heapEnd' = h /\ process' = procs
  BY <1>1 DEF context_switch, Alive, AliveIn
<1>3. PICK m0 : m0 = Machine
  OBVIOUS
<1>4. Good(m0, procs, h) /\ m = SwitchMachine(m0, procs, p) /\ p \in AliveIn(procs) \cup {Kernel}
  BY <1>1, <1>2, <1>3 DEF Sane
<1>5. Good(m, procs, h) /\ m.memory = m0.memory
  BY <1>4, Switched
<1>6. Stepped(m, procs, h, p)
  BY <1>1, <1>3, <1>4, <1>5, UnmovedSame DEF Stepped
<1>7. QED
  BY <1>2, <1>6, StepEnds

LEMMA ExitStep ==
  ASSUME Sane, NEW p, sys_exit(p)
  PROVE  Sane' /\ Unmoved(Machine, process, Machine', process')
<1>1. PICK c : c = current
  OBVIOUS
<1>2. /\ c \in AliveIn(process) /\ p \in AliveIn(process) \cup {Kernel} /\ p # c
      /\ Good(Machine, process, heapEnd)
  BY <1>1 DEF Sane, sys_exit, Alive, AliveIn
<1>3. PICK r : r = Unmapped(SwitchMachine(Machine, process, p), c)
  OBVIOUS
<1>4. PICK procs2, h : procs2 = [process EXCEPT ![c] = Dead] /\ h = heapEnd
  OBVIOUS
<1>5. Become(r) /\ process' = procs2 /\ current' = p /\ heapEnd' = h
  BY <1>1, <1>3, <1>4 DEF sys_exit
<1>6. PICK m, procs : m = Machine /\ procs = process
  OBVIOUS
<1>7. Dismantled(m, DirectoriesOf(procs), procs[c].page_directory, r)
  BY <1>2, <1>3, <1>6, ProcessDismantled
<1>8. Replaces(procs, procs2, c, FALSE, 0, 0)
  <2>1. PICK a \in BOOLEAN, k \in Nat : a = FALSE /\ k = 0
    OBVIOUS
  <2>2. procs2 = [procs EXCEPT ![c] =
                       [alive |-> a, page_directory |-> k, heap_pages_allocated |-> k]]
    BY <1>4, <1>6, <2>1 DEF Dead
  <2>3. ProcessTyped(procs) /\ c \in Programs /\ k \in Frames
    BY <1>2, <1>6, <2>1, FramesAre DEF Good, AliveIn
  <2>4. Replaces(procs, procs2, c, a, k, k)
    BY <2>2, <2>3, Replaced
  <2>5. QED
    BY <2>1, <2>4
<1>9. Good(r, procs2, h) /\ Unmoved(m, procs, r, procs2)
  <2>1. Good(m, procs, h) /\ c \in AliveIn(procs)
    BY <1>2, <1>4, <1>6
  <2>2. QED
    BY <1>7, <1>8, <2>1, ProcessEnded
<1>10. p \in AliveIn(procs2) \cup {Kernel}
  BY <1>2, <1>6, <1>8 DEF Replaces, AliveIn
<1>11. Stepped(r, procs2, h, p)
  BY <1>6, <1>9, <1>10 DEF Stepped
<1>12. QED
  BY <1>5, <1>11, StepEnds

\* A loader that is not at work.
LEMMA LoaderRests ==
  ASSUME NEW l, LoadingTyped(l), ~ (l.left > 0), NEW mem, NEW procs, NEW c
  PROVE  LoaderAt(mem, procs, c, l)
  BY DEF LoaderAt

LEMMA NotLoadingIs == LoadingTyped(NotLoading) /\ ~ (NotLoading.left > 0)
  BY FramesAre DEF NotLoading, LoadingTyped

\* While a program runs, the loader is not at work.
LEMMA LoaderStays ==
  ASSUME Sane, Loader, current # Kernel, loading' = loading
  PROVE  Loader'
<1>1. LoadingTyped(loading) /\ ~ (loading.left > 0)
  BY DEF Loader, LoaderAt, AtWork
<1>2. LoadingTyped(loading') /\ ~ (loading'.left > 0)
  BY <1>1
<1>3. PICK l, mem, procs, c : l = loading' /\ mem = memory' /\ procs = process' /\ c = current'
  OBVIOUS
<1>4. LoaderAt(mem, procs, c, l)
  BY <1>2, <1>3, LoaderRests
<1>5. QED
  BY <1>3, <1>4 DEF Loader

LEMMA BootStep ==
  ASSUME MemoryLasts, Sane, NEW p \in Programs, NEW g \in KernelGrowth, NEW n \in CodePages,
         boot_load(p, g, n)
  PROVE  Sane' /\ Loader' /\ Unmoved(Machine, process, Machine', process')
<1>1. /\ Good(Machine, process, heapEnd) /\ current \in AliveIn(process) \cup {Kernel}
      /\ Machine.bitmap = init_heap.bitmap /\ Room(g + 7)
  BY DEF Sane, boot_load, Machine
<1>2. AliveIn(process) = {}
  BY <1>1, NobodyYet
<1>3. PICK r, procs, h, c, d : /\ r = Loaded(g, 0) /\ procs = Listed(p, g) /\ h = heapEnd + g
                               /\ c = current /\ d = FirstFree(Grown(g))
  OBVIOUS
<1>4. PICK z \in Nat : z = 0
  OBVIOUS
<1>5. n \in Nat /\ USER_CODE_BASE + n <= USER_HEAP_START /\ USER_CODE_BASE \in Nat /\ g \in Nat
  BY SizesAre, PagingAssumption
<1>6. USER_CODE_BASE + z <= USER_HEAP_START /\ Room(g + z + 7)
  <2>1. g + z + 7 = g + 7
    BY <1>4, <1>5
  <2>2. USER_CODE_BASE + z <= USER_HEAP_START
    BY <1>4, <1>5, PagingAssumption
  <2>3. QED
    BY <1>1, <2>1, <2>2
<1>7. /\ Good(r, procs, h) /\ Unmoved(Machine, process, r, procs)
      /\ AliveIn(procs) = AliveIn(process) \cup {p}
      /\ d \in Frames /\ procs[p].page_directory = d /\ procs[p].heap_pages_allocated = 1
      /\ OwnMapped(r.memory, d) =
           {USER_STACK, USER_HEAP_START} \cup (USER_CODE_BASE .. USER_CODE_BASE + z - 1)
  BY <1>1, <1>2, <1>3, <1>4, <1>6, LoadedGood
<1>8. Stepped(r, procs, h, c)
  BY <1>1, <1>3, <1>7 DEF Stepped
<1>9. Become(r) /\ process' = procs /\ heapEnd' = h /\ current' = c
  BY <1>3 DEF boot_load
<1>10. Sane' /\ Unmoved(Machine, process, Machine', process')
  BY <1>8, <1>9, StepEnds
<1>11. Loader'
  <2>1. CASE n = 0
    <3>1. loading' = NotLoading
      BY <2>1 DEF boot_load
    <3>2. PICK l, mem : l = loading' /\ mem = memory'
      OBVIOUS
    <3>3. LoaderAt(mem, procs, c, l)
      BY <3>1, <3>2, NotLoadingIs, LoaderRests
    <3>4. QED
      BY <1>9, <3>2, <3>3 DEF Loader
  <2>2. CASE n # 0
    <3>1. PICK l : l = [program |-> p, directory |-> d, next |-> USER_CODE_BASE, left |-> n]
      OBVIOUS
    <3>2. loading' = l /\ memory' = r.memory
      BY <1>3, <1>9, <2>2, <3>1 DEF boot_load, Become
    <3>3. l.program = p /\ l.directory = d /\ l.next = USER_CODE_BASE /\ l.left = n
      BY <3>1
    <3>4. LoadingTyped(l)
      BY <1>5, <1>7, <3>1 DEF LoadingTyped
    <3>5. c = Kernel /\ AliveIn(procs) = {p}
      BY <1>1, <1>2, <1>3, <1>7
    <3>6. OwnMapped(r.memory, d) = {USER_STACK, USER_HEAP_START} \cup (USER_CODE_BASE .. USER_CODE_BASE - 1)
      BY <1>4, <1>5, <1>7
    <3>7. USER_CODE_BASE <= USER_CODE_BASE
      BY <1>5
    <3>8. AtWork(r.memory, procs, c, l)
      BY <1>5, <1>7, <3>3, <3>5, <3>6, <3>7 DEF AtWork
    <3>9. QED
      BY <1>9, <3>2, <3>4, <3>8 DEF Loader, LoaderAt
  <2>3. QED
    BY <2>1, <2>2
<1>12. QED
  BY <1>10, <1>11

\* A page of code is added to the space of c.
LEMMA CodeGrown ==
  ASSUME NEW m, NEW procs, NEW h, Good(m, procs, h), NEW c \in AliveIn(procs),
         NEW d, d = procs[c].page_directory, NEW v \in CodeRange, NEW r,
         Maps(m, r, DirectoriesOf(procs), d, {v})
  PROVE  Good(r, procs, h) /\ Unmoved(m, procs, r, procs)
<1>1. PICK E : E = DirectoriesOf(procs)
  OBVIOUS
<1>2. /\ DirectoriesApart(procs) /\ ProgramSpaces(m, procs) /\ KernelSpace(m, h)
      /\ init_heap.bitmap \subseteq m.bitmap /\ ProcessTyped(procs)
  BY DEF Good
<1>3. /\ Sound(r, E) /\ m.bitmap \subseteq r.bitmap /\ Grows(m.memory, r.memory, E)
      /\ OwnMapped(r.memory, d) = OwnMapped(m.memory, d) \cup {v}
      /\ \A e \in E : e # d => OwnMapped(r.memory, e) = OwnMapped(m.memory, e)
  BY <1>1 DEF Maps
<1>4. E = {KD} \cup {procs[q].page_directory : q \in AliveIn(procs)}
  BY <1>1 DEF DirectoriesOf
<1>5. /\ d # KD /\ d \in E
      /\ \A q \in AliveIn(procs) : q # c => procs[q].page_directory # d
      /\ \A q \in AliveIn(procs) : procs[q].page_directory \in E
  BY <1>2, <1>4 DEF DirectoriesApart
<1>6. ASSUME NEW q \in AliveIn(procs), NEW e, e = procs[q].page_directory,
             NEW j, j = procs[q].heap_pages_allocated
      PROVE  SpaceOf(r, e, j)
  <2>1. SpaceOf(m, e, j)
    BY <1>2, <1>6 DEF ProgramSpaces
  <2>2. CASE e # d
    BY <1>3, <1>5, <1>6, <2>1, <2>2, SpaceKept
  <2>3. CASE e = d
    <3>1. Left(r.bitmap) <= Left(m.bitmap) /\ Left(m.bitmap) \in Nat /\ Left(r.bitmap) \in Nat
      BY <1>3, LeftFalls, LeftCounts
    <3>2. /\ j \in Nat /\ j >= 1 /\ j + Left(m.bitmap) <= TableSize
          /\ HeapOf(j) \cup {USER_STACK} \subseteq OwnMapped(m.memory, e)
          /\ OwnMapped(m.memory, e) \subseteq CodeRange \cup HeapOf(j) \cup {USER_STACK}
      BY <2>1 DEF SpaceOf
    <3>3. j + Left(r.bitmap) <= TableSize
      BY <3>1, <3>2, PagingAssumption
    <3>4. /\ HeapOf(j) \cup {USER_STACK} \subseteq OwnMapped(r.memory, e)
          /\ OwnMapped(r.memory, e) \subseteq CodeRange \cup HeapOf(j) \cup {USER_STACK}
      BY <1>3, <2>3, <3>2
    <3>5. QED
      BY <3>2, <3>3, <3>4 DEF SpaceOf
  <2>4. QED
    BY <2>2, <2>3
<1>7. ProgramSpaces(r, procs)
  BY <1>6 DEF ProgramSpaces
<1>8. KernelSpace(r, h)
  <2>1. OwnMapped(r.memory, KD) = OwnMapped(m.memory, KD)
    BY <1>3, <1>4, <1>5
  <2>2. QED
    BY <1>2, <1>3, <2>1, KernelKept
<1>9. Good(r, procs, h)
  BY <1>1, <1>2, <1>3, <1>7, <1>8 DEF Good
<1>10. Unmoved(m, procs, r, procs)
  <2>1. ASSUME NEW q \in AliveIn(procs)
        PROVE  Stays(m.memory, r.memory, procs[q].page_directory)
    BY <1>3, <1>5, GrowsStays
  <2>2. QED
    BY <2>1 DEF Unmoved
<1>11. QED
  BY <1>9, <1>10

\* The next page of the loader's program.
LEMMA PageLoaded ==
  ASSUME MemoryLasts, Good(Machine, process, heapEnd), NEW l, LoadingTyped(l), l.left > 0,
         AtWork(memory, process, current, l), Room(2),
         NEW r, r = LoadPage(Machine, l.directory, l.next)
  PROVE  /\ Good(r, process, heapEnd) /\ Unmoved(Machine, process, r, process)
         /\ OwnMapped(r.memory, l.directory) =
              {USER_STACK, USER_HEAP_START} \cup (USER_CODE_BASE .. l.next + 1 - 1)
<1>1. PICK m, d, v, E : m = Machine /\ d = l.directory /\ v = l.next /\ E = DirectoriesOf(process)
  OBVIOUS
<1>2. m.memory = memory
  BY <1>1 DEF Machine
<1>3. PICK c : c = l.program
  OBVIOUS
<1>4. /\ c \in AliveIn(process) /\ d = process[c].page_directory
      /\ OwnMapped(m.memory, d) = {USER_STACK, USER_HEAP_START} \cup (USER_CODE_BASE .. v - 1)
      /\ USER_CODE_BASE <= v /\ v + l.left <= USER_HEAP_START
  BY <1>1, <1>2, <1>3 DEF AtWork
<1>5. /\ USER_CODE_BASE \in Nat /\ USER_HEAP_START \in Nat /\ USER_STACK \in Nat /\ HEAP_START \in Nat
      /\ TableSize \in Nat /\ TableSize <= USER_CODE_BASE
      /\ USER_HEAP_START < USER_STACK /\ USER_STACK < HEAP_START
  BY PagingAssumption
<1>6. v \in Nat /\ l.left \in Nat
  BY <1>1 DEF LoadingTyped
<1>7. v < USER_HEAP_START /\ TableSize <= v /\ v < HEAP_START /\ v \in CodeRange
  BY <1>4, <1>5, <1>6 DEF CodeRange
<1>8. v \notin OwnMapped(m.memory, d)
  BY <1>4, <1>5, <1>6, <1>7
<1>9. /\ Good(m, process, heapEnd) /\ Sound(m, E) /\ d \in E /\ d # KD
  BY <1>1, <1>4 DEF Good, DirectoriesOf, DirectoriesApart
<1>10. MayAdd(m.memory, E, d, DirectoryIndex(v))
  BY <1>6, <1>7, <1>9, UserMayAdd
<1>11. Left(m.bitmap) >= 2 /\ Left(m.bitmap) \in Nat
  BY <1>1, RoomIs, LeftCounts
<1>12. Left(m.bitmap) > 0 /\ Left(m.bitmap) >= Cost(m.memory, d, v)
  BY <1>11 DEF Cost
<1>13. r = MapFresh(m, d, v, UserOf(d))
  <2>1. r = MapFresh(m, d, v, TRUE)
    BY <1>1, <1>9, <1>12, LoadPageIs
  <2>2. UserOf(d) = TRUE
    BY <1>9 DEF UserOf
  <2>3. QED
    BY <2>1, <2>2
<1>14. Maps(m, r, E, d, {v})
  BY <1>6, <1>8, <1>9, <1>10, <1>12, <1>13, FreshMapped
<1>15. Good(r, process, heapEnd) /\ Unmoved(m, process, r, process)
  BY <1>1, <1>4, <1>7, <1>9, <1>14, CodeGrown
<1>16. OwnMapped(r.memory, d) = OwnMapped(m.memory, d) \cup {v}
  BY <1>14 DEF Maps
<1>17. (USER_CODE_BASE .. v - 1) \cup {v} = USER_CODE_BASE .. v + 1 - 1
  BY <1>4, <1>5, <1>6
<1>18. QED
  BY <1>1, <1>4, <1>15, <1>16, <1>17

LEMMA PageStep ==
  ASSUME MemoryLasts, Sane, Loader, boot_page
  PROVE  Sane' /\ Loader' /\ Unmoved(Machine, process, Machine', process')
<1>1. PICK l : l = loading
  OBVIOUS
<1>2. /\ Good(Machine, process, heapEnd) /\ current = Kernel /\ l.left > 0 /\ Room(2)
      /\ LoadingTyped(l) /\ AtWork(memory, process, current, l)
  BY <1>1 DEF Sane, boot_page, Loader, LoaderAt
<1>3. PICK r : r = LoadPage(Machine, l.directory, l.next)
  OBVIOUS
<1>4. /\ Good(r, process, heapEnd) /\ Unmoved(Machine, process, r, process)
      /\ OwnMapped(r.memory, l.directory) =
           {USER_STACK, USER_HEAP_START} \cup (USER_CODE_BASE .. l.next + 1 - 1)
  BY <1>2, <1>3, PageLoaded
<1>5. PICK procs, h, c : procs = process /\ h = heapEnd /\ c = current
  OBVIOUS
<1>6. Stepped(r, procs, h, c)
  BY <1>2, <1>4, <1>5 DEF Stepped
<1>7. Become(r) /\ process' = procs /\ heapEnd' = h /\ current' = c
  BY <1>1, <1>3, <1>5 DEF boot_page
<1>8. Sane' /\ Unmoved(Machine, process, Machine', process')
  BY <1>6, <1>7, StepEnds
<1>9. Loader'
  <2>1. CASE l.left = 1
    <3>1. loading' = NotLoading
      BY <1>1, <2>1 DEF boot_page
    <3>2. PICK k, mem : k = loading' /\ mem = memory'
      OBVIOUS
    <3>3. LoaderAt(mem, procs, c, k)
      BY <3>1, <3>2, NotLoadingIs, LoaderRests
    <3>4. QED
      BY <1>7, <3>2, <3>3 DEF Loader
  <2>2. CASE l.left # 1
    <3>1. PICK k : k = [l EXCEPT !.next = @ + 1, !.left = @ - 1]
      OBVIOUS
    <3>2. loading' = k /\ memory' = r.memory
      BY <1>1, <1>7, <2>2, <3>1 DEF boot_page, Become
    <3>3. l.next \in Nat /\ l.left \in Nat /\ l.next + 1 \in Nat /\ l.left - 1 \in Nat
      BY <1>2 DEF LoadingTyped
    <3>4. /\ k.program = l.program /\ k.directory = l.directory /\ k.next = l.next + 1
          /\ k.left = l.left - 1 /\ LoadingTyped(k)
      BY <1>2, <3>1, <3>3 DEF LoadingTyped
    <3>5. /\ USER_CODE_BASE <= l.next /\ l.next + l.left <= USER_HEAP_START
          /\ USER_CODE_BASE \in Nat /\ USER_HEAP_START \in Nat
      BY <1>2, PagingAssumption DEF AtWork
    <3>6. USER_CODE_BASE <= k.next /\ k.next + k.left <= USER_HEAP_START
      BY <3>3, <3>4, <3>5
    <3>7. AtWork(r.memory, procs, c, k)
      <4>1. OwnMapped(r.memory, k.directory) =
              {USER_STACK, USER_HEAP_START} \cup (USER_CODE_BASE .. k.next - 1)
        <5>1. PICK j \in Nat : j = l.next
          BY <3>3
        <5>2. k.next = j + 1 /\ k.directory = l.directory
          BY <3>4, <5>1
        <5>3. k.next - 1 = l.next /\ l.next + 1 - 1 = l.next
          BY <5>1, <5>2
        <5>4. QED
          BY <1>4, <5>2, <5>3
      <4>2. /\ c = Kernel /\ AliveIn(procs) = {k.program} /\ k.program \in Programs
            /\ procs[k.program].page_directory = k.directory
            /\ procs[k.program].heap_pages_allocated = 1
        BY <1>2, <1>5, <3>4 DEF AtWork
      <4>3. QED
        BY <3>6, <4>1, <4>2 DEF AtWork
    <3>8. QED
      BY <1>7, <3>2, <3>4, <3>7 DEF Loader, LoaderAt
  <2>3. QED
    BY <2>1, <2>2
<1>10. QED
  BY <1>8, <1>9

LEMMA RunStep ==
  ASSUME MemoryLasts, Sane, NEW p \in Programs, NEW g \in KernelGrowth, NEW n \in CodePages,
         NEW next, sys_run(p, g, n, next)
  PROVE  Sane' /\ Unmoved(Machine, process, Machine', process')
<1>1. /\ Good(Machine, process, heapEnd) /\ p \notin AliveIn(process) /\ Room(g + n + 7)
      /\ next \in AliveIn(process) \cup {Kernel, p}
      /\ n \in Nat /\ USER_CODE_BASE + n <= USER_HEAP_START
  BY SizesAre DEF Sane, sys_run, Alive, AliveIn
<1>2. PICK r, procs, h : r = Loaded(g, n) /\ procs = Listed(p, g) /\ h = heapEnd + g
  OBVIOUS
<1>3. /\ Good(r, procs, h) /\ Unmoved(Machine, process, r, procs)
      /\ AliveIn(procs) = AliveIn(process) \cup {p}
  BY <1>1, <1>2, LoadedGood
<1>4. PICK s : s = SwitchMachine(r, procs, next)
  OBVIOUS
<1>5. next \in AliveIn(procs) \cup {Kernel}
  BY <1>1, <1>3
<1>6. Good(s, procs, h) /\ s.memory = r.memory
  BY <1>3, <1>4, <1>5, Switched
<1>7. Unmoved(Machine, process, s, procs)
  BY <1>3, <1>6, UnmovedMemory
<1>8. Stepped(s, procs, h, next)
  BY <1>5, <1>6, <1>7 DEF Stepped
<1>9. Become(s) /\ process' = procs /\ heapEnd' = h /\ current' = next
  BY <1>2, <1>4 DEF sys_run
<1>10. QED
  BY <1>8, <1>9, StepEnds

LEMMA SbrkStep ==
  ASSUME MemoryLasts, Sane, NEW n \in HeapGrowth, sys_sbrk(n)
  PROVE  Sane' /\ Unmoved(Machine, process, Machine', process')
<1>1. PICK c : c = current
  OBVIOUS
<1>2. /\ c \in AliveIn(process) /\ Good(Machine, process, heapEnd) /\ Room(n + 1) /\ n \in Nat
  BY <1>1, SizesAre DEF Sane, sys_sbrk
<1>3. PICK m, procs, E, h : m = Machine /\ procs = process /\ E = DirectoriesOf(procs) /\ h = heapEnd
  OBVIOUS
<1>4. PICK d, k : d = procs[c].page_directory /\ k = procs[c].heap_pages_allocated
  OBVIOUS
<1>5. /\ Good(m, procs, h) /\ c \in AliveIn(procs) /\ Sound(m, E) /\ d \in E /\ d # KD
      /\ SpaceOf(m, d, k) /\ ProcessTyped(procs) /\ c \in Programs
  BY <1>2, <1>3, <1>4 DEF Good, DirectoriesOf, DirectoriesApart, ProgramSpaces, AliveIn
<1>6. Left(m.bitmap) >= n + 1
  BY <1>2, <1>3, RoomIs
<1>7. PICK r : r = MapPages(m, d, USER_HEAP_START + k, n, TRUE)
  OBVIOUS
<1>8. Lengthened(m, E, d, k, n, MapPages(m, d, USER_HEAP_START + k, n, TRUE))
  BY <1>2, <1>5, <1>6, HeapLengthened
<1>9. Lengthened(m, DirectoriesOf(procs), d, k, n, r)
  BY <1>3, <1>7, <1>8
<1>10. PICK procs2 : procs2 = [procs EXCEPT ![c].heap_pages_allocated = @ + n]
  OBVIOUS
<1>11. k \in Nat /\ d \in Frames /\ procs[c].alive = TRUE
  BY <1>4, <1>5 DEF ProcessTyped, AliveIn
<1>12. Replaces(procs, procs2, c, TRUE, d, k + n)
  <2>1. PICK j \in Nat : j = k + n
    BY <1>2, <1>11
  <2>2. procs2 = [procs EXCEPT ![c] = [procs[c] EXCEPT !.heap_pages_allocated = j]]
    BY <1>4, <1>10, <2>1
  <2>3. PICK a \in BOOLEAN : a = TRUE
    OBVIOUS
  <2>4. PICK x : x = [alive |-> a, page_directory |-> d, heap_pages_allocated |-> k]
    OBVIOUS
  <2>5. procs2 = [procs EXCEPT ![c] = [alive |-> a, page_directory |-> d, heap_pages_allocated |-> j]]
    <3>1. procs[c] = x
      BY <1>4, <1>5, <1>11, <2>3, <2>4 DEF ProcessTyped
    <3>2. procs2 = [procs EXCEPT ![c] = [x EXCEPT !.heap_pages_allocated = j]]
      BY <2>2, <3>1
    <3>3. [x EXCEPT !.heap_pages_allocated = j]
            = [alive |-> a, page_directory |-> d, heap_pages_allocated |-> j]
      BY <2>4
    <3>4. QED
      BY <3>2, <3>3
  <2>6. Replaces(procs, procs2, c, a, d, j)
    BY <1>5, <1>11, <2>5, Replaced
  <2>7. QED
    BY <2>1, <2>3, <2>6
<1>13. Good(r, procs2, h) /\ Unmoved(m, procs, r, procs2)
  BY <1>2, <1>4, <1>5, <1>9, <1>12, HeapGrown
<1>14. c \in AliveIn(procs2)
  BY <1>5, <1>12 DEF Replaces, AliveIn
<1>15. Stepped(r, procs2, h, c)
  BY <1>3, <1>13, <1>14 DEF Stepped
<1>16. Become(r) /\ process' = procs2 /\ heapEnd' = h /\ current' = c
  BY <1>1, <1>3, <1>4, <1>7, <1>10 DEF sys_sbrk
<1>17. QED
  BY <1>15, <1>16, StepEnds

\* A switch that is not to the loader's program leaves the loader at work.
LEMMA SwitchLoads ==
  ASSUME Sane, Loader, NEW p, context_switch(p), ~ (loading.left > 0 /\ current' = loading.program)
  PROVE  Loader'
<1>1. /\ p \in AliveIn(process) \cup {Kernel} /\ Become(SwitchMachine(Machine, process, p))
      /\ current' = p /\ process' = process /\ loading' = loading
  BY DEF context_switch, Alive, AliveIn
<1>2. memory' = memory
  <2>1. PICK m0, m, procs, h : /\ m0 = Machine /\ m = SwitchMachine(m0, procs, p)
                               /\ procs = process /\ h = heapEnd
    OBVIOUS
  <2>2. Good(m0, procs, h) /\ p \in AliveIn(procs) \cup {Kernel}
    BY <1>1, <2>1 DEF Sane
  <2>3. m.memory = m0.memory
    BY <2>1, <2>2, Switched
  <2>4. QED
    BY <1>1, <2>1, <2>3 DEF Become, Machine
<1>3. ASSUME loading.left > 0 PROVE AtWork(memory, process, p, loading)
  <2>1. AtWork(memory, process, current, loading)
    BY <1>3 DEF Loader, LoaderAt
  <2>2. p = Kernel
    BY <1>1, <1>3, <2>1 DEF AtWork
  <2>3. QED
    BY <2>1, <2>2 DEF AtWork
<1>4. LoadingTyped(loading)
  BY DEF Loader, LoaderAt
<1>5. QED
  BY <1>1, <1>2, <1>3, <1>4 DEF Loader, LoaderAt

Moves == Unmoved(Machine, process, Machine', process')

\* A step with no race keeps all of it.
LEMMA RunningStep ==
  ASSUME MemoryLasts, Sane, Loader, Running, ~raced'
  PROVE  Sane' /\ Loader' /\ Moves
<1>1. ~ (loading.left > 0 /\ current' = loading.program)
  BY DEF Running
<1>2. ASSUME NEW p, context_switch(p) PROVE Sane' /\ Loader' /\ Moves
  BY <1>1, <1>2, SwitchStep, SwitchLoads DEF Moves
<1>3. ASSUME NEW p, sys_exit(p) PROVE Sane' /\ Loader' /\ Moves
  <2>1. current # Kernel /\ loading' = loading
    BY <1>3 DEF sys_exit
  <2>2. QED
    BY <1>3, <2>1, ExitStep, LoaderStays DEF Moves
<1>4. ASSUME NEW p \in Programs, NEW g \in KernelGrowth, NEW n \in CodePages, boot_load(p, g, n)
      PROVE  Sane' /\ Loader' /\ Moves
  BY <1>4, BootStep DEF Moves
<1>5. ASSUME NEW p \in Programs, NEW g \in KernelGrowth, NEW n \in CodePages, NEW next,
             sys_run(p, g, n, next)
      PROVE  Sane' /\ Loader' /\ Moves
  <2>1. current # Kernel /\ loading' = loading
    BY <1>5 DEF sys_run
  <2>2. QED
    BY <1>5, <2>1, RunStep, LoaderStays DEF Moves
<1>6. ASSUME boot_page PROVE Sane' /\ Loader' /\ Moves
  BY <1>6, PageStep DEF Moves
<1>7. ASSUME NEW n \in HeapGrowth, sys_sbrk(n) PROVE Sane' /\ Loader' /\ Moves
  <2>1. current # Kernel /\ loading' = loading
    BY <1>7 DEF sys_sbrk
  <2>2. QED
    BY <1>7, <2>1, SbrkStep, LoaderStays DEF Moves
<1>8. QED
  BY <1>2, <1>3, <1>4, <1>5, <1>6, <1>7 DEF Running

LEMMA IdleStep ==
  ASSUME Sane, Loader, UNCHANGED vars
  PROVE  Sane' /\ Loader' /\ Moves
<1>1. /\ Machine' = Machine /\ process' = process /\ heapEnd' = heapEnd /\ current' = current
      /\ memory' = memory /\ loading' = loading
  BY DEF vars, Machine
<1>2. Sane' /\ Loader'
  BY <1>1 DEF Sane, Loader
<1>3. PICK m, procs : m = Machine /\ procs = process
  OBVIOUS
<1>4. Unmoved(m, procs, m, procs)
  BY UnmovedSame
<1>5. QED
  BY <1>1, <1>2, <1>3, <1>4 DEF Moves

\* The invariant: while no program has run before its code was there, all is
\* as it should be, and so is the loader.
IInv == raced \in BOOLEAN /\ (~raced => Sane /\ Loader)

\* Once a race was seen it stays seen.
LEMMA RacedStays ==
  ASSUME raced \in BOOLEAN, [Next]_vars
  PROVE  raced' \in BOOLEAN /\ (raced => raced')
<1>1. CASE Running
  <2>1. raced' = (raced \/ (loading.left > 0 /\ current' = loading.program))
    BY <1>1 DEF Running
  <2>2. raced' \in BOOLEAN
    BY <2>1, Zenon
  <2>3. raced => raced'
    BY <2>1, Zenon
  <2>4. QED
    BY <2>2, <2>3
<1>2. CASE UNCHANGED vars
  BY <1>2 DEF vars
<1>3. QED
  BY <1>1, <1>2 DEF Next, Astray

LEMMA AnyStep ==
  ASSUME MemoryLasts, IInv, [Next]_vars
  PROVE  IInv' /\ (~raced' => Sane /\ Sane' /\ Moves)
<1>1. raced' \in BOOLEAN /\ (raced => raced')
  BY RacedStays DEF IInv
<1>2. ASSUME ~raced' PROVE Sane /\ Sane' /\ Loader' /\ Moves
  <2>1. Sane /\ Loader
    BY <1>1, <1>2 DEF IInv
  <2>2. CASE Running
    BY <1>2, <2>1, <2>2, RunningStep
  <2>3. CASE UNCHANGED vars
    BY <2>1, <2>3, IdleStep
  <2>4. QED
    BY <2>1, <2>2, <2>3 DEF Next, Astray
<1>3. QED
  BY <1>1, <1>2 DEF IInv

-----------------------------------------------------------------------------
(* The properties *)

\* What the invariant says of the variables.
LEMMA Parts ==
  ASSUME Sane
  PROVE  /\ Machine \in Machines /\ ~stray /\ cached \subseteq Translations(memory, cr3)
         /\ memory \in [Frames -> Contents] /\ bitmap \subseteq Frames /\ cr3 \in Frames
         /\ \E R : Spaces(bitmap, memory, DirectoriesOf(process), R)
         /\ ProcessTyped(process) /\ DirectoriesApart(process) /\ ProgramSpaces(Machine, process)
         /\ heapEnd \in Nat /\ OwnMapped(memory, KD) = HEAP_START .. heapEnd - 1
         /\ Alive = AliveIn(process)
<1>1. PICK E : E = DirectoriesOf(process)
  OBVIOUS
<1>2. PICK R : Spaced(Machine, E, R)
  BY <1>1 DEF Sane, Good, Sound
<1>3. /\ Machine.bitmap = bitmap /\ Machine.memory = memory /\ Machine.cr3 = cr3
      /\ Machine.cached = cached /\ Machine.stray = stray
  BY DEF Machine
<1>4. Machine \in Machines /\ ~stray /\ Spaces(bitmap, memory, E, R)
  BY <1>2, <1>3 DEF Spaced
<1>5. memory \in [Frames -> Contents] /\ bitmap \subseteq Frames /\ cr3 \in Frames
  BY <1>3, <1>4, MachineHas
<1>6. cached \subseteq Translations(memory, cr3)
  BY <1>3 DEF Sane, Good, Sound
<1>7. ProcessTyped(process) /\ DirectoriesApart(process) /\ ProgramSpaces(Machine, process)
  BY DEF Sane, Good
<1>8. heapEnd \in Nat /\ OwnMapped(memory, KD) = HEAP_START .. heapEnd - 1
  BY <1>3 DEF Sane, Good, KernelSpace
<1>9. Alive = AliveIn(process)
  BY DEF Alive, AliveIn
<1>10. QED
  BY <1>1, <1>4, <1>5, <1>6, <1>7, <1>8, <1>9

\* The directory of a program.
LEMMA OfAlive ==
  ASSUME Sane, NEW p \in Alive
  PROVE  /\ p \in Programs /\ process[p].page_directory \in DirectoriesOf(process)
         /\ process[p].page_directory # KD /\ process[p].page_directory \in Frames
         /\ \A q \in Alive : process[p].page_directory = process[q].page_directory => p = q
<1>1. /\ p \in AliveIn(process) /\ DirectoriesApart(process) /\ ProcessTyped(process)
      /\ Alive = AliveIn(process)
  BY Parts
<1>2. p \in Programs /\ process[p].page_directory \in DirectoriesOf(process)
  BY <1>1 DEF AliveIn, DirectoriesOf
<1>3. /\ process[p].page_directory # KD
      /\ \A q \in Alive : process[p].page_directory = process[q].page_directory => p = q
  BY <1>1 DEF DirectoriesApart
<1>4. process[p].page_directory \in Frames
  BY <1>1, <1>2 DEF ProcessTyped
<1>5. QED
  BY <1>2, <1>3, <1>4

\* The pages of a program are its own.
LEMMA OfUser ==
  ASSUME Sane, NEW p \in Alive, NEW v
  PROVE  v \in UserPages(p) <=> v \in OwnMapped(memory, process[p].page_directory)
<1>1. PICK E, d : E = DirectoriesOf(process) /\ d = process[p].page_directory
  OBVIOUS
<1>2. PICK R : Spaces(bitmap, memory, E, R)
  BY <1>1, Parts
<1>3. d \in E /\ d # KD /\ d \in Frames /\ memory \in [Frames -> Contents]
  BY <1>1, OfAlive, Parts
<1>4. v \in UserPages(p) <=> v \in MappedPages(memory, d) /\ UserPage(memory, d, v)
  BY <1>1 DEF UserPages
<1>5. ASSUME v \in MappedPages(memory, d), UserPage(memory, d, v)
      PROVE  v \in OwnMapped(memory, d)
  <2>1. v \in Nat
    BY <1>3, <1>5, PagesFound
  <2>2. QED
    BY <1>2, <1>3, <1>5, <2>1, UsersPages
<1>6. ASSUME v \in OwnMapped(memory, d)
      PROVE  v \in MappedPages(memory, d) /\ UserPage(memory, d, v)
  BY <1>2, <1>3, <1>6, OwnMappedIs
<1>7. QED
  BY <1>1, <1>4, <1>5, <1>6

\* A table is for nothing else.
LEMMA TableRole ==
  ASSUME NEW b, NEW mem, NEW E, NEW R, Spaces(b, mem, E, R), NEW e \in E, NEW f \in
         {e} \cup {mem[e][i].frame : i \in DOMAIN mem[e]}
  PROVE  f \in Low /\ (f \in E \/ R[f] # Dir) /\ \A d, v : R[f] # Page(d, v)
<1>1. CASE f = e
  <2>1. e \in Low /\ R[e] = Dir
    BY MembersAre DEF Spaces, Reserved
  <2>2. QED
    BY <1>1, <2>1, RolesDiffer
<1>2. CASE f # e
  <2>1. PICK i \in DOMAIN mem[e] : f = At(mem, e, i)
    BY <1>2 DEF At
  <2>2. f \in Low /\ R[f] # Dir
    BY <2>1, EntryOf
  <2>3. \/ i = 0 /\ mem[e][i] = mem[KD][0]
        \/ i \in Own(mem, e)
        \/ i = HI /\ HI \in Own(mem, KD) /\ mem[e][i] = mem[KD][HI]
    BY <2>1, EntryOf
  <2>4. \E d, k : R[f] = Tab(d, k)
    <3>1. CASE i = 0 /\ mem[e][i] = mem[KD][0]
      BY <2>1, <3>1 DEF Spaces, Shared, At
    <3>2. CASE i \in Own(mem, e)
      BY <2>1, <3>2 DEF Spaces, OwnTables
    <3>3. CASE i = HI /\ HI \in Own(mem, KD) /\ mem[e][i] = mem[KD][HI]
      <4>1. f = At(mem, KD, HI)
        BY <2>1, <3>3 DEF At
      <4>2. KD \in E
        BY DEF Spaces, Reserved
      <4>3. QED
        BY <3>3, <4>1, <4>2 DEF Spaces, OwnTables
    <3>4. QED
      BY <2>3, <3>1, <3>2, <3>3
  <2>5. QED
    BY <2>2, <2>4, RolesDiffer
<1>3. QED
  BY <1>1, <1>2

\* All tables in use are one of a directory in use.
LEMMA TablesAre ==
  ASSUME Sane, NEW f \in Tables
  PROVE  \E e \in DirectoriesOf(process) : f \in {e} \cup {memory[e][i].frame : i \in DOMAIN memory[e]}
<1>1. Alive = AliveIn(process)
  BY Parts
<1>2. f \in TablesOf(KD) \/ \E p \in Alive : f \in TablesOf(process[p].page_directory)
  BY DEF Tables, KD
<1>3. QED
  BY <1>1, <1>2 DEF TablesOf, DirectoriesOf

\* The invariant holds at first.
LEMMA InitIInv == Init => IInv
<1> SUFFICES ASSUME Init PROVE IInv
  OBVIOUS
<1>1. PICK m : m = init_heap
  OBVIOUS
<1>2. Good(m, [p \in Programs |-> Dead], HEAP_START + 1)
  BY <1>1, FirstGood
<1>3. m \in Machines
  BY <1>2, GoodMachine
<1>4. Machine = m
  BY <1>1, <1>3 DEF Init, Machine, Machines
<1>5. Good(Machine, process, heapEnd)
  BY <1>2, <1>4 DEF Init
<1>6. current \in AliveIn(process) \cup {Kernel}
  BY DEF Init
<1>7. Loader
  BY NotLoadingIs, LoaderRests DEF Init, Loader
<1>8. QED
  BY <1>5, <1>6, <1>7 DEF Init, IInv, Sane

\* As long as frames of the identity mapping last and no program runs before its
\* code is there, address spaces, frames and processes keep the form Sane gives.
THEOREM Invariance ==
  ASSUME MemoryLasts PROVE Spec => []IInv
<1>1. Init => IInv
  BY InitIInv
<1>2. IInv /\ [Next]_vars => IInv'
  BY AnyStep
<1>3. QED
  BY <1>1, <1>2, PTL DEF Spec

LEMMA HasType == IInv => TypeOK
<1> SUFFICES ASSUME IInv, ~raced PROVE TypeOK
  BY DEF IInv, TypeOK
<1>0. Sane /\ Loader
  BY DEF IInv
<1>1. /\ memory \in [Frames -> Contents] /\ bitmap \subseteq Frames /\ cr3 \in Frames /\ ~stray
      /\ heapEnd \in Nat /\ ProcessTyped(process) /\ Alive = AliveIn(process)
      /\ Machine \in Machines
  BY <1>0, Parts
<1>2. stray \in BOOLEAN
  BY <1>1, MachineHas DEF Machine
<1>3. ASSUME NEW f \in Frames, NEW i \in DOMAIN memory[f]
      PROVE  i \in 0 .. TableSize - 1 /\ memory[f][i].frame \in Frames
  <2>1. memory[f] \in Contents
    BY <1>1
  <2>2. QED
    BY <2>1, TableIs DEF Low
<1>4. current \in Alive \cup {Kernel}
  BY <1>0, <1>1 DEF Sane
<1>5. LoadingTyped(loading)
  BY <1>0 DEF Loader, LoaderAt
<1>6. QED
  BY <1>1, <1>2, <1>3, <1>4, <1>5 DEF TypeOK, ProcessTyped, LoadingTyped, IInv

LEMMA KeepsApart == (~raced => Sane) => Isolated
<1> SUFFICES ASSUME Sane, ~raced, NEW p \in Alive, NEW v \in UserPages(p)
             PROVE  /\ UserFrame(p, v) \in bitmap \ (Held \cup Tables \cup KernelHeapFrames \cup {0})
                    /\ \A q \in Alive : \A w \in UserPages(q) :
                         UserFrame(p, v) = UserFrame(q, w) => p = q /\ v = w
  BY DEF Isolated
<1>1. PICK E, d : E = DirectoriesOf(process) /\ d = process[p].page_directory
  OBVIOUS
<1>2. PICK R : Spaces(bitmap, memory, E, R)
  BY <1>1, Parts
<1>3. d \in E /\ d # KD /\ v \in OwnMapped(memory, d)
  BY <1>1, OfAlive, OfUser
<1>4. PICK f : f = UserFrame(p, v)
  OBVIOUS
<1>5. f \in Frames /\ R[f] = Page(d, v)
  BY <1>1, <1>2, <1>3, <1>4, OwnMappedIs DEF UserFrame
<1>6. f \in bitmap
  BY <1>2, <1>5, RolesDiffer DEF Spaces, Reserved
<1>7. f \notin Held \cup {0}
  BY <1>2, <1>5, RolesDiffer DEF Spaces, Reserved
<1>8. f \notin Tables
  <2>1. ASSUME f \in Tables PROVE FALSE
    <3>1. PICK e \in E : f \in {e} \cup {memory[e][i].frame : i \in DOMAIN memory[e]}
      BY <1>1, <2>1, TablesAre
    <3>2. R[f] # Page(d, v)
      BY <1>2, <3>1, TableRole
    <3>3. QED
      BY <1>5, <3>2
  <2>2. QED
    BY <2>1
<1>9. f \notin KernelHeapFrames
  <2>1. ASSUME NEW w \in HEAP_START .. heapEnd - 1, f = FrameOf(memory, KD, w) PROVE FALSE
    <3>1. w \in OwnMapped(memory, KD) /\ KD \in E
      BY <1>1, Parts DEF DirectoriesOf
    <3>2. R[f] = Page(KD, w)
      BY <1>2, <2>1, <3>1, OwnMappedIs
    <3>3. QED
      BY <1>3, <1>5, <3>2, RolesDiffer
  <2>2. QED
    BY <2>1 DEF KernelHeapFrames, KD
<1>10. ASSUME NEW q \in Alive, NEW w \in UserPages(q), f = UserFrame(q, w)
       PROVE  p = q /\ v = w
  <2>1. PICK e : e = process[q].page_directory
    OBVIOUS
  <2>2. e \in E /\ w \in OwnMapped(memory, e)
    BY <1>1, <2>1, OfAlive, OfUser
  <2>3. R[f] = Page(e, w)
    BY <1>2, <1>10, <2>1, <2>2, OwnMappedIs DEF UserFrame
  <2>4. d = e /\ v = w
    BY <1>5, <2>3, RolesDiffer
  <2>5. QED
    BY <1>1, <2>1, <2>4, OfAlive
<1>11. QED
  BY <1>4, <1>6, <1>7, <1>8, <1>9, <1>10

LEMMA SharesKernel == (~raced => Sane) => KernelInEverySpace
<1> SUFFICES ASSUME Sane, ~raced, NEW p \in Alive, NEW v \in MappedPages(memory, KD),
                    NEW d, d = process[p].page_directory
             PROVE  /\ Mapped(memory, d, v) /\ ~UserPage(memory, d, v)
                    /\ FrameOf(memory, d, v) = FrameOf(memory, KD, v)
  BY DEF KernelInEverySpace, KD
<1>1. PICK E : E = DirectoriesOf(process)
  OBVIOUS
<1>2. PICK R : Spaces(bitmap, memory, E, R)
  BY <1>1, Parts
<1>3. d \in E /\ d # KD /\ KD \in E /\ memory \in [Frames -> Contents] /\ KD \in Frames
  BY <1>1, <1>2, OfAlive, Parts, MembersAre
<1>4. v \in Nat /\ Mapped(memory, KD, v)
  BY <1>3, PagesFound
<1>5. PICK i : i = DirectoryIndex(v)
  OBVIOUS
<1>6. i \in DOMAIN memory[KD]
  BY <1>4, <1>5 DEF Mapped
<1>7. i \in {0, HI} /\ i \in DOMAIN memory[d] /\ memory[d][i] = memory[KD][i]
  BY <1>2, <1>3, <1>6 DEF Spaces, Shared
<1>8. Table(memory, d, v) = Table(memory, KD, v)
  BY <1>5, <1>7 DEF Table
<1>9. Mapped(memory, d, v) /\ FrameOf(memory, d, v) = FrameOf(memory, KD, v)
  BY <1>4, <1>5, <1>7, <1>8 DEF Mapped, FrameOf
<1>10. ~UserPage(memory, d, v)
  <2>1. ASSUME UserPage(memory, d, v) PROVE FALSE
    <3>1. v \in OwnMapped(memory, d)
      BY <1>2, <1>3, <1>4, <2>1, UsersPages
    <3>2. i \in Own(memory, d)
      BY <1>5, <3>1 DEF OwnMapped
    <3>3. QED
      BY <1>3, <1>7, <3>2 DEF Own
  <2>2. QED
    BY <2>1
<1>11. QED
  BY <1>9, <1>10

LEMMA ReachesTables == (~raced => Sane) => TablesReachable
<1> SUFFICES ASSUME Sane, ~raced, NEW f \in Tables
             PROVE  Mapped(memory, KD, f) /\ FrameOf(memory, KD, f) = f
  BY DEF TablesReachable, KD
<1>1. PICK E : E = DirectoriesOf(process)
  OBVIOUS
<1>2. PICK R : Spaces(bitmap, memory, E, R)
  BY <1>1, Parts
<1>3. PICK e \in E : f \in {e} \cup {memory[e][i].frame : i \in DOMAIN memory[e]}
  BY <1>1, TablesAre
<1>4. f \in Low /\ (f \in E \/ R[f] # Dir)
  BY <1>2, <1>3, TableRole
<1>5. KD \in E
  BY <1>1 DEF DirectoriesOf
<1>6. QED
  BY <1>2, <1>4, <1>5, IdentityIs

LEMMA MapsHeap == (~raced => Sane) => HeapMapped
<1> SUFFICES ASSUME Sane, ~raced, NEW p \in Alive, NEW v \in {USER_STACK} \cup
                    USER_HEAP_START .. USER_HEAP_START + process[p].heap_pages_allocated - 1
             PROVE  v \in UserPages(p)
  BY DEF HeapMapped
<1>1. SpaceOf(Machine, process[p].page_directory, process[p].heap_pages_allocated)
  BY Parts DEF ProgramSpaces
<1>2. v \in OwnMapped(Machine.memory, process[p].page_directory)
  BY <1>1 DEF SpaceOf, HeapOf
<1>3. QED
  BY <1>2, OfUser DEF Machine

LEMMA LeavesMapped ==
  ASSUME Sane, Sane', Unmoved(Machine, process, Machine', process'),
         NEW p \in Programs, process[p].alive, process'[p].alive, NEW v \in UserPages(p)
  PROVE  v \in UserPages(p)' /\ UserFrame(p, v)' = UserFrame(p, v)
<1>1. PICK E, d : E = DirectoriesOf(process) /\ d = process[p].page_directory
  OBVIOUS
<1>2. PICK R : Spaces(bitmap, memory, E, R)
  BY <1>1, Parts
<1>3. p \in Alive /\ p \in AliveIn(process) /\ p \in AliveIn(process')
  BY DEF Alive, AliveIn
<1>4. v \in OwnMapped(memory, d) /\ d \in E /\ d # KD /\ d \in Frames
  BY <1>1, <1>3, OfUser, OfAlive
<1>5. process'[p].page_directory = d /\ Stays(Machine.memory, Machine'.memory, d)
  BY <1>1, <1>3 DEF Unmoved
<1>6. Stays(memory, memory', d)
  BY <1>5 DEF Machine
<1>7. v \in Nat /\ Mapped(memory, d, v) /\ UserPage(memory, d, v) /\ DirectoryIndex(v) \in Own(memory, d)
  <2>1. DirectoryIndex(v) \in Own(memory, d)
    BY <1>4 DEF OwnMapped
  <2>2. QED
    BY <1>2, <1>4, <2>1, OwnMappedIs
<1>8. KeptAt(memory, memory', d, DirectoryIndex(v))
  BY <1>6, <1>7 DEF Stays
<1>9. PICK mem, mem2 : mem = memory /\ mem2 = memory'
  OBVIOUS
<1>10. Mapped(mem2, d, v) /\ FrameOf(mem2, d, v) = FrameOf(mem, d, v) /\ UserPage(mem2, d, v)
  BY <1>7, <1>8, <1>9, WalkKept
<1>11. memory' \in [Frames -> Contents]
  BY DEF Sane, Good, Sound, Spaced, Spaces, Machine
<1>12. v \in MappedPages(mem2, d)
  BY <1>4, <1>7, <1>9, <1>10, <1>11, PagesFound
<1>13. v \in UserPages(p)'
  BY <1>5, <1>9, <1>10, <1>12 DEF UserPages
<1>14. UserFrame(p, v)' = UserFrame(p, v)
  BY <1>1, <1>5, <1>9, <1>10 DEF UserFrame
<1>15. QED
  BY <1>13, <1>14

LEMMA StoresReached == IInv => StoresReach
<1> SUFFICES ASSUME Sane PROVE ~stray
  BY DEF IInv, StoresReach
<1>1. QED
  BY Parts

\* Frames, pages and table entries are in range (memory/pmm.c, memory/vmm.c).
THEOREM StaysTyped ==
  ASSUME MemoryLasts PROVE Spec => []TypeOK
  BY Invariance, HasType, PTL

\* A frame one program can touch is no other's, and holds no table and no kernel
\* memory, however frames are taken and directories dropped.
THEOREM StaysIsolated ==
  ASSUME MemoryLasts PROVE Spec => []Isolated
<1>1. IInv => Isolated
  BY KeepsApart DEF IInv
<1>2. QED
  BY <1>1, Invariance, PTL

\* The kernel's pages are the same in every address space and closed to the
\* program, though directories are copied at different times (create_uprocess).
THEOREM KernelStaysShared ==
  ASSUME MemoryLasts PROVE Spec => []KernelInEverySpace
<1>1. IInv => KernelInEverySpace
  BY SharesKernel DEF IInv
<1>2. QED
  BY <1>1, Invariance, PTL

\* The tables in use stay within the identity mapping, whatever destroy_process
\* unmaps.
THEOREM TablesStayReachable ==
  ASSUME MemoryLasts PROVE Spec => []TablesReachable
<1>1. IInv => TablesReachable
  BY ReachesTables DEF IInv
<1>2. QED
  BY <1>1, Invariance, PTL

\* The flushes of map_page and unmap_page, which look at a directory that is
\* never the current one but the first, are enough.
THEOREM TlbStaysCurrent ==
  ASSUME MemoryLasts PROVE Spec => []TlbCurrent
<1>1. IInv => TlbCurrent
  BY Parts DEF IInv, TlbCurrent
<1>2. QED
  BY <1>1, Invariance, PTL

\* The stack and all heap pages that sbrk counted are mapped for the program.
THEOREM HeapStaysMapped ==
  ASSUME MemoryLasts PROVE Spec => []HeapMapped
<1>1. IInv => HeapMapped
  BY MapsHeap DEF IInv
<1>2. QED
  BY <1>1, Invariance, PTL

\* The kernel misses a frame it writes at its physical address only after a
\* program was given the processor before the loader (load_program, with
\* interrupts on) had its code in place.
THEOREM StoresAlwaysReach ==
  ASSUME MemoryLasts PROVE Spec => []StoresReach
  BY Invariance, StoresReached, PTL

\* No step moves or unmaps what a program that lives on has mapped.
THEOREM NothingMoves ==
  ASSUME MemoryLasts PROVE Spec => MappingsStay
<1>1. IInv /\ [Next]_vars =>
        [~raced' => \A p \in Programs : process[p].alive /\ process'[p].alive =>
           \A v \in UserPages(p) : v \in UserPages(p)' /\ UserFrame(p, v)' = UserFrame(p, v)]_vars
  BY AnyStep, LeavesMapped DEF Moves
<1>2. QED
  BY <1>1, Invariance, PTL DEF Spec, MappingsStay
=============================================================================
