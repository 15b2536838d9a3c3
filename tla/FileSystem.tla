------------------------------ MODULE FileSystem ------------------------------
(***************************************************************************)
(* The on-disk file system: bitmap, superblock counters, inode table and   *)
(* directory blocks, under the operations of fs_manager, each of which is  *)
(* a sequence of block transfers.  A transfer can report an error, and the *)
(* power can go before any of them.                                        *)
(*                                                                         *)
(* An operation on a disk is the set of outcomes it may have: the disk it  *)
(* leaves, whether it succeeded, and its value.  Contents of file blocks   *)
(* and sizes are in OpenFiles; here a file block holds no entry.           *)
(*                                                                         *)
(* Three things the code lets a program do take the disk to where it is    *)
(* not followed: a write to a directory, an operation on an inode no       *)
(* directory leads to, and an allocation past the room of the inode table. *)
(* The step itself is here; the history variable kept tells whether one    *)
(* was taken, and the properties are about the disk until then.            *)
(***************************************************************************)
EXTENDS Layout, Sequences, FiniteSets

CONSTANTS
  NBlocks,         \* data blocks; block 1 is the root directory's
  Names,           \* file names, a finite set
  NSlots,          \* directory entries in a block
  MaxBlocks,       \* FS_INODE_MAX_BLOCKS
  Contents,        \* what bytes not written as entries spell, in a block of them
  Errors,          \* bound: transfers of one operation that report an error
  PowerFails       \* whether the power may go

\* The inodes with a place of their own: 110 of the code's 128.  The others lie
\* where the data does.
Overlaid == InodeCount > Capacity
NInodes  == IF Overlaid THEN Capacity ELSE InodeCount

ASSUME DiskAssumption ==
  /\ NBlocks \in Nat \ {0} /\ NInodes \in Nat \ {0}
  /\ NSlots \in Nat \ {0} /\ MaxBlocks \in Nat \ {0}
  /\ Errors \in Nat /\ PowerFails \in BOOLEAN

Blocks     == 1 .. NBlocks
Inodes     == 0 .. NInodes - 1
RootInode  == 0
Slots      == 1 .. NSlots
Entry      == [inode : Inodes, name : Names]
NoEntry    == [inode |-> 0, name |-> "none"]
EmptyBlock == [s \in Slots |-> NoEntry]
NoBlocks   == [k \in 1 .. MaxBlocks |-> 0]

VARIABLES
  disk,            \* see TypeOK; errors and power serve one operation at a time
  clean,           \* history: no transfer has failed so far
  kept             \* history: nothing has been done so far that is not followed

vars == <<disk, clean, kept>>

Least(S) == CHOOSE x \in S : \A y \in S : x <= y

-----------------------------------------------------------------------------
(* Outcomes *)

Done(d, v) == [disk |-> d, ok |-> TRUE, val |-> v]
Failed(d)  == [disk |-> d, ok |-> FALSE, val |-> 0]

\* A block transfer that turns d into e, or fails and leaves d.
Transfer(d, e) ==
  IF d.power = "off"
  THEN {Failed(d)}
  ELSE {Done(e, 0)}
         \cup {Failed([d EXCEPT !.errors = n]) : n \in {d.errors - 1} \cap Nat}
         \cup (IF PowerFails THEN {Failed([d EXCEPT !.power = "off"])} ELSE {})

Read(d) == Transfer(d, d)

\* F on every outcome, or only on those that succeeded.
Each(S, F(_)) == UNION {F(o) : o \in S}
Then(S, F(_)) == Each(S, LAMBDA o : IF o.ok THEN F(o) ELSE {Failed(o.disk)})

-----------------------------------------------------------------------------
(* Blocks and inodes *)

\* Broken variants: the marked bitmap is not written back; the search does not
\* notice that it ran past the last block.
fs_alloc_block_Unmarked(d) ==
  IF Blocks \subseteq d.used THEN {Failed(d)}
  ELSE Then(Transfer(d, [d EXCEPT !.free_blocks = @ - 1]), LAMBDA s :
         {Done(s.disk, Least(Blocks \ d.used))})

fs_alloc_block_PastEnd(d) ==
  LET b == Least((Blocks \cup {NBlocks + 1}) \ d.used)
  IN  Then(Transfer(d, [d EXCEPT !.used = @ \cup {b}]), LAMBDA w :
      Then(Transfer(w.disk, [w.disk EXCEPT !.free_blocks = @ - 1]), LAMBDA s :
        {Done(s.disk, b)}))

\* The bitmap is written before the superblock.
fs_alloc_block(d) ==
  LET b == Least(Blocks \ d.used)
  IN  Then(Read(d), LAMBDA r :
        IF Blocks \subseteq d.used THEN {Failed(r.disk)}
        ELSE Then(Transfer(r.disk, [r.disk EXCEPT !.used = @ \cup {b}]), LAMBDA w :
             Then(Transfer(w.disk, [w.disk EXCEPT !.free_blocks = @ - 1]), LAMBDA s :
               {Done(s.disk, b)})))

\* The bit is cleared and the block counted, whether it was used or not.
fs_free_block(d, b) ==
  Then(Read(d), LAMBDA r :
  Then(Transfer(r.disk, [r.disk EXCEPT !.used = @ \ {b}]), LAMBDA w :
       Transfer(w.disk, [w.disk EXCEPT !.free_blocks = @ + 1])))

fs_write_inode(d, i, type, blocks) ==
  Then(Read(d), LAMBDA r :
       Transfer(r.disk, [r.disk EXCEPT !.type[i] = type, !.blocks[i] = blocks]))

fs_alloc_inode(d, type) ==
  LET free == {i \in Inodes : d.type[i] = "free"}
  IN  Then(Read(d), LAMBDA r :
        IF free = {} THEN {Failed(r.disk)}
        ELSE Then(fs_write_inode(r.disk, Least(free), type, NoBlocks), LAMBDA w :
             Then(Transfer(w.disk, [w.disk EXCEPT !.free_inodes = @ - 1]), LAMBDA s :
               {Done(s.disk, Least(free))})))

\* Frees every block whatever fails; the inode is released only if none did.
fs_free_inode(d, i) ==
  LET freed[k \in 0 .. MaxBlocks] ==
        IF k = 0 THEN {Done(d, 0)}
        ELSE IF d.blocks[i][k] = 0 THEN freed[k - 1]
        ELSE Each(freed[k - 1], LAMBDA o :
               {[f EXCEPT !.ok = f.ok /\ o.ok] : f \in fs_free_block(o.disk, d.blocks[i][k])})
  IN  Then(Read(d), LAMBDA s :
      Then(freed[MaxBlocks], LAMBDA o :
      Then(fs_write_inode(o.disk, i, "free", NoBlocks), LAMBDA w :
      Then(Read(w.disk), LAMBDA r :
           Transfer(r.disk, [r.disk EXCEPT !.free_inodes = @ + 1])))))

-----------------------------------------------------------------------------
(* Directories *)

\* Indices of an inode's blocks, up to the first one not assigned.
Assigned(blocks) == {k \in 1 .. MaxBlocks : \A j \in 1 .. k : blocks[j] # 0}

\* Where directory i has entries: pairs of a block and a slot.
Places(d, i) ==
  {<<d.blocks[i][k], s>> : k \in Assigned(d.blocks[i]), s \in Slots}
Entries(d, i) ==
  {d.entries[p[1]][p[2]] : p \in {q \in Places(d, i) : d.entries[q[1]][q[2]] # NoEntry}}
Named(d, i, name) == {e \in Entries(d, i) : e.name = name}

\* The inode of an entry, or 0: a read error looks like a missing entry.
fs_find_directory_entry(d, i, name) ==
  Each(Read(d), LAMBDA r :
    {Done(r.disk, IF r.ok /\ Named(d, i, name) # {}
                  THEN (CHOOSE e \in Named(d, i, name) : TRUE).inode ELSE 0)})

\* Writes the entry into slot s of a block of the directory, then the inode.
PutEntry(d, dir, blocks, k, s, e) ==
  Then(Read(d), LAMBDA r :
  Then(Transfer(r.disk, [r.disk EXCEPT !.entries[blocks[k]][s] = e]), LAMBDA w :
       fs_write_inode(w.disk, dir, w.disk.type[dir], blocks)))

fs_add_directory_entry(d, dir, i, name) ==
  LET blocks  == d.blocks[dir]
      free(k) == {s \in Slots : d.entries[blocks[k]][s] = NoEntry}
      room    == {k \in 1 .. MaxBlocks : blocks[k] = 0 \/ free(k) # {}}
      k       == Least(room)
      e       == [inode |-> i, name |-> name]
  IN  Then(Read(d), LAMBDA r :
        IF room = {} THEN {Failed(r.disk)}
        ELSE IF blocks[k] # 0
        THEN PutEntry(r.disk, dir, blocks, k, Least(free(k)), e)
        ELSE Then(fs_alloc_block(r.disk), LAMBDA a :
             Each(Transfer(a.disk, [a.disk EXCEPT !.entries[a.val] = EmptyBlock]), LAMBDA z :
               IF z.ok THEN PutEntry(z.disk, dir, [blocks EXCEPT ![k] = a.val], k, 1, e)
               ELSE {Failed(f.disk) : f \in fs_free_block(z.disk, a.val)})))

fs_remove_directory_entry(d, dir, name) ==
  LET found == {p \in Places(d, dir) : /\ d.entries[p[1]][p[2]] # NoEntry
                                       /\ d.entries[p[1]][p[2]].name = name}
      p     == CHOOSE q \in found : TRUE
  IN  Then(Read(d), LAMBDA r :
        IF found = {} THEN {Failed(r.disk)}
        ELSE Then(Transfer(r.disk, [r.disk EXCEPT !.entries[p[1]][p[2]] = NoEntry]), LAMBDA w :
                  fs_write_inode(w.disk, dir, w.disk.type[dir], w.disk.blocks[dir])))

-----------------------------------------------------------------------------
(* Files *)

\* Broken variant: the entry is written before the inode it names.
fs_create_file_EntryFirst(d, dir, name) ==
  LET free == {i \in Inodes : d.type[i] = "free"}
  IN  IF free = {} \/ Named(d, dir, name) # {} THEN {Failed(d)}
      ELSE Then(fs_add_directory_entry(d, dir, Least(free), name), LAMBDA a :
                fs_alloc_inode(a.disk, "file"))

fs_create_file(d, dir, name) ==
  Then(fs_find_directory_entry(d, dir, name), LAMBDA l :
    IF l.val # 0 THEN {Failed(l.disk)}
    ELSE Then(fs_alloc_inode(l.disk, "file"), LAMBDA i :
         Each(fs_add_directory_entry(i.disk, dir, i.val, name), LAMBDA a :
           IF a.ok THEN {a}
           ELSE {Failed(f.disk) : f \in fs_free_inode(a.disk, i.val)})))

\* Broken variant: the inode is released twice.
CleanUp_Twice(d, i, b) ==
  Each(fs_free_block(d, b), LAMBDA f :
  Each(fs_free_inode(f.disk, i), LAMBDA g :
    {Failed(h.disk) : h \in fs_free_inode(g.disk, i)}))

\* The fail path of fs_create_directory.
CleanUp(d, i, b) ==
  Each(fs_free_block(d, b), LAMBDA f :
    {Failed(g.disk) : g \in fs_free_inode(f.disk, i)})

fs_create_directory(d, dir, name) ==
  Then(fs_find_directory_entry(d, dir, name), LAMBDA l :
    IF l.val # 0 THEN {Failed(l.disk)}
    ELSE Then(fs_alloc_inode(l.disk, "directory"), LAMBDA i :
         Each(fs_alloc_block(i.disk), LAMBDA b :
           IF ~ b.ok THEN {Failed(f.disk) : f \in fs_free_inode(b.disk, i.val)}
           ELSE Each(
             Then(Read(b.disk), LAMBDA r :
             Then(Transfer(r.disk, [r.disk EXCEPT !.entries[b.val] = EmptyBlock]), LAMBDA z :
             Then(fs_write_inode(z.disk, i.val, "directory", [NoBlocks EXCEPT ![1] = b.val]), LAMBDA w :
                  fs_add_directory_entry(w.disk, dir, i.val, name)))),
             LAMBDA a : IF a.ok THEN {a} ELSE CleanUp(a.disk, i.val, b.val)))))

\* Writes a program's bytes into block b of an inode, of whatever type.  What
\* they spell is looked at where entries are looked for: in directories.
WriteBlock(d, b, type) ==
  IF type = "directory"
  THEN UNION {Transfer(d, [d EXCEPT !.entries[b] = c]) : c \in Contents}
  ELSE Transfer(d, [d EXCEPT !.entries[b] = EmptyBlock])

\* Writes blocks first .. last of an inode.  The inode is written at the end, and
\* not at all when a block cannot be had.
fs_write_file(d, i, first, last) ==
  LET written[k \in first - 1 .. last] ==
        IF k = first - 1 THEN {[r EXCEPT !.val = d.blocks[i]] : r \in Read(d)}
        ELSE Then(written[k - 1], LAMBDA o :
             Then(IF o.val[k] = 0 THEN fs_alloc_block(o.disk)
                  ELSE {[r EXCEPT !.val = o.val[k]] : r \in Read(o.disk)}, LAMBDA b :
             Then(WriteBlock(b.disk, b.val, d.type[i]), LAMBDA w :
               {Done(w.disk, [o.val EXCEPT ![k] = b.val])})))
  IN  Then(written[last], LAMBDA o :
           fs_write_inode(o.disk, i, o.disk.type[i], o.val))

\* Broken variant: the inode is freed before its name is removed.
fs_delete_file_InodeFirst(d, dir, name) ==
  Then(fs_find_directory_entry(d, dir, name), LAMBDA l :
    IF l.val = 0 THEN {Failed(l.disk)}
    ELSE Then(fs_free_inode(l.disk, l.val), LAMBDA r :
              fs_remove_directory_entry(r.disk, dir, name)))

fs_delete_file(d, dir, name) ==
  Then(fs_find_directory_entry(d, dir, name), LAMBDA l :
    IF l.val = 0 THEN {Failed(l.disk)}
    ELSE Then(fs_remove_directory_entry(l.disk, dir, name), LAMBDA r :
              fs_free_inode(r.disk, l.val)))

-----------------------------------------------------------------------------
(* fs_manager, on paths that resolve *)

\* What fs_resolve_path can return, with the path that leads there.
Resolved(d) ==
  LET upto[n \in 0 .. NInodes - 1] ==
        IF n = 0 THEN {[path |-> <<>>, inode |-> RootInode]}
        ELSE upto[n - 1] \cup
             UNION {{[path |-> Append(p.path, e.name), inode |-> e.inode] :
                       e \in Entries(d, p.inode)} :
                    p \in {q \in upto[n - 1] : Len(q.path) = n - 1}}
  IN  upto[NInodes - 1]

Reachable(d) == {p.inode : p \in Resolved(d)}

\* Nothing in the kernel reads the superblock's counters back to decide, so
\* the model follows them only until a transfer fails, and no further than one
\* above the number of blocks.
Settled(d, followed) ==
  [d EXCEPT !.power = "on", !.errors = Errors,
            !.free_inodes = IF followed THEN @ ELSE 0,
            !.free_blocks = IF ~ followed THEN 0
                            ELSE IF @ > NBlocks THEN NBlocks + 1 ELSE @]

\* An operation ends: the machine is up again and the next may see errors.
Ends(outcomes) ==
  \E o \in outcomes :
    /\ clean' = (clean /\ o.disk.power = "on" /\ o.disk.errors = Errors)
    /\ disk' = Settled(o.disk, clean')

\* Where the inodes beyond the table lie, as data blocks.
Beneath == {inode_block(i) - data_start + 1 : i \in NInodes .. InodeCount - 1} \cap Blocks

\* No inode of the table is free, and the search goes on among the bytes of data
\* blocks.  What looks free there is taken: the inode is written over the data.
AllocatesBeyond(dir, name) ==
  /\ Named(disk, dir, name) = {}
  /\ \A i \in Inodes : disk.type[i] # "free"
  /\ \E b \in Beneath, c \in Contents : disk' = [disk EXCEPT !.entries[b] = c]
  /\ kept' = FALSE /\ clean' = clean

\* A path leads to the inodes of the tree, and through the bytes of a file, taken
\* for entries, to any inode; only the parent's type is looked at.
fs_touch(dir, name) ==
  /\ disk.type[dir] = "directory"
  /\ \/ /\ Ends(fs_create_file(disk, dir, name))
        /\ kept' = (dir \in Reachable(disk))
     \/ AllocatesBeyond(dir, name)

fs_mkdir(dir, name) ==
  /\ disk.type[dir] = "directory"
  /\ \/ /\ Ends(fs_create_directory(disk, dir, name))
        /\ kept' = (dir \in Reachable(disk))
     \/ AllocatesBeyond(dir, name)

fs_rm(dir, name) ==
  /\ disk.type[dir] = "directory"
  /\ Ends(fs_delete_file(disk, dir, name))
  /\ kept' = (dir \in Reachable(disk))

\* fs_open, fs_write at an offset within what there is, fs_close: no type is
\* looked at, and a descriptor may outlive the name it was opened by.
fs_write(i, first, last) ==
  /\ first <= last /\ \A k \in 1 .. first - 1 : disk.blocks[i][k] # 0
  /\ Ends(fs_write_file(disk, i, first, last))
  /\ kept' = (i \in Reachable(disk) /\ disk.type[i] = "file")

\* The disk fs_format leaves.
fs_format ==
  [used |-> {1}, free_blocks |-> NBlocks - 1, free_inodes |-> InodeCount - 1,
   type |-> [i \in Inodes |-> IF i = RootInode THEN "directory" ELSE "free"],
   blocks |-> [i \in Inodes |-> IF i = RootInode THEN [NoBlocks EXCEPT ![1] = 1]
                                ELSE NoBlocks],
   entries |-> [b \in Blocks |-> EmptyBlock],
   errors |-> Errors, power |-> "on"]

Init == disk = fs_format /\ clean = TRUE /\ kept = TRUE

\* What becomes of a disk that was not kept is not followed.
NotFollowed == ~ kept /\ UNCHANGED vars

Next ==
  \/ /\ kept
     /\ \/ \E dir \in Inodes, name \in Names :
             \/ fs_touch(dir, name)
             \/ fs_mkdir(dir, name)
             \/ fs_rm(dir, name)
        \/ \E i \in Inodes, first, last \in 1 .. MaxBlocks : fs_write(i, first, last)
  \/ NotFollowed

Spec == Init /\ [][Next]_vars

-----------------------------------------------------------------------------
(* Properties *)

\* Inodes of type "other" are residue of another use of the disk.
TypeOK ==
  /\ clean \in BOOLEAN /\ kept \in BOOLEAN
  /\ kept =>
       disk \in [used : SUBSET Blocks, free_blocks : Int, free_inodes : Int,
                type : [Inodes -> {"free", "file", "directory", "other"}],
                blocks : [Inodes -> [1 .. MaxBlocks -> 0 .. NBlocks]],
                entries : [Blocks -> [Slots -> Entry \cup {NoEntry}]],
                errors : {Errors}, power : {"on"}]

\* Wherever the power went, no two files or directories a path leads to share
\* a block, and none has a block the allocator could hand out again.
BlocksExclusive ==
  LET owned(i) == {disk.blocks[i][k] : k \in 1 .. MaxBlocks} \ {0}
  IN  kept => \A i \in Reachable(disk) :
        /\ owned(i) \subseteq disk.used
        /\ \A j \in Reachable(disk) : i # j => owned(i) \cap owned(j) = {}

\* Every path leads to an inode of its own: an inode is never named twice, so
\* removing one name cannot destroy what another stands for.
OneNamePerInode ==
  kept => \A p, q \in Resolved(disk) : p.inode = q.inode => p = q

\* The tree the paths spell.
tree == {[path |-> p.path, kind |-> disk.type[p.inode]] : p \in Resolved(disk)}

FT == INSTANCE FileTree

\* An operation takes effect at one place of the tree or nowhere, even when the
\* power goes between two of its transfers.
Atomic == FT!Init /\ [][kept' => FT!Next]_tree

\* "If something goes wrong, we attempt to clean absolutely everything": every
\* directory entry names an inode that is in use.
NoDanglingEntry == kept => \A i \in Reachable(disk) : disk.type[i] # "free"

\* Refuted, by a write to a directory: "a directory essentially is a mapping
\* between a filename and it's respective inode".  That would be, whatever has been done to the disk, a name of a directory stands for
\* one inode, which is in use.
DirectoryMaps ==
  \A i \in Reachable(disk) : disk.type[i] = "directory" =>
    \A e \in Entries(disk, i) :
      disk.type[e.inode] # "free" /\ Named(disk, i, e.name) = {e}
=============================================================================
