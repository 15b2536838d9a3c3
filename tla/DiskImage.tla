------------------------------- MODULE DiskImage -------------------------------
(***************************************************************************)
(* The disk before the kernel sees it: mkfs formats an image on the host   *)
(* and copies the directory rootfs into it, with allocation code of its    *)
(* own; then the machine boots from it and FileSystem's operations follow. *)
(* mkfs gives up at the first thing it has no room for and leaves the      *)
(* image as it is, and make keeps it, so that image boots as well.         *)
(***************************************************************************)
EXTENDS FileSystem

VARIABLE mkfs      \* next_free_inode_num; the inodes of the directories being
                   \* copied, innermost last; whether the machine has booted

imageVars == <<disk, clean, kept, mkfs>>

-----------------------------------------------------------------------------
(* Formatting *)

\* The inodes beside the root in its block come from a sector of the kernel:
\* write_root_inode looks for the block without adding FS_START_BLOCK.
Residue == {i \in Inodes \ {RootInode} : inode_block(i) = inode_block(RootInode)}

format_filesystem(left) ==
  [fs_format EXCEPT !.type = [i \in Inodes |-> IF i \in Residue THEN left[i] ELSE @[i]]]

-----------------------------------------------------------------------------
(* mkfs's copies of the file system's operations: one outcome each *)

alloc_block(d) ==
  LET b == Least(Blocks \ d.used)
  IN  IF Blocks \subseteq d.used THEN Failed(d)
      ELSE Done([d EXCEPT !.used = @ \cup {b}, !.free_blocks = @ - 1], b)

write_inode(d, i, type, blocks) ==
  [d EXCEPT !.type[i] = type, !.blocks[i] = blocks]

\* A block the directory did not have is taken, and zeroed, in passing.
add_directory_entry(d, dir, i, name) ==
  LET blocks == d.blocks[dir]
      unused(b) == {s \in Slots : d.entries[b][s] = NoEntry}
      room   == {k \in 1 .. MaxBlocks : blocks[k] = 0 \/ unused(blocks[k]) # {}}
      k      == Least(room)
      taken  == IF blocks[k] = 0 THEN alloc_block(d) ELSE Done(d, blocks[k])
      slots  == IF blocks[k] = 0 THEN EmptyBlock ELSE d.entries[taken.val]
      slot   == Least({s \in Slots : slots[s] = NoEntry})
  IN  IF room = {} \/ ~ taken.ok THEN Failed(d)
      ELSE Done([taken.disk EXCEPT
             !.entries[taken.val] = [slots EXCEPT ![slot] = [inode |-> i, name |-> name]],
             !.blocks[dir][k] = taken.val], 0)

\* The blocks of a file of n blocks, as many as an inode holds.
copied(d, n) ==
  LET upto[k \in 0 .. MaxBlocks] ==
        LET before == upto[k - 1]
            b      == alloc_block(before.disk)
        IN  IF k = 0 THEN Done(d, NoBlocks)
            ELSE IF k > n \/ ~ before.ok THEN before
            ELSE IF ~ b.ok THEN b
            ELSE Done([b.disk EXCEPT !.entries[b.val] = EmptyBlock],
                      [before.val EXCEPT ![k] = b.val])
  IN  IF upto[MaxBlocks].ok /\ n > MaxBlocks THEN Failed(upto[MaxBlocks].disk)
      ELSE upto[MaxBlocks]

-----------------------------------------------------------------------------
(* Copying rootfs *)

Current == mkfs.open[Len(mkfs.open)]

\* mkfs reads one directory entry of the host: a name it has not read there.
Reads(name) == /\ mkfs.open # <<>>
               /\ Named(disk, Current, name) = {}

\* The entry has been copied, or mkfs ends.
Copied(outcome, open) ==
  /\ disk' = outcome.disk
  /\ mkfs' = [mkfs EXCEPT !.next = @ + 1, !.open = IF outcome.ok THEN open ELSE <<>>]
  /\ UNCHANGED <<clean, kept>>

NoFreeInode ==
  /\ mkfs.open # <<>> /\ mkfs.next >= InodeCount
  /\ mkfs' = [mkfs EXCEPT !.open = <<>>]
  /\ UNCHANGED <<disk, clean, kept>>

\* The inode of what is being copied has no place of its own, and is written
\* over a data block.
install_beyond ==
  /\ mkfs.open # <<>> /\ mkfs.next \in NInodes .. InodeCount - 1
  /\ \E c \in Contents :
       LET b == inode_block(mkfs.next) - data_start + 1
       IN  disk' = IF b \in Blocks THEN [disk EXCEPT !.entries[b] = c] ELSE disk
  /\ mkfs' = [mkfs EXCEPT !.next = @ + 1]
  /\ kept' = FALSE /\ UNCHANGED clean

install_file(name, n) ==
  /\ Reads(name) /\ mkfs.next < NInodes
  /\ LET c == copied(disk, n)
     IN  Copied(IF ~ c.ok THEN c
                ELSE add_directory_entry(write_inode(c.disk, mkfs.next, "file", c.val),
                                         Current, mkfs.next, name),
                mkfs.open)

install_directory(name) ==
  /\ Reads(name) /\ mkfs.next < NInodes
  /\ LET b == alloc_block(disk)
     IN  Copied(IF ~ b.ok THEN b
                ELSE add_directory_entry(write_inode(b.disk, mkfs.next, "directory",
                                                     [NoBlocks EXCEPT ![1] = b.val]),
                                         Current, mkfs.next, name),
                Append(mkfs.open, mkfs.next))

closedir ==
  /\ mkfs.open # <<>>
  /\ mkfs' = [mkfs EXCEPT !.open = SubSeq(@, 1, Len(@) - 1)]
  /\ UNCHANGED <<disk, clean, kept>>

\* Nothing of mkfs but the image outlives it.
boot ==
  /\ mkfs.open = <<>> /\ ~ mkfs.booted
  /\ mkfs' = [next |-> 1, open |-> <<>>, booted |-> TRUE]
  /\ UNCHANGED <<disk, clean, kept>>

ImageInit ==
  /\ disk \in {format_filesystem(left) : left \in [Residue -> {"free", "other"}]}
  /\ clean = TRUE /\ kept = TRUE
  /\ mkfs = [next |-> 1, open |-> <<RootInode>>, booted |-> FALSE]

ImageNext ==
  \/ \E name \in Names :
       \/ \E n \in 0 .. MaxBlocks + 1 : install_file(name, n)
       \/ install_directory(name)
  \/ install_beyond
  \/ NoFreeInode
  \/ closedir
  \/ boot
  \/ mkfs.booted /\ Next /\ UNCHANGED mkfs

ImageSpec == ImageInit /\ [][ImageNext]_imageVars

-----------------------------------------------------------------------------
(* Properties *)

\* The disk has its type under mkfs too, whose state stays in range.
ImageTypeOK ==
  /\ TypeOK
  /\ mkfs \in [next : 1 .. InodeCount, open : Seq(Inodes), booted : BOOLEAN]

Surplus == disk.free_inodes - Cardinality({i \in Inodes : disk.type[i] = "free"})

\* mkfs takes inodes without counting them, and leaves residue among those it
\* counts as free: the superblock's number is too high by as much as it was at
\* boot, for as long as no transfer fails.  No clean-up path of the kernel
\* counts an inode twice or not at all.
InodesCounted == [][mkfs.booted /\ clean' /\ kept' => Surplus' = Surplus]_imageVars
=============================================================================
