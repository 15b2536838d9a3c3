-------------------------------- MODULE Layout --------------------------------
(***************************************************************************)
(* Where fs_format and mkfs put the inode table and the data on the disk,  *)
(* and where reading and writing an inode looks for it.                    *)
(***************************************************************************)
EXTENDS Integers

CONSTANTS
  BlockSize,       \* FS_BLOCK_SIZE
  InodeSize,       \* sizeof(fs_inode_t)
  InodeCount,      \* FS_TOTAL_INODES
  InodeStart       \* FS_INODE_START

ASSUME LayoutAssumption ==
  /\ BlockSize \in Nat /\ InodeSize \in 1 .. BlockSize
  /\ InodeCount \in Nat \ {0} /\ InodeStart \in Nat

\* The bytes of all inodes, in blocks: as if one could lie across two blocks.
inode_blocks == (InodeCount * InodeSize + BlockSize - 1) \div BlockSize

\* Where the data begins; the first block is the root directory's.
data_start == InodeStart + inode_blocks

\* The block of an inode: each lies in one block.
inodes_per_block == BlockSize \div InodeSize
inode_block(i)   == InodeStart + (i \div inodes_per_block)

\* How many inodes the table really has room for.
Capacity == inodes_per_block * inode_blocks
=============================================================================
