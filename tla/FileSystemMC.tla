----------------------------- MODULE FileSystemMC -----------------------------
(***************************************************************************)
(* FileSystem for TLC, from the image mkfs makes: file names are           *)
(* interchangeable.                                                        *)
(***************************************************************************)
EXTENDS DiskImage, Paths, TLC

\* A block of bytes spells nothing, or one name for a number in the middle.
BlockContents == {EmptyBlock} \cup
                 {[s \in Slots |-> [inode |-> NInodes \div 2, name |-> n]] : n \in Names}

\* Every file of the run spells every name, for inodes of all kinds.
FileBytes == [i \in Inodes |-> {[inode |-> (i + 1) % NInodes, name |-> n] : n \in Names}]

Symmetry == Permutations(Names)
=============================================================================
