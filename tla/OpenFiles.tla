------------------------------- MODULE OpenFiles -------------------------------
(***************************************************************************)
(* The table of open files of fs_manager over the reading and writing of   *)
(* file blocks in fs.c: byte offsets, blocks allocated as a file grows,    *)
(* and what is left of a write when the disk is full.  One directory; the  *)
(* failures of transfers and of power are in FileSystem.                   *)
(***************************************************************************)
EXTENDS Integers, Sequences, FiniteSets

CONSTANTS
  Names,
  NFiles,          \* inodes beside the root's
  NBlocks,         \* data blocks beside the root directory's
  BlockSize,       \* FS_BLOCK_SIZE, in bytes
  MaxBlocks,       \* FS_INODE_MAX_BLOCKS
  NOpen,           \* FS_MAX_OPEN_FILES
  ReadSizes,       \* sizes programs give fs_read
  Texts,           \* what programs write
  Absent, Closed   \* no file, no descriptor (model values)

ASSUME FilesAssumption ==
  /\ NFiles \in Nat \ {0} /\ NBlocks \in Nat \ {0} /\ NOpen \in Nat \ {0}
  /\ BlockSize \in Nat \ {0} /\ MaxBlocks \in Nat \ {0}
  /\ ReadSizes \subseteq Nat /\ Texts \subseteq Seq(Nat)

\* What stands for no file is not the bytes of one, and what stands for no
\* descriptor is not a place in a file.
ASSUME OutsideAssumption ==
  /\ Absent \notin Seq(Nat)
  /\ \A n \in Names, offset \in 0 .. BlockSize * MaxBlocks :
       Closed # [name |-> n, offset |-> offset]

Files       == 1 .. NFiles
Blocks      == 1 .. NBlocks
Descriptors == 1 .. NOpen
Indices     == 0 .. MaxBlocks - 1
Offsets     == 0 .. BlockSize - 1
MaxLength   == BlockSize * MaxBlocks
Zeros       == [o \in Offsets |-> 0]
FreeInode   == [size |-> 0, blocks |-> [k \in Indices |-> 0]]
NotUsed     == [used |-> FALSE, inode |-> 0, offset |-> 0]

VARIABLES
  named,           \* the root directory: the inode of every name, or 0
  inode,           \* size and blocks of every inode
  used,            \* the bitmap
  data,            \* the bytes of every block
  open_files,
  result           \* what the last fs_read or fs_write returned

vars == <<named, inode, used, data, open_files, result>>

Least(S) == CHOOSE x \in S : \A y \in S : x <= y
Lesser(a, b) == IF a < b THEN a ELSE b
Greater(a, b) == IF a > b THEN a ELSE b

InUse(i) == \E n \in Names : named[n] = i

-----------------------------------------------------------------------------
(* fs.c *)

\* Broken variant: a block the file already has is not read before it is
\* changed in part.
WriteBlock_NotReadBack(s, k, bytes, offset) ==
  LET from  == Greater(offset, k * BlockSize)
      until == Lesser(offset + Len(bytes), (k + 1) * BlockSize)
      fresh == s.blocks[k] = 0
      b     == IF fresh THEN Least(Blocks \ s.used) ELSE s.blocks[k]
      new   == [o \in Offsets |->
                  LET position == k * BlockSize + o
                  IN  IF from <= position /\ position < until
                      THEN bytes[position - offset + 1] ELSE 0]
  IN  IF from >= until \/ ~ s.ok THEN s
      ELSE IF fresh /\ Blocks \subseteq s.used THEN [s EXCEPT !.ok = FALSE]
      ELSE [s EXCEPT !.blocks[k] = b, !.used = @ \cup {b}, !.data[b] = new]

\* One turn of the loop of fs_write_file, for block index k; the turns before
\* it left the blocks, the bitmap and the data of s.
WriteBlock(s, k, bytes, offset) ==
  LET from  == Greater(offset, k * BlockSize)
      until == Lesser(offset + Len(bytes), (k + 1) * BlockSize)
      fresh == s.blocks[k] = 0
      b     == IF fresh THEN Least(Blocks \ s.used) ELSE s.blocks[k]
      old   == IF fresh THEN Zeros ELSE s.data[b]
      new   == [o \in Offsets |->
                  LET position == k * BlockSize + o
                  IN  IF from <= position /\ position < until
                      THEN bytes[position - offset + 1] ELSE old[o]]
  IN  IF from >= until \/ ~ s.ok THEN s
      ELSE IF fresh /\ Blocks \subseteq s.used THEN [s EXCEPT !.ok = FALSE]
      ELSE [s EXCEPT !.blocks[k] = b, !.used = @ \cup {b}, !.data[b] = new]

\* The state of fs_write_file after its loop.
Written(i, bytes, offset) ==
  LET turn[k \in 0 .. MaxBlocks] ==
        IF k = 0
        THEN [blocks |-> inode[i].blocks, used |-> used, data |-> data, ok |-> TRUE]
        ELSE WriteBlock(turn[k - 1], k - 1, bytes, offset)
  IN  turn[MaxBlocks]

\* Bytes fs_read_file copies.
Copied(i, offset, size) ==
  LET n == IF offset >= inode[i].size THEN 0
           ELSE Lesser(size, inode[i].size - offset)
  IN  [p \in 1 .. n |->
         LET position == offset + p - 1
         IN  data[inode[i].blocks[position \div BlockSize]][position % BlockSize]]

-----------------------------------------------------------------------------
(* fs_manager.c *)

fs_touch(n) ==
  LET free == {i \in Files : ~ InUse(i)}
  IN  /\ named[n] = 0 /\ free # {}
      /\ named' = [named EXCEPT ![n] = Least(free)]
      /\ inode' = [inode EXCEPT ![Least(free)] = FreeInode]
      /\ UNCHANGED <<used, data, open_files, result>>

\* A program removes a file only while it is not open: the table is not
\* looked at.
fs_rm(n) ==
  LET i == named[n]
  IN  /\ i # 0
      /\ \A f \in Descriptors : open_files[f].used => open_files[f].inode # i
      /\ named' = [named EXCEPT ![n] = 0]
      /\ used' = used \ {inode[i].blocks[k] : k \in Indices}
      /\ inode' = [inode EXCEPT ![i] = FreeInode]
      /\ UNCHANGED <<data, open_files, result>>

fs_open(n) ==
  LET free == {f \in Descriptors : ~ open_files[f].used}
  IN  /\ named[n] # 0 /\ free # {}
      /\ open_files' = [open_files EXCEPT ![Least(free)] =
                          [used |-> TRUE, inode |-> named[n], offset |-> 0]]
      /\ UNCHANGED <<named, inode, used, data, result>>

fs_close(f) ==
  /\ open_files[f].used
  /\ open_files' = [open_files EXCEPT ![f] = NotUsed]
  /\ UNCHANGED <<named, inode, used, data, result>>

fs_read(f, size) ==
  LET bytes == Copied(open_files[f].inode, open_files[f].offset, size)
  IN  /\ open_files[f].used
      /\ result' = bytes
      /\ open_files' = [open_files EXCEPT ![f].offset = @ + Len(bytes)]
      /\ UNCHANGED <<named, inode, used, data>>

\* Broken variants: the size is written although a block is missing; the
\* offset moves past the longest file.
fs_write_SizeAnyway(f, bytes) ==
  LET i      == open_files[f].inode
      offset == open_files[f].offset
      n      == Lesser(Len(bytes), MaxLength - offset)
      s      == Written(i, bytes, offset)
  IN  /\ open_files[f].used
      /\ used' = s.used /\ data' = s.data
      /\ inode' = [inode EXCEPT ![i] = [size |-> Greater(@.size, offset + n),
                                       blocks |-> s.blocks]]
      /\ open_files' = [open_files EXCEPT ![f].offset = offset + n]
      /\ result' = <<n>>
      /\ UNCHANGED named

fs_write_PastLongest(f, bytes) ==
  LET i      == open_files[f].inode
      offset == open_files[f].offset
      n      == Len(bytes)
      s      == Written(i, bytes, offset)
  IN  /\ open_files[f].used /\ s.ok
      /\ used' = s.used /\ data' = s.data
      /\ inode' = [inode EXCEPT ![i] = [size |-> Greater(@.size, offset + n),
                                       blocks |-> s.blocks]]
      /\ open_files' = [open_files EXCEPT ![f].offset = offset + n]
      /\ result' = <<n>>
      /\ UNCHANGED named

\* Blocks a failing write has allocated stay marked and belong to nobody.
fs_write(f, bytes) ==
  LET i      == open_files[f].inode
      offset == open_files[f].offset
      n      == Lesser(Len(bytes), MaxLength - offset)
      s      == Written(i, bytes, offset)
  IN  /\ open_files[f].used
      /\ used' = s.used /\ data' = s.data
      /\ IF s.ok
         THEN /\ inode' = [inode EXCEPT ![i] = [size |-> Greater(@.size, offset + n),
                                               blocks |-> s.blocks]]
              /\ open_files' = [open_files EXCEPT ![f].offset = offset + n]
              /\ result' = <<n>>
         ELSE /\ result' = <<-1>>
              /\ UNCHANGED <<inode, open_files>>
      /\ UNCHANGED named

Init ==
  /\ named = [n \in Names |-> 0]
  /\ inode = [i \in Files |-> FreeInode]
  /\ used = {}
  /\ data = [b \in Blocks |-> Zeros]
  /\ open_files = [f \in Descriptors |-> NotUsed]
  /\ result = <<>>

Next ==
  \/ \E n \in Names : fs_touch(n) \/ fs_rm(n) \/ fs_open(n)
  \/ \E f \in Descriptors :
       \/ fs_close(f)
       \/ \E size \in ReadSizes : fs_read(f, size)
       \/ \E bytes \in Texts : fs_write(f, bytes)

Spec == Init /\ [][Next]_vars

-----------------------------------------------------------------------------
(* Properties *)

\* What the callers see of the inodes, blocks and open files is ByteFiles.
Bytes(i) == [p \in 1 .. inode[i].size |->
               data[inode[i].blocks[(p - 1) \div BlockSize]][(p - 1) % BlockSize]]

content == [n \in Names |-> IF named[n] = 0 THEN Absent ELSE Bytes(named[n])]

cursor ==
  [f \in Descriptors |->
     IF open_files[f].used
     THEN [name |-> CHOOSE n \in Names : named[n] = open_files[f].inode,
           offset |-> open_files[f].offset]
     ELSE Closed]

Files0 == INSTANCE ByteFiles

\* Reads return what was last written at that place of that file, across block
\* boundaries, partial blocks, several descriptors, reuse of freed blocks, the
\* longest file and a full disk.
ReadsSeeWrites == Files0!Spec

\* Every block of a file is marked, belongs to it alone, and the file has a
\* block wherever it has bytes.
FilesBacked ==
  \A m \in Names : named[m] # 0 =>
    LET mine == inode[named[m]]
    IN  /\ \A k \in Indices : mine.blocks[k] # 0 <=> k * BlockSize < mine.size
        /\ {mine.blocks[k] : k \in Indices} \ {0} \subseteq used
        /\ \A n \in Names, j, k \in Indices :
             /\ named[n] # 0 /\ mine.blocks[k] # 0
             /\ inode[named[n]].blocks[j] = mine.blocks[k]
             => n = m /\ j = k

TypeOK ==
  /\ named \in [Names -> 0 .. NFiles]
  /\ inode \in [Files -> [size : 0 .. MaxLength, blocks : [Indices -> 0 .. NBlocks]]]
  /\ used \subseteq Blocks
  /\ data \in [Blocks -> [Offsets -> Nat]]
  /\ open_files \in [Descriptors -> [used : BOOLEAN, inode : 0 .. NFiles,
                                     offset : 0 .. MaxLength]]
=============================================================================
