--------------------------------- MODULE Paths ---------------------------------
(***************************************************************************)
(* How fs_manager reads a path.  fs_open and fs_ls follow it from end to   *)
(* end; fs_touch, fs_mkdir and fs_rm split it at the last slash, follow    *)
(* what is before it, and give the rest to the directory found there.      *)
(*                                                                         *)
(* A path is a sequence of characters, here the one-character names and    *)
(* the slash; a longer run of characters stands for a name that is too     *)
(* long.  Paths without a slash, for which split_path writes parent[-1],   *)
(* and paths longer than parent[256] are left out.                         *)
(***************************************************************************)
EXTENDS FileSystem, SequencesExt

CONSTANTS
  PathLength,        \* bound: characters in a path
  Bytes              \* the entries a file's bytes spell, for each inode

ASSUME PathAssumption ==
  /\ PathLength \in Nat \ {0}
  /\ Bytes \in [Inodes -> SUBSET Entry]

Slash       == "/"
LongestName == 1                              \* FS_FILENAME_LENGTH - 1
NotFound    == -1

\* The inode of a name in inode i, whose blocks are read as a directory's
\* whatever its type; an entry of inode 0 is an unused one.
Child(d, i, name) ==
  LET read  == IF d.type[i] = "file" /\ Assigned(d.blocks[i]) # {} THEN Bytes[i]
               ELSE Entries(d, i)
      found == {e \in read : <<e.name>> = name /\ e.inode # 0}
  IN  IF found = {} THEN NotFound ELSE (CHOOSE e \in found : TRUE).inode

\* Where a walk is: an inode, and the component read so far.
Entered(d, at) ==
  IF at.name = <<>> THEN at
  ELSE [name  |-> <<>>,
        inode |-> IF at.inode = NotFound \/ Len(at.name) > LongestName THEN NotFound
                  ELSE Child(d, at.inode, at.name)]

Walked(d, at, c) ==
  IF c = Slash THEN Entered(d, at) ELSE [at EXCEPT !.name = Append(@, c)]

\* Where the walk along a path is after each of its characters.
Walk(d, path) ==
  LET walk[k \in 0 .. Len(path)] ==
        IF k = 0 THEN [inode |-> RootInode, name |-> <<>>] ELSE Walked(d, walk[k - 1], path[k])
  IN  walk

fs_resolve_path(d, path) ==
  IF path = <<>> \/ path[1] # Slash THEN NotFound
  ELSE Entered(d, Walk(d, path)[Len(path)]).inode

SplitAt(path, slash) ==
  LET name == SubSeq(path, slash + 1, Len(path))
  IN  [ok     |-> Len(name) \in 1 .. LongestName,
       name   |-> name,
       parent |-> IF slash = 1 THEN <<Slash>> ELSE SubSeq(path, 1, slash - 1)]

Slashes(path) == {i \in DOMAIN path : path[i] = Slash}

\* Broken variant: what is before the slash of "/a" is no path.
split_path_NoRoot(path) ==
  [SplitAt(path, Max(Slashes(path))) EXCEPT !.parent = SubSeq(path, 1, Max(Slashes(path)) - 1)]

split_path(path) == SplitAt(path, Max(Slashes(path)))

-----------------------------------------------------------------------------
(* Properties *)

AllPaths ==
  {path \in BoundedSeq(Names \cup {Slash}, PathLength) : Slashes(path) # {}}

\* The two readings of a path agree, whatever slashes it doubles and whatever
\* it leads through: what touch, mkdir and rm create or remove under a path is
\* what open finds there, what open finds they can name, unless the path ends
\* in a slash, and none of them is ever pointed at the root.
PathsAgree ==
  kept => \A path \in AllPaths :
    LET split == split_path(path)
        dir   == fs_resolve_path(disk, split.parent)
        found == fs_resolve_path(disk, path)
    IN  /\ split.ok => found = IF dir = NotFound THEN NotFound
                               ELSE Child(disk, dir, split.name)
        /\ found # NotFound /\ Last(path) # Slash => split.ok /\ found # RootInode
=============================================================================
