------------------------------- MODULE FileTree -------------------------------
(***************************************************************************)
(* What the file system promises its callers: a tree of files and          *)
(* directories that one operation changes at one place, or not at all.     *)
(***************************************************************************)
EXTENDS Sequences, SequencesExt

CONSTANT Names
VARIABLE tree                                  \* the nodes, root included

Root == [path |-> <<>>, kind |-> "directory"]

Paths == {n.path : n \in tree}
Directories == {n.path : n \in {m \in tree : m.kind = "directory"}}

Init == tree = {Root}

\* A new file, or a new and empty directory, under an existing directory.
Create(dir, name, kind) ==
  /\ dir \in Directories /\ Append(dir, name) \notin Paths
  /\ tree' = tree \cup {[path |-> Append(dir, name), kind |-> kind]}

\* A node goes with everything below it.
Delete(p) ==
  /\ p # <<>>
  /\ tree' = {n \in tree : ~ IsPrefix(p, n.path)}

Next ==
  \/ \E dir \in Directories, name \in Names, kind \in {"file", "directory"} :
       Create(dir, name, kind)
  \/ \E p \in Paths : Delete(p)

Spec == Init /\ [][Next]_tree
=============================================================================
