---------------------------- MODULE MCReplicated --------------------------
EXTENDS Replicated

TopPaths == [1..1 -> Names]
ZeroHash == [p \in Paths |-> 0]
FirstNode == <<CHOOSE d \in Addrs : TRUE>>

\* Uploads, and what may meet one of them: at its path, or on the way to another.
First == CHOOSE p \in Paths : TRUE
Asked ==
  [op : {"create_file"}, path : Paths, mode : {"CreateIfNotExist"}, size : Sizes]
    \cup {m \in RenameCommand : m.path = First}
    \cup [op : {"delete"}, path : {First}]
=============================================================================
