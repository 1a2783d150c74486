------------------------------ MODULE Namespace ------------------------------
(***************************************************************************)
(* What the metadata service promises about names and identities: the      *)
(* directory tree changes one committed command at a time, and every       *)
(* command is one of the six below.  This is the tree of a single state    *)
(* machine with the commands in log order; who submits them, and what the  *)
(* submitter read before, is the business of the modules that refine it.   *)
(***************************************************************************)
EXTENDS MetaState

VARIABLES
  tree,    \* MetadataServer.root
  spent    \* FileIDs that have reached the log; generateFileID repeats none

vars == <<tree, spent>>

\* selectDataNodes names each node at most once, and /data/{id} on each.
ReplicaLists(id) ==
  UNION {{s \in [1..n -> [addr : Addrs, remote : {id}]] : IsInjective(s)} :
           n \in 1..replicaCount}

TypeOK ==
  /\ tree \in [Locations -> Entry]
  /\ spent \subseteq FileIds

Init ==
  /\ tree = EmptyTree
  /\ spent = {}

-----------------------------------------------------------------------------
Mkdir(p) ==
  /\ CanMkdir(tree, p)
  /\ tree' = applyMkdir(tree, p)
  /\ UNCHANGED spent

\* Bug: the identity may be one used before (derived from the path, say).
CreateFileReusingIds(p, mode, id, size, replicas) ==
  /\ CanCreateFile(tree, p, mode)
  /\ tree' = applyCreateFile(tree, p, id, size, replicas)
  /\ spent' = spent \cup {id}

CreateFile(p, mode, id, size, replicas) ==
  /\ id \notin spent
  /\ CanCreateFile(tree, p, mode)
  /\ tree' = applyCreateFile(tree, p, id, size, replicas)
  /\ spent' = spent \cup {id}

\* The command of an identity was rejected by Apply, or never reached it.
Discard(id) ==
  /\ id \notin spent
  /\ spent' = spent \cup {id}
  /\ UNCHANGED tree

CompleteFile(p) ==
  /\ CanCompleteFile(tree, p)
  /\ tree' = applyCompleteFile(tree, p)
  /\ UNCHANGED spent

UpdateSize(p, size) ==
  /\ CanUpdateSize(tree, p)
  /\ tree' = applyUpdateSize(tree, p, size)
  /\ UNCHANGED spent

Delete(p) ==
  /\ CanDelete(tree, p)
  /\ tree' = applyDelete(tree, p)
  /\ UNCHANGED spent

Rename(src, dst) ==
  /\ CanRename(tree, src, dst)
  /\ Fits(tree, src, dst)
  /\ tree' = applyRename(tree, src, dst)
  /\ UNCHANGED spent

Next ==
  \/ \E p \in Locations : Mkdir(p)
  \/ \E p \in Paths, mode \in CreateModes, id \in FileIds, size \in Sizes :
       \E replicas \in ReplicaLists(id) : CreateFile(p, mode, id, size, replicas)
  \/ \E id \in FileIds : Discard(id)
  \/ \E p \in Paths : CompleteFile(p)
  \/ \E p \in Paths, size \in Sizes : UpdateSize(p, size)
  \/ \E p \in Paths : Delete(p)
  \/ \E src, dst \in Paths : Rename(src, dst)

Spec == Init /\ [][Next]_vars

-----------------------------------------------------------------------------
(* Properties                                                              *)

\* Every entry can be reached from the root: the directories above it are all
\* there.  A rename that detached a subtree (a directory moved below itself,
\* a parent overwritten) would break this.
WellFormed ==
  /\ IsDir(tree, Root)
  /\ \A p \in Paths : Exists(tree, p) => IsDir(tree, Parent(p))

\* A FileID names one file: no rename, overwrite or re-creation leaves two
\* entries with the same identity, of which the first unlink would make the
\* other's data collectable.
IdentityUnique ==
  \A p, q \in Locations :
    IsFile(tree, p) /\ IsFile(tree, q) /\ tree[p].fileID = tree[q].fileID => p = q

\* An identity that has left the tree never comes back.  The collector relies
\* on it: an orphan it has seen stays one.
NoResurrection ==
  [][\A id \in spent \ LiveIds(tree) : id \notin LiveIds(tree')]_vars

\* A file leaves the tree only by name: a rename overwrites the very file that
\* it names as its target, never one below it, and nothing else but an unlink
\* takes a file away.  An unlink takes whatever is below its path: the code
\* does not ask whether a directory is empty (apply.go:133-156).
LostOnlyByName ==
  [][\A q \in Paths :
       IsFile(tree, q) /\ tree[q].fileID \notin LiveIds(tree') =>
         \/ \E src \in Paths : Rename(src, q)
         \/ \E p \in Paths : Delete(p) /\ IsPrefix(p, q)]_vars

\* A path goes over to another identity only when that file is moved onto it;
\* an overwriting create keeps the one it finds (apply.go:102, "never
\* generated anew"), so that open handles and the collector still know it.
OverwriteKeepsIdentity ==
  [][\A p \in Paths :
       IsFile(tree, p) /\ IsFile(tree', p) /\ tree'[p].fileID # tree[p].fileID
         => tree'[p].fileID \in LiveIds(tree)]_vars

\* A file that a step leaves under another path is the same object there:
\* status, size and replicas have moved with the identity.
MovesKeepTheObject ==
  [][\A p, q \in Paths :
       /\ p # q /\ IsFile(tree, p) /\ IsFile(tree', q)
       /\ tree[p].fileID = tree'[q].fileID
       => tree'[q] = tree[p]]_vars
=============================================================================
