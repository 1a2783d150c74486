------------------------------ MODULE MetaState ------------------------------
(***************************************************************************)
(* The replicated state of the metadata service and the operations that    *)
(* Apply performs on it (src/internal/metadata/apply.go).  A module of     *)
(* pure operators: for an operation Op,                                    *)
(*                                                                         *)
(*   CanOp(tree, ...)    no early return of applyOp is taken,              *)
(*   applyOp(tree, ...)  the state it leaves when none is.                 *)
(*                                                                         *)
(* The directory tree is a function from locations to entries.  A location *)
(* is the sequence of names splitPath yields, the empty one the root;      *)
(* names are abstract.  Timestamps and mode bits are left out.             *)
(*                                                                         *)
(* A definition whose comment starts with "Bug:" changes the one after it  *)
(* as a plausible mistake would; each shows that a property is not idle.   *)
(***************************************************************************)
EXTENDS Naturals, Sequences, FiniteSets, SequencesExt

CONSTANTS
  Names,         \* names of files and directories
  Paths,         \* the locations below the root that an instance has
  FileIds,       \* the values generateFileID may return
  Addrs,         \* addresses of the data nodes
  Sizes,         \* file sizes
  Hash,          \* Hash[p]: the hash selectDataNodes computes of a path
  replicaCount   \* copies wanted of each file

Root == <<>>
Locations == Paths \cup {Root}
Parent(p) == Front(p)

ASSUME PathsAssumption ==
  \A p \in Paths : p \in Seq(Names) /\ p # Root /\ Parent(p) \in Locations
ASSUME HashAssumption == Hash \in [Paths -> Nat]
ASSUME ReplicaAssumption == replicaCount \in Nat \ {0}

CreateModes == {"CreateIfNotExist", "OverwriteIfExists"}

-----------------------------------------------------------------------------
(* Entries                                                                 *)

\* A copy of a file: RemotePath is "/data/" followed by a FileID.
Replica == [addr : Addrs, remote : FileIds]

NoEntry == [kind |-> "none"]
Dir == [kind |-> "dir"]
FileEntry == [kind : {"file"}, status : {"pending", "complete"},
              fileID : FileIds, size : Sizes, replicas : Seq(Replica)]
Entry == {NoEntry, Dir} \cup FileEntry

NewFile(id, size, replicas) ==
  [kind |-> "file", status |-> "pending", fileID |-> id, size |-> size,
   replicas |-> replicas]

EmptyTree == [p \in Locations |-> IF p = Root THEN Dir ELSE NoEntry]

IsDir(tree, p)  == tree[p].kind = "dir"
IsFile(tree, p) == tree[p].kind = "file"
Exists(tree, p) == tree[p].kind # "none"

\* What collectValidFileIDs returns: the identities of all files in the tree.
LiveIds(tree) == {tree[p].fileID : p \in {q \in Locations : IsFile(tree, q)}}

\* The physical files that the entries in the tree point to.
LiveReplicas(tree) ==
  UNION {ToSet(tree[p].replicas) : p \in {q \in Locations : IsFile(tree, q)}}

-----------------------------------------------------------------------------
(* Operations on the tree                                                  *)

\* applyMkdir is mkdir -p: missing ancestors are made, existing ones kept.
CanMkdir(tree, p) ==
  \A q \in Locations : IsPrefix(q, p) => ~IsFile(tree, q)

applyMkdir(tree, p) ==
  [q \in Locations |-> IF IsPrefix(q, p) THEN Dir ELSE tree[q]]

\* A file is created in an existing directory; an existing file is replaced
\* only in overwrite mode.
CanCreateFile(tree, p, mode) ==
  /\ IsDir(tree, Parent(p))
  /\ ~IsDir(tree, p)
  /\ IsFile(tree, p) => mode = "OverwriteIfExists"

\* Bug: an overwritten file gets the new identity.
applyCreateFileNewId(tree, p, id, size, replicas) ==
  [tree EXCEPT ![p] = NewFile(id, size, replicas)]

\* The entry is new in every field but one: an existing file keeps its FileID.
applyCreateFile(tree, p, id, size, replicas) ==
  [tree EXCEPT ![p] =
     NewFile(IF IsFile(tree, p) THEN tree[p].fileID ELSE id, size, replicas)]

CanCompleteFile(tree, p) == IsFile(tree, p)
applyCompleteFile(tree, p) == [tree EXCEPT ![p].status = "complete"]

CanUpdateSize(tree, p) == IsFile(tree, p)
applyUpdateSize(tree, p, size) == [tree EXCEPT ![p].size = size]

\* Deleting a directory takes everything below it along.
CanDelete(tree, p) == p # Root /\ Exists(tree, p)

\* Bug: files are marked as deleted and kept.
applyDeleteTombstone(tree, p) ==
  [q \in Locations |->
     IF ~IsPrefix(p, q) THEN tree[q]
     ELSE IF IsFile(tree, q) THEN [tree[q] EXCEPT !.status = "deleted"]
     ELSE NoEntry]

applyDelete(tree, p) ==
  [q \in Locations |-> IF IsPrefix(p, q) THEN NoEntry ELSE tree[q]]

\* Bug: nothing keeps a directory from moving below itself.
CanRenameCycle(tree, src, dst) ==
  /\ Exists(tree, src)
  /\ IsDir(tree, Parent(dst))
  /\ ~IsDir(tree, dst)

\* Bug: an existing directory is overwritten.
CanRenameOntoDir(tree, src, dst) ==
  /\ Exists(tree, src)
  /\ ~(IsDir(tree, src) /\ IsPrefix(src, Parent(dst)))
  /\ IsDir(tree, Parent(dst))

\* A file at dst is overwritten, a directory there is not, and a directory is
\* never moved below itself.
CanRename(tree, src, dst) ==
  /\ Exists(tree, src)
  /\ ~(IsDir(tree, src) /\ IsPrefix(src, Parent(dst)))
  /\ IsDir(tree, Parent(dst))
  /\ ~IsDir(tree, dst)

\* Where the entry found at q after the move was before it.
MovedFrom(src, dst, q) == src \o SubSeq(q, Len(dst) + 1, Len(q))

\* Bug: the source is not detached.
applyRenameCopy(tree, src, dst) ==
  [q \in Locations |->
     IF IsPrefix(dst, q)
       THEN IF MovedFrom(src, dst, q) \in Paths
              THEN tree[MovedFrom(src, dst, q)] ELSE NoEntry
     ELSE tree[q]]

\* Bug: the entry is made anew at dst, as a pending file.
applyRenameReset(tree, src, dst) ==
  [q \in Locations |->
     IF q = dst /\ IsFile(tree, src) THEN [tree[src] EXCEPT !.status = "pending"]
     ELSE IF IsPrefix(dst, q)
       THEN IF MovedFrom(src, dst, q) \in Paths
              THEN tree[MovedFrom(src, dst, q)] ELSE NoEntry
     ELSE IF IsPrefix(src, q) THEN NoEntry
     ELSE tree[q]]

applyRename(tree, src, dst) ==
  [q \in Locations |->
     IF IsPrefix(dst, q)
       THEN IF MovedFrom(src, dst, q) \in Paths
              THEN tree[MovedFrom(src, dst, q)] ELSE NoEntry
     ELSE IF IsPrefix(src, q) THEN NoEntry
     ELSE tree[q]]

\* Bound of an instance: the moved subtree still fits into Paths.
Fits(tree, src, dst) ==
  \A q \in Paths : IsPrefix(src, q) /\ Exists(tree, q)
                     => dst \o SubSeq(q, Len(src) + 1, Len(q)) \in Paths

-----------------------------------------------------------------------------
(* Membership and placement                                                *)

\* Bug: a node is appended without looking for it.
applyHeartbeatAppend(nodes, a) == Append(nodes, a)

applyHeartbeat(nodes, a) == IF a \in ToSet(nodes) THEN nodes ELSE Append(nodes, a)

\* The list has a node once (ReplicasOnDistinctNodes): its first place is any.
applyRemoveDataNode(nodes, a) ==
  IF a \in ToSet(nodes)
    THEN RemoveAt(nodes, CHOOSE i \in DOMAIN nodes : nodes[i] = a) ELSE nodes

\* The replicas of a new file: consecutive nodes of the (non-empty) membership
\* list, in cyclic order, from the one the path hashes to.  The code also skips
\* an address it has taken: while the list names no node twice there is none.
selectDataNodes(nodes, p, id) ==
  LET n == IF replicaCount > Len(nodes) THEN Len(nodes) ELSE replicaCount
      start == Hash[p] % Len(nodes)
  IN  [i \in 1..n |-> [addr   |-> nodes[((start + i - 1) % Len(nodes)) + 1],
                       remote |-> id]]
=============================================================================
