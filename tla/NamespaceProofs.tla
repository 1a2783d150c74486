--------------------------- MODULE NamespaceProofs ---------------------------
(***************************************************************************)
(* Proofs about Namespace for every set of paths and identities.           *)
(***************************************************************************)
EXTENDS Namespace, MetaStateProofs, TreeProofs

\* The replica lists of an identity are lists of replicas.
LEMMA ReplicaListsType ==
  ASSUME NEW id \in FileIds, NEW replicas \in ReplicaLists(id)
  PROVE  replicas \in Seq(Replica)
<1>1. PICK n \in 1..replicaCount : replicas \in [1..n -> [addr : Addrs, remote : {id}]]
  BY DEF ReplicaLists
<1>2. n \in Nat /\ replicas \in [1..n -> Replica]
  BY <1>1, ReplicaAssumption DEF Replica
<1> QED  BY <1>2

\* Every command keeps the types.
LEMMA NextType == TypeOK /\ [Next]_vars => TypeOK'
<1> SUFFICES ASSUME TypeOK, [Next]_vars PROVE TypeOK'
  OBVIOUS
<1> USE DEF TypeOK
<1>1. ASSUME NEW p \in Locations, Mkdir(p) PROVE TypeOK'
  BY <1>1, MkdirType DEF Mkdir
<1>2. ASSUME NEW p \in Paths, NEW mode \in CreateModes, NEW id \in FileIds,
             NEW size \in Sizes, NEW replicas \in ReplicaLists(id),
             CreateFile(p, mode, id, size, replicas)
      PROVE  TypeOK'
  <2>1. replicas \in Seq(Replica) /\ p \in Locations
    BY ReplicaListsType DEF Locations
  <2> QED  BY <1>2, <2>1, CreateFileType DEF CreateFile
<1>3. ASSUME NEW id \in FileIds, Discard(id) PROVE TypeOK'
  BY <1>3 DEF Discard
<1>4. ASSUME NEW p \in Paths, CompleteFile(p) PROVE TypeOK'
  <2>1. p \in Locations
    BY DEF Locations
  <2> QED  BY <1>4, <2>1, CompleteFileType DEF CompleteFile
<1>5. ASSUME NEW p \in Paths, NEW size \in Sizes, UpdateSize(p, size) PROVE TypeOK'
  <2>1. p \in Locations
    BY DEF Locations
  <2> QED  BY <1>5, <2>1, UpdateSizeType DEF UpdateSize
<1>6. ASSUME NEW p \in Paths, Delete(p) PROVE TypeOK'
  BY <1>6, DeleteType DEF Delete
<1>7. ASSUME NEW src \in Paths, NEW dst \in Paths, Rename(src, dst) PROVE TypeOK'
  BY <1>7, RenameType DEF Rename
<1>8. CASE UNCHANGED vars
  BY <1>8 DEF vars
<1> QED  BY <1>1, <1>2, <1>3, <1>4, <1>5, <1>6, <1>7, <1>8 DEF Next

\* Every command leaves a tree of well-typed entries.
THEOREM NamespaceTypeCorrect == Spec => []TypeOK
<1>1. Init => TypeOK
  BY EmptyTreeType DEF Init, TypeOK
<1> QED  BY <1>1, NextType, PTL DEF Spec

\* What a step does to identities: one that was not spent may come in.
LEMMA StepLiveIds ==
  ASSUME TypeOK, Next
  PROVE  \A id \in LiveIds(tree') \ LiveIds(tree) : id \notin spent
<1>0. tree \in [Locations -> Entry] /\ Paths \subseteq Locations
  BY DEF TypeOK, Locations
<1>1. ASSUME NEW p \in Paths, NEW mode \in CreateModes, NEW id \in FileIds,
             NEW size \in Sizes, NEW replicas \in ReplicaLists(id),
             CreateFile(p, mode, id, size, replicas)
      PROVE  LiveIds(tree') \subseteq LiveIds(tree) \cup {id} /\ id \notin spent
  BY <1>0, <1>1, CreateFileLiveIds DEF CreateFile
<1>2. ASSUME NEW p \in Locations, Mkdir(p) PROVE FilesFrom(tree', tree)
  BY <1>0, <1>2, MkdirFiles DEF Mkdir
<1>3. ASSUME NEW id \in FileIds, Discard(id) PROVE FilesFrom(tree', tree)
  BY <1>3 DEF Discard, FilesFrom, IsFile
<1>4. ASSUME NEW p \in Paths, CompleteFile(p) PROVE FilesFrom(tree', tree)
  BY <1>0, <1>4, CompleteFileFiles DEF CompleteFile
<1>5. ASSUME NEW p \in Paths, NEW size \in Sizes, UpdateSize(p, size)
      PROVE  FilesFrom(tree', tree)
  BY <1>0, <1>5, UpdateSizeFiles DEF UpdateSize
<1>6. ASSUME NEW p \in Paths, Delete(p) PROVE FilesFrom(tree', tree)
  BY <1>0, <1>6, DeleteFiles DEF Delete
<1>7. ASSUME NEW src \in Paths, NEW dst \in Paths, Rename(src, dst)
      PROVE  FilesFrom(tree', tree)
  BY <1>0, <1>7, RenameFiles DEF Rename
<1> QED  BY <1>1, <1>2, <1>3, <1>4, <1>5, <1>6, <1>7, FilesFromLiveIds DEF Next

\* An identity that has left the tree never comes back, whatever commands
\* follow: not by a rename, an overwrite or the re-creation of its path.
THEOREM DeadIdentitiesStayDead == Spec => NoResurrection
<1>1. TypeOK /\ [Next]_vars =>
        [\A id \in spent \ LiveIds(tree) : id \notin LiveIds(tree')]_vars
  <2> SUFFICES ASSUME TypeOK, Next
               PROVE  \A id \in spent \ LiveIds(tree) : id \notin LiveIds(tree')
    OBVIOUS
  <2> QED  BY StepLiveIds
<1> QED  BY <1>1, NamespaceTypeCorrect, PTL DEF Spec, NoResurrection

-----------------------------------------------------------------------------
(* The shape of the tree                                                   *)

\* Every command keeps every entry below a directory.
LEMMA NextWellFormed == TypeOK /\ WellFormed /\ [Next]_vars => WellFormed'
<1> SUFFICES ASSUME TypeOK, WellFormed, [Next]_vars PROVE WellFormed'
  OBVIOUS
<1>0. /\ tree \in [Locations -> Entry] /\ Rooted(tree) /\ Paths \subseteq Locations
      /\ Rooted(tree') => WellFormed'
  BY DEF TypeOK, WellFormed, Rooted, Locations
<1>1. ASSUME NEW p \in Locations, Mkdir(p) PROVE Rooted(tree')
  BY <1>0, <1>1, MkdirRooted DEF Mkdir
<1>2. ASSUME NEW p \in Paths, NEW mode \in CreateModes, NEW id \in FileIds,
             NEW size \in Sizes, NEW replicas \in ReplicaLists(id),
             CreateFile(p, mode, id, size, replicas)
      PROVE  Rooted(tree')
  <2>1. IsDir(tree, Parent(p)) /\ ~IsDir(tree, p)
    BY <1>2 DEF CreateFile, CanCreateFile
  <2> QED  BY <1>0, <1>2, <2>1, FileRooted DEF CreateFile, applyCreateFile, NewFile
<1>3. ASSUME NEW id \in FileIds, Discard(id) PROVE Rooted(tree')
  BY <1>0, <1>3 DEF Discard
<1>4. ASSUME NEW p \in Paths, IsFile(tree, p), NEW e, e.kind = "file",
             tree' = [tree EXCEPT ![p] = e]
      PROVE  Rooted(tree')
  <2>1. IsDir(tree, Parent(p)) /\ ~IsDir(tree, p)
    BY <1>0, <1>4 DEF Rooted, Exists, IsFile, IsDir
  <2> QED  BY <1>0, <1>4, <2>1, FileRooted
<1>5. ASSUME NEW p \in Paths, IsFile(tree, p) PROVE tree[p] \in FileEntry
  BY <1>0, <1>5 DEF IsFile, Entry, NoEntry, Dir
<1>6. ASSUME NEW p \in Paths, CompleteFile(p) PROVE Rooted(tree')
  <2>1. IsFile(tree, p) /\ tree' = [tree EXCEPT ![p].status = "complete"]
    BY <1>6 DEF CompleteFile, CanCompleteFile, applyCompleteFile
  <2>2. [tree[p] EXCEPT !.status = "complete"].kind = "file"
    BY <1>5, <2>1 DEF FileEntry
  <2> QED  BY <1>4, <2>1, <2>2
<1>7. ASSUME NEW p \in Paths, NEW size \in Sizes, UpdateSize(p, size)
      PROVE  Rooted(tree')
  <2>1. IsFile(tree, p) /\ tree' = [tree EXCEPT ![p].size = size]
    BY <1>7 DEF UpdateSize, CanUpdateSize, applyUpdateSize
  <2>2. [tree[p] EXCEPT !.size = size].kind = "file"
    BY <1>5, <2>1 DEF FileEntry
  <2> QED  BY <1>4, <2>1, <2>2
<1>8. ASSUME NEW p \in Paths, Delete(p) PROVE Rooted(tree')
  BY <1>0, <1>8, DeleteRooted DEF Delete
<1>9. ASSUME NEW src \in Paths, NEW dst \in Paths, Rename(src, dst)
      PROVE  Rooted(tree')
  BY <1>0, <1>9, RenameRooted DEF Rename
<1>10. CASE UNCHANGED vars
  BY <1>0, <1>10 DEF vars
<1> QED
  BY <1>0, <1>1, <1>2, <1>3, <1>6, <1>7, <1>8, <1>9, <1>10 DEF Next

\* The tree stays a tree: no sequence of commands, however directories are
\* moved about, leaves an entry that cannot be reached from the root.
THEOREM TreeStaysATree == Spec => []WellFormed
<1>1. Init => WellFormed
  BY LocationFacts DEF Init, WellFormed, EmptyTree, IsDir, Exists, Dir, NoEntry
<1> QED  BY <1>1, NextWellFormed, NamespaceTypeCorrect, PTL DEF Spec

-----------------------------------------------------------------------------
(* The identity of files                                                   *)

\* What is in the tree has been spent.
LiveAreSpent == LiveIds(tree) \subseteq spent

\* Files stay at their paths with their identities, or go.
InPlace ==
  \A q \in Locations : IsFile(tree', q) =>
    IsFile(tree, q) /\ tree'[q].fileID = tree[q].fileID

Creates ==
  \E p \in Paths, mode \in CreateModes, id \in FileIds, size \in Sizes :
    \E replicas \in ReplicaLists(id) : CreateFile(p, mode, id, size, replicas)

\* All commands but two leave files in place.
LEMMA StepKinds ==
  ASSUME TypeOK, Next
  PROVE  (InPlace /\ spent \subseteq spent') \/ Creates
           \/ \E src, dst \in Paths : Rename(src, dst)
<1>0. tree \in [Locations -> Entry] /\ Paths \subseteq Locations
  BY DEF TypeOK, Locations
<1> DEFINE Stays == InPlace /\ spent \subseteq spent'
<1>1. ASSUME NEW p \in Locations, Mkdir(p) PROVE Stays
  BY <1>1 DEF Mkdir, applyMkdir, IsFile, Dir, InPlace
<1>2. ASSUME NEW id \in FileIds, Discard(id) PROVE Stays
  BY <1>2 DEF Discard, IsFile, InPlace
<1>3. ASSUME NEW p \in Paths, NEW e, tree' = [tree EXCEPT ![p] = e],
             IsFile(tree, p), e.fileID = tree[p].fileID, spent' = spent
      PROVE  Stays
  <2>1. \A q \in Locations : tree'[q] = IF q = p THEN e ELSE tree[q]
    BY <1>0, <1>3
  <2> QED  BY <1>3, <2>1 DEF IsFile, InPlace
<1>4. ASSUME NEW p \in Paths, IsFile(tree, p) PROVE tree[p] \in FileEntry
  BY <1>0, <1>4 DEF IsFile, Entry, NoEntry, Dir
<1>5. ASSUME NEW p \in Paths, CompleteFile(p) PROVE Stays
  <2>1. /\ IsFile(tree, p) /\ tree' = [tree EXCEPT ![p].status = "complete"]
        /\ spent' = spent
    BY <1>5 DEF CompleteFile, CanCompleteFile, applyCompleteFile
  <2>2. [tree[p] EXCEPT !.status = "complete"].fileID = tree[p].fileID
    BY <1>4, <2>1 DEF FileEntry
  <2> QED  BY <1>3, <2>1, <2>2
<1>6. ASSUME NEW p \in Paths, NEW size \in Sizes, UpdateSize(p, size) PROVE Stays
  <2>1. /\ IsFile(tree, p) /\ tree' = [tree EXCEPT ![p].size = size]
        /\ spent' = spent
    BY <1>6 DEF UpdateSize, CanUpdateSize, applyUpdateSize
  <2>2. [tree[p] EXCEPT !.size = size].fileID = tree[p].fileID
    BY <1>4, <2>1 DEF FileEntry
  <2> QED  BY <1>3, <2>1, <2>2
<1>7. ASSUME NEW p \in Paths, Delete(p) PROVE Stays
  BY <1>7 DEF Delete, applyDelete, IsFile, NoEntry, InPlace
<1> QED  BY <1>1, <1>2, <1>5, <1>6, <1>7 DEF Next, Creates

\* Every command keeps that, and that a FileID names one file.
LEMMA NextDistinct ==
  TypeOK /\ LiveAreSpent /\ IdentityUnique /\ [Next]_vars
    => LiveAreSpent' /\ IdentityUnique'
<1> SUFFICES ASSUME TypeOK, LiveAreSpent, IdentityUnique, [Next]_vars
             PROVE  LiveAreSpent' /\ IdentityUnique'
  OBVIOUS
<1>0. /\ tree \in [Locations -> Entry] /\ Distinct(tree) /\ Paths \subseteq Locations
      /\ Distinct(tree') => IdentityUnique'
  BY DEF TypeOK, IdentityUnique, Distinct, Locations
<1>1. ASSUME NEW p \in Paths, NEW mode \in CreateModes, NEW id \in FileIds,
             NEW size \in Sizes, NEW replicas \in ReplicaLists(id),
             CreateFile(p, mode, id, size, replicas)
      PROVE  LiveAreSpent' /\ Distinct(tree')
  <2>1. /\ id \notin LiveIds(tree) /\ spent' = spent \cup {id}
        /\ tree' = applyCreateFile(tree, p, id, size, replicas)
    BY <1>1 DEF CreateFile, LiveAreSpent
  <2>2. Distinct(tree')
    BY <1>0, <2>1, CreateFileDistinct
  <2>3. LiveIds(tree') \subseteq LiveIds(tree) \cup {id}
    BY <1>0, <2>1, CreateFileLiveIds
  <2> QED  BY <2>1, <2>2, <2>3 DEF LiveAreSpent
<1>2. ASSUME NEW src \in Paths, NEW dst \in Paths, Rename(src, dst)
      PROVE  LiveAreSpent' /\ Distinct(tree')
  <2>1. Distinct(tree') /\ FilesFrom(tree', tree) /\ spent' = spent
    BY <1>0, <1>2, RenameDistinct, RenameFiles DEF Rename
  <2> QED  BY <2>1, FilesFromLiveIds DEF LiveAreSpent
<1>3. CASE InPlace /\ spent \subseteq spent'
  <2>1. Distinct(tree')
    BY <1>0, <1>3, FilesInPlaceDistinct DEF InPlace
  <2>2. LiveAreSpent'
    BY <1>3 DEF LiveAreSpent, LiveIds, InPlace
  <2> QED  BY <1>0, <2>1, <2>2
<1>4. CASE UNCHANGED vars
  BY <1>0, <1>4 DEF vars, IdentityUnique, Distinct, LiveAreSpent
<1>5. CASE Next
  <2>1. CASE Creates
    BY <1>0, <1>1, <2>1 DEF Creates
  <2>2. CASE \E src, dst \in Paths : Rename(src, dst)
    BY <1>0, <1>2, <2>2
  <2> QED  BY <1>0, <1>3, <1>5, <2>1, <2>2, StepKinds
<1> QED  BY <1>4, <1>5
\* No two files ever have the same identity: an unlink of one makes no other's
\* data collectable.
THEOREM IdentitiesAreUnique == Spec => []IdentityUnique
<1>1. Init => LiveAreSpent /\ IdentityUnique
  <2> SUFFICES ASSUME Init PROVE LiveAreSpent /\ IdentityUnique
    OBVIOUS
  <2>1. \A p \in Locations : ~IsFile(tree, p)
    BY DEF Init, EmptyTree, IsFile, Dir, NoEntry
  <2> QED  BY <2>1 DEF LiveAreSpent, LiveIds, IdentityUnique
<1> QED  BY <1>1, NextDistinct, NamespaceTypeCorrect, PTL DEF Spec

\* What is in the tree has been spent, always.
LEMMA IdentityInvariants == Spec => [](TypeOK /\ WellFormed /\ LiveAreSpent /\ IdentityUnique)
<1>1. Init => LiveAreSpent
  <2>1. Init => \A p \in Locations : ~IsFile(tree, p)
    BY DEF Init, EmptyTree, IsFile, Dir, NoEntry
  <2> QED  BY <2>1 DEF LiveAreSpent, LiveIds
<1> QED
  BY <1>1, NextDistinct, NamespaceTypeCorrect, TreeStaysATree, IdentitiesAreUnique, PTL DEF Spec

-----------------------------------------------------------------------------
(* What a step may do to files                                             *)

\* What an overwriting create makes of the file it finds, and of the others.
LEMMA CreateAt ==
  ASSUME TypeOK, NEW p \in Paths, NEW mode, NEW id, NEW size, NEW replicas,
         CreateFile(p, mode, id, size, replicas)
  PROVE  /\ id \notin spent /\ IsFile(tree', p)
         /\ tree'[p].fileID = IF IsFile(tree, p) THEN tree[p].fileID ELSE id
         /\ \A q \in Locations \ {p} : tree'[q] = tree[q]
<1>1. /\ id \notin spent /\ tree \in [Locations -> Entry] /\ p \in Locations
      /\ tree' = [tree EXCEPT ![p] =
                    NewFile(IF IsFile(tree, p) THEN tree[p].fileID ELSE id, size, replicas)]
  BY DEF CreateFile, applyCreateFile, TypeOK, Locations
<1> QED  BY <1>1 DEF NewFile, IsFile

\* A path goes over to another identity only when that file is moved onto it: an
\* overwriting create keeps the identity it finds (apply.go:102).
THEOREM IdentitiesStayOnOverwrite == Spec => OverwriteKeepsIdentity
<1>1. ASSUME TypeOK, Next, NEW p \in Paths, IsFile(tree, p), IsFile(tree', p),
             tree'[p].fileID # tree[p].fileID
      PROVE  tree'[p].fileID \in LiveIds(tree)
  <2>1. p \in Locations
    BY DEF Locations
  <2>2. CASE InPlace
    BY <1>1, <2>1, <2>2 DEF InPlace
  <2>3. CASE Creates
    <3>1. PICK q \in Paths, mode \in CreateModes, id \in FileIds, size \in Sizes :
            \E replicas \in ReplicaLists(id) : CreateFile(q, mode, id, size, replicas)
      BY <2>3 DEF Creates
    <3> QED  BY <1>1, <2>1, <3>1, CreateAt
  <2>4. ASSUME NEW src \in Paths, NEW dst \in Paths, Rename(src, dst)
        PROVE  tree'[p].fileID \in LiveIds(tree)
    <3>1. FilesFrom(tree', tree)
      BY <1>1, <2>4, RenameFiles DEF Rename, TypeOK
    <3> QED  BY <1>1, <2>1, <3>1 DEF FilesFrom, LiveIds
  <2> QED  BY <1>1, <2>2, <2>3, <2>4, StepKinds
<1>2. TypeOK /\ [Next]_vars =>
        [\A p \in Paths :
           IsFile(tree, p) /\ IsFile(tree', p) /\ tree'[p].fileID # tree[p].fileID
             => tree'[p].fileID \in LiveIds(tree)]_vars
  BY <1>1
<1> QED  BY <1>2, NamespaceTypeCorrect, PTL DEF Spec, OverwriteKeepsIdentity

\* A file that a step leaves under another path is the same object there: status,
\* size and replicas have moved with the identity.
THEOREM MovedFilesAreTheSame == Spec => MovesKeepTheObject
<1>1. ASSUME TypeOK, LiveAreSpent, IdentityUnique, Next, NEW p \in Paths, NEW q \in Paths,
             p # q, IsFile(tree, p), IsFile(tree', q), tree[p].fileID = tree'[q].fileID
      PROVE  tree'[q] = tree[p]
  <2>1. /\ p \in Locations /\ q \in Locations /\ tree[p].fileID \in spent
        /\ \A r \in Locations : IsFile(tree, r) /\ tree[r].fileID = tree[p].fileID => r = p
    BY <1>1 DEF Locations, LiveAreSpent, LiveIds, IdentityUnique
  <2>2. CASE InPlace
    BY <1>1, <2>1, <2>2 DEF InPlace
  <2>3. CASE Creates
    <3>1. PICK r \in Paths, mode \in CreateModes, id \in FileIds, size \in Sizes :
            \E replicas \in ReplicaLists(id) : CreateFile(r, mode, id, size, replicas)
      BY <2>3 DEF Creates
    <3>2. /\ id \notin spent
          /\ tree'[r].fileID = IF IsFile(tree, r) THEN tree[r].fileID ELSE id
          /\ \A x \in Locations \ {r} : tree'[x] = tree[x]
      BY <1>1, <3>1, CreateAt
    <3>3. CASE q = r
      BY <1>1, <2>1, <3>2, <3>3
    <3>4. CASE q # r
      BY <1>1, <2>1, <3>2, <3>4 DEF IsFile
    <3> QED  BY <3>3, <3>4
  <2>4. ASSUME NEW src \in Paths, NEW dst \in Paths, Rename(src, dst)
        PROVE  tree'[q] = tree[p]
    <3>1. PICK r \in Locations : tree'[q] = tree[r]
      BY <1>1, <2>1, <2>4, RenameTakes DEF Rename, TypeOK
    <3>2. r = p
      BY <1>1, <2>1, <3>1 DEF IsFile
    <3> QED  BY <3>1, <3>2
  <2> QED  BY <1>1, <2>2, <2>3, <2>4, StepKinds
<1>2. TypeOK /\ LiveAreSpent /\ IdentityUnique /\ [Next]_vars =>
        [\A p, q \in Paths :
           /\ p # q /\ IsFile(tree, p) /\ IsFile(tree', q)
           /\ tree[p].fileID = tree'[q].fileID
           => tree'[q] = tree[p]]_vars
  BY <1>1
<1> QED  BY <1>2, IdentityInvariants, PTL DEF Spec, MovesKeepTheObject

\* Commands that neither unlink nor rename lose no identity.
LEMMA OthersLoseNothing ==
  ASSUME TypeOK, Next, \A p \in Paths : ~Delete(p), \A src, dst \in Paths : ~Rename(src, dst)
  PROVE  LiveIds(tree) \subseteq LiveIds(tree')
<1>0. tree \in [Locations -> Entry] /\ Paths \subseteq Locations
  BY DEF TypeOK, Locations
<1> SUFFICES \A q \in Locations : IsFile(tree, q) =>
               IsFile(tree', q) /\ tree'[q].fileID = tree[q].fileID
  BY DEF LiveIds
<1>1. ASSUME NEW q \in Locations, IsFile(tree, q) PROVE tree[q] \in FileEntry
  BY <1>0, <1>1 DEF IsFile, Entry, NoEntry, Dir
<1>2. ASSUME NEW q \in Locations, IsFile(tree, q)
      PROVE  IsFile(tree', q) /\ tree'[q].fileID = tree[q].fileID
  <2>1. CASE tree'[q] = tree[q]
    BY <1>2, <2>1 DEF IsFile
  <2>2. ASSUME NEW p \in Locations, Mkdir(p) PROVE tree'[q] = tree[q]
    BY <1>2, <2>2 DEF Mkdir, CanMkdir, applyMkdir
  <2>3. CASE Creates
    <3>1. PICK p \in Paths, mode \in CreateModes, id \in FileIds, size \in Sizes :
            \E replicas \in ReplicaLists(id) : CreateFile(p, mode, id, size, replicas)
      BY <2>3 DEF Creates
    <3>2. CASE p = q
      BY <1>2, <3>1, <3>2, CreateAt
    <3>3. CASE p # q
      BY <2>1, <3>1, <3>3, CreateAt
    <3> QED  BY <3>2, <3>3
  <2>4. ASSUME NEW id \in FileIds, Discard(id) PROVE tree'[q] = tree[q]
    BY <2>4 DEF Discard
  <2>5. ASSUME NEW p \in Paths, CompleteFile(p)
        PROVE  IsFile(tree', q) /\ tree'[q].fileID = tree[q].fileID
    <3>1. tree'[q] = IF q = p THEN [tree[q] EXCEPT !.status = "complete"] ELSE tree[q]
      BY <1>0, <2>5 DEF CompleteFile, applyCompleteFile
    <3> QED  BY <1>1, <1>2, <3>1 DEF FileEntry, IsFile
  <2>6. ASSUME NEW p \in Paths, NEW size \in Sizes, UpdateSize(p, size)
        PROVE  IsFile(tree', q) /\ tree'[q].fileID = tree[q].fileID
    <3>1. tree'[q] = IF q = p THEN [tree[q] EXCEPT !.size = size] ELSE tree[q]
      BY <1>0, <2>6 DEF UpdateSize, applyUpdateSize
    <3> QED  BY <1>1, <1>2, <3>1 DEF FileEntry, IsFile
  <2> QED  BY <2>1, <2>2, <2>3, <2>4, <2>5, <2>6 DEF Next, Creates
<1> QED  BY <1>2

\* A file leaves the tree only when a rename names it as its target, or an unlink
\* names it or a directory above it: no rename loses a file it does not name.
THEOREM FilesAreLostByName == Spec => LostOnlyByName
<1>1. ASSUME TypeOK, WellFormed, Next, NEW q \in Paths, IsFile(tree, q),
             tree[q].fileID \notin LiveIds(tree')
      PROVE  \/ \E src \in Paths : Rename(src, q)
             \/ \E p \in Paths : Delete(p) /\ IsPrefix(p, q)
  <2>0. /\ tree \in [Locations -> Entry] /\ Rooted(tree) /\ q \in Locations
        /\ tree[q].fileID \in LiveIds(tree)
    BY <1>1 DEF TypeOK, WellFormed, Rooted, Locations, LiveIds
  <2>1. ASSUME NEW r \in Locations, tree'[r] = tree[q] PROVE FALSE
    BY <1>1, <2>1 DEF LiveIds, IsFile
  <2>2. ASSUME NEW p \in Paths, Delete(p) PROVE IsPrefix(p, q)
    <3>1. tree'[q] = IF IsPrefix(p, q) THEN NoEntry ELSE tree[q]
      BY <2>0, <2>2 DEF Delete, applyDelete
    <3> QED  BY <2>0, <2>1, <3>1
  <2>3. ASSUME NEW src \in Paths, NEW dst \in Paths, Rename(src, dst) PROVE dst = q
    <3>1. CASE dst # q
      <4>1. \E r \in Locations : tree'[r] = tree[q]
        BY <1>1, <2>0, <2>3, <3>1, RenameKeeps DEF Rename, IsFile, Exists
      <4> QED  BY <2>1, <4>1
    <3> QED  BY <3>1
  <2>4. CASE (\A p \in Paths : ~Delete(p)) /\ (\A src, dst \in Paths : ~Rename(src, dst))
    BY <1>1, <2>0, <2>4, OthersLoseNothing
  <2> QED  BY <2>2, <2>3, <2>4
<1>2. TypeOK /\ WellFormed /\ [Next]_vars =>
        [\A q \in Paths :
           IsFile(tree, q) /\ tree[q].fileID \notin LiveIds(tree') =>
             \/ \E src \in Paths : Rename(src, q)
             \/ \E p \in Paths : Delete(p) /\ IsPrefix(p, q)]_vars
  BY <1>1
<1> QED  BY <1>2, IdentityInvariants, PTL DEF Spec, LostOnlyByName
=============================================================================
