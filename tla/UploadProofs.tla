---------------------------- MODULE UploadProofs ----------------------------
(***************************************************************************)
(* Proofs about FileStore for clients that keep to paths of their own: the *)
(* data of a complete file is never lost.                                  *)
(***************************************************************************)
EXTENDS FileStoreProofs, TreeProofs

\* No path that a client works on is, or is below, one of another client.
OwnsApart ==
  \A c, d \in Clients : \A p \in Owns[c], q \in Owns[d] : IsPrefix(p, q) => c = d

\* The files with these replicas can be read from one of them.
HasCopy(on, replicas) ==
  \E r \in ToSet(replicas) : \E f \in on[r.addr] : f.id = r.remote

\* What client c is doing agrees with what is at its path.
StoreAgrees(c) ==
  cl[c].pc = "store" =>
    /\ cl[c].path \in Owns[c]
    /\ IsFile(tree, cl[c].path) /\ tree[cl[c].path].fileID = cl[c].id
    /\ cl[c].todo \subseteq ToSet(tree[cl[c].path].replicas)
    /\ cl[c].ok => HasCopy(disk, tree[cl[c].path].replicas)

UnlinkAgrees(c) ==
  cl[c].pc = "unlink" =>
    /\ cl[c].path \in Owns[c]
    /\ cl[c].replicas = IF IsFile(tree, cl[c].path)
                          THEN tree[cl[c].path].replicas ELSE <<>>

CleanAgrees(c) ==
  cl[c].pc = "clean" =>
    \A r \in ToSet(cl[c].replicas) : r.remote \in Spent \ LiveIds(tree)

ClientsAgree ==
  \A c \in Clients : /\ cl[c].pc = "create" => cl[c].path \in Owns[c]
                     /\ StoreAgrees(c) /\ UnlinkAgrees(c) /\ CleanAgrees(c)

CompleteHasCopy ==
  \A p \in Locations :
    IsFile(tree, p) /\ tree[p].status = "complete" => HasCopy(disk, tree[p].replicas)

-----------------------------------------------------------------------------
(* What a step does to the tree                                            *)

\* The steps of a client that change the tree.
LEMMA TreeSteps ==
  ASSUME [Next]_vars
  PROVE  \/ \E c \in Clients : PutCreate(c) \/ ChangesTree(c)
         \/ tree' = tree
<1>1. ASSUME NEW c \in Clients, ClientNext(c)
      PROVE  PutCreate(c) \/ ChangesTree(c) \/ tree' = tree
  BY <1>1 DEF ClientNext, PutNext, DeleteNext, ChangesTree, PutPrepare, PutStore,
              PutStoreFails, PutUndo, DeletePrepare, CleanReplica, CleanFails,
              CommitFails, ClientStops
<1> QED  BY <1>1, OthersLeaveClients

\* What is spent stays so, and what is spent and not in the tree stays out of it.
LEMMA DeadStayDead ==
  ASSUME TypeOK, Inv, PlacementInv, [Next]_vars,
         NEW id \in Spent, id \notin LiveIds(tree)
  PROVE  id \in Spent' /\ id \notin LiveIds(tree')
<1>1. Spent \subseteq Spent'
  <2>1. CASE UNCHANGED <<tree, issued, cl>>
    BY <2>1 DEF Spent, Inflight
  <2>2. ASSUME NEW c \in Clients, ClientNext(c) PROVE Spent \subseteq Spent'
    <3>1. CASE \E p \in Paths, mode \in Modes, x \in FileIds, size \in Sizes :
                 PutPrepare(c, p, mode, x, size)
      BY <3>1, PrepareProposes
    <3>2. ASSUME NEW s, s.pc # "create", cl' = [cl EXCEPT ![c] = s], issued' = issued
          PROVE  Spent \subseteq Spent'
      <4>1. /\ cl[c].pc # "create" => Spent' = Spent
            /\ cl[c].pc = "create" => Spent' = Spent \cup {cl[c].id}
        BY <3>2, GoingOnSpends
      <4> QED  BY <4>1
    <3> QED  BY <2>2, <3>1, <3>2, ClientMoves
  <2> QED  BY <2>1, <2>2, OthersLeaveClients
<1>2. ASSUME NEW c \in Clients, PutCreate(c) PROVE id \notin LiveIds(tree')
  <2>1. /\ cl[c] \in CreateState /\ cl[c].pc = "create"
        /\ tree \in [Locations -> Entry]
    BY <1>2, ClientStates DEF PutCreate, TypeOK
  <2>2. cl[c].path \in Locations /\ cl[c].id \in Inflight
    BY <2>1 DEF CreateState, Locations, Inflight
  <2>3. LiveIds(applyCreateFile(tree, cl[c].path, cl[c].id, cl[c].size, cl[c].replicas))
          \subseteq LiveIds(tree) \cup {cl[c].id}
    BY <2>1, <2>2, CreateFileLiveIds
  <2>4. id # cl[c].id
    BY <2>2 DEF Spent
  <2> QED  BY <1>2, <2>3, <2>4 DEF PutCreate
<1>3. ASSUME NEW c \in Clients, ChangesTree(c) PROVE id \notin LiveIds(tree')
  BY <1>3, ChangesKeepFiles, FilesFromLiveIds
<1> QED  BY <1>1, <1>2, <1>3, TreeSteps

\* A FileID names one file after every step.
LEMMA NextDistinct ==
  ASSUME TypeOK, Inv, Distinct(tree), [Next]_vars
  PROVE  Distinct(tree')
<1>0. tree \in [Locations -> Entry] /\ Paths \subseteq Locations
  BY DEF TypeOK, Locations
<1>1. ASSUME NEW c \in Clients, PutCreate(c) PROVE Distinct(tree')
  <2>1. cl[c] \in CreateState /\ cl[c].pc = "create"
    BY <1>1, ClientStates DEF PutCreate, TypeOK
  <2>2. cl[c].path \in Locations /\ cl[c].id \in Inflight
    BY <2>1 DEF CreateState, Locations, Inflight
  <2>3. cl[c].id \notin LiveIds(tree)
    BY <2>2 DEF Inv, DataFollowsMetadata, Spent
  <2>4. Distinct(applyCreateFile(tree, cl[c].path, cl[c].id, cl[c].size, cl[c].replicas))
    BY <1>0, <2>2, <2>3, CreateFileDistinct
  <2> QED  BY <1>1, <2>4 DEF PutCreate
<1>2. ASSUME \A q \in Locations : IsFile(tree', q) =>
               IsFile(tree, q) /\ tree'[q].fileID = tree[q].fileID
      PROVE  Distinct(tree')
  BY <1>2, FilesInPlaceDistinct
<1>3. ASSUME NEW c \in Clients, PutComplete(c) PROVE Distinct(tree')
  <2>1. CASE tree' = tree
    BY <1>2, <2>1
  <2>2. CASE /\ CanCompleteFile(tree, cl[c].path)
             /\ tree' = applyCompleteFile(tree, cl[c].path)
    <3>1. cl[c].path \in Locations
      BY <1>3, ClientStates DEF PutComplete, TypeOK, StoreState, Locations
    <3>2. tree[cl[c].path] \in FileEntry
      BY <1>0, <2>2, <3>1 DEF CanCompleteFile, IsFile, Entry, NoEntry, Dir
    <3> QED  BY <1>0, <1>2, <2>2, <3>1, <3>2 DEF applyCompleteFile, FileEntry, IsFile
  <2> QED  BY <1>3, <2>1, <2>2 DEF PutComplete
<1>4. ASSUME NEW c \in Clients, DeleteCommit(c) PROVE Distinct(tree')
  BY <1>2, <1>4 DEF DeleteCommit, applyDelete, IsFile, NoEntry
<1>5. ASSUME NEW c \in Clients, NEW p \in Owns[c], Mkdir(c, p) PROVE Distinct(tree')
  BY <1>2, <1>5 DEF Mkdir, applyMkdir, IsFile, Dir
<1>6. ASSUME NEW c \in Clients, NEW src \in Owns[c], NEW dst \in Owns[c],
             Rename(c, src, dst)
      PROVE  Distinct(tree')
  <2>1. src \in Paths /\ dst \in Paths
    BY OwnsAssumption
  <2> QED  BY <1>0, <1>6, <2>1, RenameDistinct DEF Rename
<1>7. CASE tree' = tree
  BY <1>7
<1> QED  BY <1>1, <1>3, <1>4, <1>5, <1>6, <1>7, TreeSteps DEF ChangesTree

\* A location is its own prefix.
LEMMA OwnPrefix ==
  ASSUME NEW p \in Paths
  PROVE  IsPrefix(p, p)
  BY LocationFacts, PrefixSelf

\* Nobody but its owner changes what is at a path.
LEMMA OthersKeepPath ==
  ASSUME OwnsApart, TypeOK, ClientsAgree, NEW c \in Clients, NEW d \in Clients, c # d,
         ClientNext(d), NEW p \in Owns[c]
  PROVE  tree'[p] = tree[p]
<1>1. /\ \A q \in Owns[d] : ~IsPrefix(q, p) /\ ~IsPrefix(p, q)
      /\ \A q \in Owns[d] : q # p
      /\ p \in Paths /\ p \in Locations
  BY OwnPrefix, OwnsAssumption DEF OwnsApart, Locations
<1>2. CASE PutCreate(d)
  <2>1. cl[d].path \in Owns[d]
    BY <1>2 DEF PutCreate, ClientsAgree
  <2> QED  BY <1>1, <1>2, <2>1 DEF PutCreate, applyCreateFile, TypeOK
<1>3. CASE PutComplete(d)
  <2>1. cl[d].path \in Owns[d]
    BY <1>3 DEF PutComplete, ClientsAgree, StoreAgrees
  <2> QED  BY <1>1, <1>3, <2>1 DEF PutComplete, applyCompleteFile, TypeOK
<1>4. CASE DeleteCommit(d)
  <2>1. cl[d].path \in Owns[d]
    BY <1>4 DEF DeleteCommit, ClientsAgree, UnlinkAgrees
  <2> QED  BY <1>1, <1>4, <2>1 DEF DeleteCommit, applyDelete
<1>5. ASSUME NEW q \in Owns[d], Mkdir(d, q) PROVE tree'[p] = tree[p]
  BY <1>1, <1>5 DEF Mkdir, applyMkdir
<1>6. ASSUME NEW src \in Owns[d], NEW dst \in Owns[d], Rename(d, src, dst)
      PROVE  tree'[p] = tree[p]
  BY <1>1, <1>6 DEF Rename, applyRename
<1>7. CASE tree' = tree
  BY <1>7
<1>8. PutCreate(d) \/ ChangesTree(d) \/ tree' = tree
  BY DEF ClientNext, PutNext, DeleteNext, ChangesTree, PutPrepare, PutStore,
         PutStoreFails, PutUndo, DeletePrepare, CleanReplica, CleanFails,
         CommitFails, ClientStops
<1> QED  BY <1>2, <1>3, <1>4, <1>5, <1>6, <1>7, <1>8 DEF ChangesTree

-----------------------------------------------------------------------------
(* Copies                                                                  *)

\* The steps that take a file away take one that is not in the tree.
LEMMA LiveDataStays ==
  ASSUME TypeOK, Inv, ClientsAgree, [Next]_vars,
         NEW a \in Addrs, NEW f \in disk[a], f.id \in LiveIds(tree)
  PROVE  \E g \in disk'[a] : g.id = f.id
<1>1. ASSUME NEW c \in Clients, NEW r \in Replica, NEW acknowledged \in BOOLEAN,
             PutStore(c, r, acknowledged)
      PROVE  \E g \in disk'[a] : g.id = f.id
  <2> DEFINE new == [id |-> r.remote, mtime |-> now + Skew[r.addr]]
  <2>1. disk' = [disk EXCEPT ![r.addr] =
                   {x \in disk[r.addr] : x.id # r.remote} \cup {new}]
    BY <1>1 DEF PutStore, Stored
  <2>2. new.id = r.remote /\ r.addr \in Addrs
    BY DEF Replica
  <2> HIDE DEF new
  <2>3. CASE a # r.addr
    BY <2>1, <2>3 DEF TypeOK
  <2>4. CASE a = r.addr /\ f.id # r.remote
    BY <2>1, <2>2, <2>4 DEF TypeOK
  <2>5. CASE a = r.addr /\ f.id = r.remote
    BY <2>1, <2>2, <2>5 DEF TypeOK
  <2> QED  BY <2>3, <2>4, <2>5
<1>2. ASSUME NEW c \in Clients, CleanReplica(c)
      PROVE  \E g \in disk'[a] : g.id = f.id
  <2> DEFINE r == Head(cl[c].replicas)
  <2>1. cl[c] \in CleanState
    BY <1>2, ClientStates DEF CleanReplica, TypeOK
  <2>2. r \in ToSet(cl[c].replicas) /\ r \in Replica
    BY <2>1 DEF CleanState, ToSet
  <2>3. r.remote \notin LiveIds(tree)
    BY <1>2, <2>2 DEF CleanReplica, ClientsAgree, CleanAgrees
  <2> HIDE DEF r
  <2>4. disk' = [disk EXCEPT ![r.addr] = {x \in disk[r.addr] : x.id # r.remote}]
    BY <1>2 DEF CleanReplica, r
  <2> QED  BY <2>2, <2>3, <2>4 DEF TypeOK, Replica
<1>3. ASSUME NEW g \in GcRuns, NEW id \in FileIds, GcDelete(g, id)
      PROVE  \E x \in disk'[a] : x.id = f.id
  <2>1. id \notin LiveIds(tree)
    BY <1>3 DEF GcDelete, Inv, DoomedAreDead
  <2>2. disk' = [disk EXCEPT ![Head(gc[g].todo)] =
                   {x \in disk[Head(gc[g].todo)] : x.id # id}]
    BY <1>3 DEF GcDelete
  <2> QED  BY <2>1, <2>2 DEF TypeOK
<1>4. CASE disk' = disk
  BY <1>4
<1>5. ASSUME NEW c \in Clients, ClientNext(c)
      PROVE  \/ \E r \in Replica, acknowledged \in BOOLEAN : PutStore(c, r, acknowledged)
             \/ CleanReplica(c)
             \/ disk' = disk
  BY <1>5 DEF ClientNext, PutNext, DeleteNext, PutPrepare, PutCreate, PutStoreFails,
      PutComplete, PutUndo, DeletePrepare, DeleteCommit, CleanFails,
      Mkdir, Rename, CommitFails, ClientStops
<1>6. ASSUME NEW g \in GcRuns, GcNext(g)
      PROVE  (\E id \in FileIds : GcDelete(g, id)) \/ disk' = disk
  BY <1>6 DEF GcNext, GcStart, GcHealth, GcRemove, GcRemoveFails, GcCollect,
              GcNodes, GcList, GcListFails, GcDeleteFails, GcNextNode
<1>7. Tick \/ (\E b \in Addrs : Heartbeat(b) \/ Lapse(b)) \/ UNCHANGED vars
        => disk' = disk
  BY DEF Tick, Heartbeat, Lapse, vars
<1> QED  BY <1>1, <1>2, <1>3, <1>4, <1>5, <1>6, <1>7 DEF Next

\* So a file of the tree that can be read can be read after every step.
LEMMA LiveCopiesStay ==
  ASSUME TypeOK, Inv, ReplicasCarryIdentity, ClientsAgree, [Next]_vars,
         NEW p \in Locations, IsFile(tree, p), HasCopy(disk, tree[p].replicas)
  PROVE  HasCopy(disk', tree[p].replicas)
<1>1. PICK r \in ToSet(tree[p].replicas) : \E f \in disk[r.addr] : f.id = r.remote
  BY DEF HasCopy
<1>2. PICK f \in disk[r.addr] : f.id = r.remote
  BY <1>1
<1>3. r.remote = tree[p].fileID /\ r.remote \in LiveIds(tree)
  BY <1>1 DEF ReplicasCarryIdentity, LiveIds
<1>4. r \in Replica
  <2>1. tree[p] \in FileEntry
    BY DEF TypeOK, IsFile, Entry, NoEntry, Dir
  <2> QED  BY <1>1, <2>1 DEF FileEntry, ToSet
<1>5. r.addr \in Addrs
  BY <1>4 DEF Replica
<1>6. \E g \in disk'[r.addr] : g.id = f.id
  BY <1>2, <1>3, <1>5, LiveDataStays
<1> QED  BY <1>1, <1>2, <1>6 DEF HasCopy

\* A complete file was complete before the step, wherever it was, or has just
\* been completed by an upload that has stored it.
LEMMA CompleteFrom ==
  ASSUME TypeOK, ClientsAgree, [Next]_vars,
         NEW p \in Locations, IsFile(tree', p), tree'[p].status = "complete"
  PROVE  \E q \in Locations :
           /\ IsFile(tree, q) /\ tree[q].replicas = tree'[p].replicas
           /\ tree[q].status = "complete" \/ HasCopy(disk, tree[q].replicas)
<1> DEFINE Goal == \E q \in Locations :
             /\ IsFile(tree, q) /\ tree[q].replicas = tree'[p].replicas
             /\ tree[q].status = "complete" \/ HasCopy(disk, tree[q].replicas)
<1>0. ASSUME NEW q \in Locations, tree'[p] = tree[q] PROVE Goal
  BY <1>0 DEF IsFile
<1>1. ASSUME NEW c \in Clients, PutCreate(c) PROVE Goal
  <2>1. cl[c].path \in Locations
    BY <1>1, ClientStates DEF PutCreate, TypeOK, CreateState, Locations
  <2>2. tree'[p] = tree[p] \/ tree'[p].status = "pending"
    BY <1>1, <2>1 DEF PutCreate, applyCreateFile, NewFile, TypeOK
  <2> QED  BY <1>0, <2>2
<1>2. ASSUME NEW c \in Clients, PutComplete(c) PROVE Goal
  <2> DEFINE x == cl[c].path
  <2>1. x \in Locations /\ IsFile(tree, x) /\ HasCopy(disk, tree[x].replicas)
    BY <1>2, ClientStates
    DEF PutComplete, TypeOK, StoreState, Locations, ClientsAgree, StoreAgrees
  <2>2. tree[x] \in FileEntry
    BY <2>1 DEF TypeOK, IsFile, Entry, NoEntry, Dir
  <2>3. tree' = [tree EXCEPT ![x].status = "complete"]
    BY <1>2, <2>1 DEF PutComplete, CanCompleteFile, applyCompleteFile
  <2> HIDE DEF x
  <2>4. CASE p = x
    <3>1. tree'[p].replicas = tree[x].replicas
      BY <2>1, <2>2, <2>3, <2>4 DEF FileEntry, TypeOK
    <3> QED  BY <2>1, <3>1
  <2>5. CASE p # x
    BY <1>0, <2>1, <2>3, <2>5 DEF TypeOK
  <2> QED  BY <2>4, <2>5
<1>3. ASSUME NEW c \in Clients, DeleteCommit(c) PROVE Goal
  <2>1. tree'[p] = tree[p]
    BY <1>3 DEF DeleteCommit, applyDelete, IsFile, NoEntry
  <2> QED  BY <1>0, <2>1
<1>4. ASSUME NEW c \in Clients, NEW q \in Owns[c], Mkdir(c, q) PROVE Goal
  <2>1. tree'[p] = tree[p]
    BY <1>4 DEF Mkdir, applyMkdir, IsFile, Dir
  <2> QED  BY <1>0, <2>1
<1>5. ASSUME NEW c \in Clients, NEW src \in Owns[c], NEW dst \in Owns[c],
             Rename(c, src, dst)
      PROVE  Goal
  <2>1. tree'[p] = tree[p] \/ \E q \in Paths : tree'[p] = tree[q]
    BY <1>5 DEF Rename, applyRename, IsFile, NoEntry
  <2> QED  BY <1>0, <2>1 DEF Locations
<1>6. CASE tree' = tree
  BY <1>0, <1>6
<1>7. ASSUME NEW c \in Clients, ChangesTree(c) PROVE Goal
  BY <1>2, <1>3, <1>4, <1>5, <1>7 DEF ChangesTree
<1>8. (\E c \in Clients : PutCreate(c) \/ ChangesTree(c)) \/ tree' = tree
  BY TreeSteps
<1> HIDE DEF Goal
<1> QED  BY <1>1, <1>6, <1>7, <1>8 DEF Goal

\* Hence every step leaves complete files with a copy.
LEMMA NextCompleteHasCopy ==
  ASSUME TypeOK, Inv, ReplicasCarryIdentity, ClientsAgree, CompleteHasCopy, [Next]_vars
  PROVE  CompleteHasCopy'
<1> SUFFICES ASSUME NEW p \in Locations, IsFile(tree', p), tree'[p].status = "complete"
             PROVE  HasCopy(disk', tree'[p].replicas)
  BY DEF CompleteHasCopy
<1>1. PICK q \in Locations :
        /\ IsFile(tree, q) /\ tree[q].replicas = tree'[p].replicas
        /\ tree[q].status = "complete" \/ HasCopy(disk, tree[q].replicas)
  BY CompleteFrom
<1>2. HasCopy(disk, tree[q].replicas)
  BY <1>1 DEF CompleteHasCopy
<1>3. HasCopy(disk', tree[q].replicas)
  BY <1>1, <1>2, LiveCopiesStay
<1> QED  BY <1>1, <1>3

-----------------------------------------------------------------------------
(* Clients agree with their paths                                          *)

\* A client that stays where it is agrees still, while its path does.
LEMMA AgreementStays ==
  ASSUME OwnsApart, TypeOK, Inv, PlacementInv, ReplicasCarryIdentity, ClientsAgree,
         [Next]_vars, NEW c \in Clients, cl'[c] = cl[c],
         \A p \in Owns[c] : tree'[p] = tree[p]
  PROVE  /\ cl'[c].pc = "create" => cl'[c].path \in Owns[c]
         /\ StoreAgrees(c)' /\ UnlinkAgrees(c)' /\ CleanAgrees(c)'
<1>1. cl'[c].pc = "create" => cl'[c].path \in Owns[c]
  BY DEF ClientsAgree
<1>2. StoreAgrees(c)'
  <2>1. SUFFICES ASSUME cl[c].pc = "store" PROVE StoreAgrees(c)'
    BY DEF StoreAgrees
  <2>2. /\ cl[c].path \in Owns[c] /\ cl[c].path \in Locations
        /\ IsFile(tree, cl[c].path) /\ tree[cl[c].path].fileID = cl[c].id
        /\ cl[c].todo \subseteq ToSet(tree[cl[c].path].replicas)
        /\ cl[c].ok => HasCopy(disk, tree[cl[c].path].replicas)
    BY <2>1, OwnsAssumption DEF ClientsAgree, StoreAgrees, Locations
  <2>3. cl[c].ok => HasCopy(disk', tree[cl[c].path].replicas)
    BY <2>2, LiveCopiesStay
  <2>4. tree'[cl[c].path] = tree[cl[c].path]
    BY <2>2
  <2> QED  BY <2>2, <2>3, <2>4 DEF StoreAgrees, IsFile
<1>3. UnlinkAgrees(c)'
  BY DEF ClientsAgree, UnlinkAgrees, IsFile
<1>4. CleanAgrees(c)'
  BY DeadStayDead DEF ClientsAgree, CleanAgrees
<1> QED  BY <1>1, <1>2, <1>3, <1>4

\* A lookup agrees with the path looked up.
LEMMA LookupAgrees ==
  ASSUME TypeOK, NEW c \in Clients, NEW p \in Owns[c], tree' = tree,
         cl' = [cl EXCEPT ![c] = LookedUp(p)]
  PROVE  /\ cl'[c].pc \notin {"create", "store", "clean"}
         /\ UnlinkAgrees(c)'
<1>1. cl'[c] = LookedUp(p)
  BY DEF TypeOK
<1>2. CASE Exists(tree, p)
  BY <1>1, <1>2 DEF LookedUp, UnlinkAgrees, IsFile
<1>3. CASE ~Exists(tree, p)
  BY <1>1, <1>3 DEF LookedUp, UnlinkAgrees, Idle
<1> QED  BY <1>2, <1>3

\* The command of an upload leaves a file of its own, which nobody has stored.
LEMMA PutCreateAgrees ==
  ASSUME NoOverwrites, TypeOK, ClientsAgree, NEW c \in Clients, PutCreate(c)
  PROVE  StoreAgrees(c)' /\ cl'[c].pc \notin {"create", "unlink", "clean"}
<1> DEFINE u == cl[c]
           s == [pc |-> "store", path |-> u.path, id |-> u.id,
                 todo |-> ToSet(u.replicas), ok |-> FALSE]
<1>1. u \in CreateState /\ u.path \in Owns[c]
  BY ClientStates DEF PutCreate, TypeOK, ClientsAgree
<1>2. u.path \in Locations /\ u.mode # "OverwriteIfExists"
  BY <1>1 DEF CreateState, Locations, NoOverwrites
<1>3. CASE /\ CanCreateFile(tree, u.path, u.mode)
           /\ tree' = applyCreateFile(tree, u.path, u.id, u.size, u.replicas)
           /\ cl' = [cl EXCEPT ![c] = s]
  <2>1. cl'[c] = s
    BY <1>3 DEF TypeOK
  <2>2. /\ s.pc = "store" /\ s.path = u.path /\ s.id = u.id /\ s.ok = FALSE
        /\ s.todo = ToSet(u.replicas)
    OBVIOUS
  <2> HIDE DEF u, s
  <2>3. tree'[u.path] = NewFile(u.id, u.size, u.replicas)
    BY <1>2, <1>3 DEF CanCreateFile, applyCreateFile, TypeOK
  <2>4. /\ IsFile(tree', u.path) /\ tree'[u.path].fileID = u.id
        /\ tree'[u.path].replicas = u.replicas
    BY <2>3 DEF NewFile, IsFile
  <2> QED  BY <1>1, <2>1, <2>2, <2>4 DEF StoreAgrees
<1>4. CASE cl' = [cl EXCEPT ![c] = Idle]
  BY <1>4 DEF TypeOK, Idle, StoreAgrees
<1> QED  BY <1>3, <1>4 DEF PutCreate

\* A StoreData call that is acknowledged has made a copy.
LEMMA PutStoreAgrees ==
  ASSUME TypeOK, Inv, ReplicasCarryIdentity, ClientsAgree, NEW c \in Clients,
         NEW r \in Replica,
         PutStoreFails(c, r) \/ \E acknowledged \in BOOLEAN : PutStore(c, r, acknowledged),
         [Next]_vars
  PROVE  StoreAgrees(c)' /\ cl'[c].pc = "store"
<1> DEFINE u == cl[c]
           x == u.path
<1>1. u \in StoreState /\ u.pc = "store" /\ r \in u.todo /\ tree' = tree
  BY ClientStates DEF PutStore, PutStoreFails, TypeOK
<1>2. /\ x \in Owns[c] /\ x \in Locations /\ IsFile(tree, x) /\ tree[x].fileID = u.id
      /\ r \in ToSet(tree[x].replicas) /\ u.todo \subseteq ToSet(tree[x].replicas)
      /\ u.ok => HasCopy(disk, tree[x].replicas)
  BY <1>1, OwnsAssumption DEF ClientsAgree, StoreAgrees, Locations
<1>3. /\ cl'[c].pc = "store" /\ cl'[c].path = x /\ cl'[c].id = u.id
      /\ cl'[c].todo \subseteq u.todo
  BY <1>1 DEF PutStore, PutStoreFails, TypeOK, StoreState
<1>4. u.ok => HasCopy(disk', tree[x].replicas)
  <2> HIDE DEF x
  <2> QED  BY <1>2, LiveCopiesStay
<1>5. ASSUME cl'[c].ok, ~u.ok PROVE HasCopy(disk', tree[x].replicas)
  <2>1. PICK ok \in BOOLEAN : PutStore(c, r, ok)
    BY <1>1, <1>5 DEF PutStoreFails, TypeOK, StoreState
  <2>2. r.addr \in Addrs
    BY DEF Replica
  <2>3. [id |-> r.remote, mtime |-> now + Skew[r.addr]] \in Stored(r.addr, r.remote)
    BY DEF Stored
  <2>4. disk'[r.addr] = Stored(r.addr, r.remote)
    BY <2>1, <2>2 DEF PutStore, TypeOK
  <2> QED  BY <1>2, <2>3, <2>4 DEF HasCopy
<1> HIDE DEF u, x
<1> QED  BY <1>1, <1>2, <1>3, <1>4, <1>5 DEF StoreAgrees

\* What a client is told to delete has left the tree with its only entry.
LEMMA DeleteCommitAgrees ==
  ASSUME TypeOK, Inv, ReplicasCarryIdentity, Distinct(tree), ClientsAgree,
         NEW c \in Clients, DeleteCommit(c), [Next]_vars, PlacementInv
  PROVE  CleanAgrees(c)' /\ cl'[c].pc \notin {"create", "store", "unlink"}
<1> DEFINE u == cl[c]
           x == u.path
<1>1. x \in Paths /\ x \in Locations /\ x \in Owns[c]
      /\ u.replicas = IF IsFile(tree, x) THEN tree[x].replicas ELSE <<>>
  BY OwnsAssumption DEF DeleteCommit, ClientsAgree, UnlinkAgrees, Locations
<1>2. CASE cl' = [cl EXCEPT ![c] = Idle]
  BY <1>2 DEF TypeOK, Idle, CleanAgrees
<1>3. CASE /\ tree' = applyDelete(tree, x) /\ u.replicas # <<>>
           /\ cl' = [cl EXCEPT ![c] = [pc |-> "clean", replicas |-> u.replicas]]
  <2>1. cl'[c].pc = "clean" /\ cl'[c].replicas = u.replicas
    BY <1>3 DEF TypeOK
  <2>2. IsFile(tree, x) /\ u.replicas = tree[x].replicas
    BY <1>1, <1>3
  <2>3. \A r \in ToSet(u.replicas) : r.remote = tree[x].fileID
    BY <1>1, <2>2 DEF ReplicasCarryIdentity
  <2>4. tree[x].fileID \in LiveIds(tree) /\ tree[x].fileID \in Spent
    BY <1>1, <2>2 DEF LiveIds, Inv, DataFollowsMetadata
  <2>5. UNCHANGED issued /\ cl[c].pc = "unlink"
    BY DEF DeleteCommit
  <2>6. Spent' = Spent
    <3> DEFINE s == [pc |-> "clean", replicas |-> u.replicas]
    <3>1. s.pc # "create" /\ cl' = [cl EXCEPT ![c] = s]
      BY <1>3
    <3> HIDE DEF s
    <3> QED  BY <2>5, <3>1, GoingOnSpends
  <2>7. tree[x].fileID \notin LiveIds(tree')
    <3>1. IsPrefix(x, x)
      BY <1>1, OwnPrefix
    <3>2. \A q \in Locations : IsFile(tree', q) =>
            IsFile(tree, q) /\ tree'[q].fileID = tree[q].fileID /\ q # x
      BY <1>3, <3>1 DEF applyDelete, IsFile, NoEntry
    <3> HIDE DEF x
    <3> QED  BY <1>1, <2>2, <3>2 DEF LiveIds, Distinct
  <2> HIDE DEF u, x
  <2> QED  BY <2>1, <2>3, <2>4, <2>6, <2>7 DEF CleanAgrees
<1> QED  BY <1>2, <1>3 DEF DeleteCommit

\* The client that deletes copies goes on with those that are left.
LEMMA CleaningAgrees ==
  ASSUME TypeOK, Inv, PlacementInv, ClientsAgree, NEW c \in Clients,
         CleanReplica(c) \/ CleanFails(c), [Next]_vars
  PROVE  CleanAgrees(c)' /\ cl'[c].pc \notin {"create", "store", "unlink"}
<1>1. cl[c] \in CleanState /\ cl[c].pc = "clean" /\ cl' = Cleaned(c)
  BY ClientStates DEF CleanReplica, CleanFails, TypeOK
<1>2. cl[c].replicas \in Seq(Replica) /\ cl[c].replicas # <<>>
  BY <1>1 DEF CleanState
<1>3. ToSet(Tail(cl[c].replicas)) \subseteq ToSet(cl[c].replicas)
  BY <1>2 DEF ToSet
<1>4. \A r \in ToSet(cl[c].replicas) : r.remote \in Spent' /\ r.remote \notin LiveIds(tree')
  BY <1>1, DeadStayDead DEF ClientsAgree, CleanAgrees
<1>5. \/ cl'[c].pc = "clean" /\ cl'[c].replicas = Tail(cl[c].replicas)
      \/ cl'[c] = Idle
  BY <1>1 DEF Cleaned, TypeOK
<1> QED  BY <1>3, <1>4, <1>5 DEF CleanAgrees, Idle

\* After a client's own step it agrees with its path.
LEMMA OwnStepAgrees ==
  ASSUME OwnsApart, NoOverwrites, TypeOK, Inv, PlacementInv, ReplicasCarryIdentity,
         Distinct(tree), ClientsAgree, NEW c \in Clients, ClientNext(c)
  PROVE  /\ cl'[c].pc = "create" => cl'[c].path \in Owns[c]
         /\ StoreAgrees(c)' /\ UnlinkAgrees(c)' /\ CleanAgrees(c)'
<1> DEFINE Goal == /\ cl'[c].pc = "create" => cl'[c].path \in Owns[c]
                   /\ StoreAgrees(c)' /\ UnlinkAgrees(c)' /\ CleanAgrees(c)'
<1>0. [Next]_vars
  BY DEF Next
<1>a. /\ cl'[c].pc # "store" => StoreAgrees(c)'
      /\ cl'[c].pc # "unlink" => UnlinkAgrees(c)'
      /\ cl'[c].pc # "clean" => CleanAgrees(c)'
  BY DEF StoreAgrees, UnlinkAgrees, CleanAgrees
<1>b. ASSUME cl'[c] = Idle PROVE Goal
  BY <1>a, <1>b DEF Idle
<1>1. ASSUME NEW p \in Owns[c], NEW mode \in Modes, NEW id \in FileIds, NEW size \in Sizes,
             PutPrepare(c, p, mode, id, size)
      PROVE  Goal
  <2>1. cl'[c].pc = "create" /\ cl'[c].path = p
    BY <1>1 DEF PutPrepare, TypeOK
  <2> QED  BY <1>a, <2>1
<1>2. CASE PutCreate(c)
  BY <1>a, <1>2, PutCreateAgrees
<1>3. ASSUME NEW r \in Replica,
             \/ PutStoreFails(c, r)
             \/ \E acknowledged \in BOOLEAN : PutStore(c, r, acknowledged)
      PROVE  Goal
  BY <1>0, <1>a, <1>3, PutStoreAgrees
<1>4. CASE PutComplete(c) \/ CommitFails(c) \/ ClientStops(c)
  <2>1. cl'[c] = Idle
    BY <1>4 DEF PutComplete, CommitFails, ClientStops, TypeOK
  <2> QED  BY <1>b, <2>1
<1>5. CASE PutUndo(c)
  <2>1. cl[c].path \in Owns[c]
    BY <1>5 DEF PutUndo, ClientsAgree, StoreAgrees
  <2>2. cl' = [cl EXCEPT ![c] = LookedUp(cl[c].path)] /\ tree' = tree
    BY <1>5 DEF PutUndo
  <2> QED  BY <1>a, <2>1, <2>2, LookupAgrees
<1>6. ASSUME NEW p \in Owns[c], DeletePrepare(c, p) PROVE Goal
  <2>1. cl' = [cl EXCEPT ![c] = LookedUp(p)] /\ tree' = tree
    BY <1>6 DEF DeletePrepare
  <2> QED  BY <1>a, <2>1, LookupAgrees
<1>7. CASE DeleteCommit(c)
  BY <1>0, <1>a, <1>7, DeleteCommitAgrees
<1>8. CASE CleanReplica(c) \/ CleanFails(c)
  BY <1>0, <1>a, <1>8, CleaningAgrees
<1>9. CASE \/ \E p \in Owns[c] : Mkdir(c, p)
           \/ \E src, dst \in Owns[c] : Rename(c, src, dst)
  <2>1. cl'[c] = Idle
    BY <1>9 DEF Mkdir, Rename
  <2> QED  BY <1>b, <2>1
<1> HIDE DEF Goal
<1> QED
  BY <1>1, <1>2, <1>3, <1>4, <1>5, <1>6, <1>7, <1>8, <1>9
     DEF Goal, ClientNext, PutNext, DeleteNext

\* Every step keeps clients and paths in agreement.
LEMMA NextClientsAgree ==
  ASSUME OwnsApart, NoOverwrites, TypeOK, Inv, PlacementInv, ReplicasCarryIdentity,
         Distinct(tree), ClientsAgree, [Next]_vars
  PROVE  ClientsAgree'
<1> SUFFICES ASSUME NEW c \in Clients
             PROVE  /\ cl'[c].pc = "create" => cl'[c].path \in Owns[c]
                    /\ StoreAgrees(c)' /\ UnlinkAgrees(c)' /\ CleanAgrees(c)'
  BY DEF ClientsAgree
<1>1. CASE ClientNext(c)
  BY <1>1, OwnStepAgrees
<1>2. ASSUME NEW d \in Clients, ClientNext(d), d # c
      PROVE  cl'[c] = cl[c] /\ \A p \in Owns[c] : tree'[p] = tree[p]
  <2>1. cl'[c] = cl[c]
    <3>1. CASE \E p \in Paths, mode \in Modes, id \in FileIds, size \in Sizes :
                 PutPrepare(d, p, mode, id, size)
      BY <1>2, <3>1 DEF PutPrepare
    <3>2. ASSUME NEW s, cl' = [cl EXCEPT ![d] = s] PROVE cl'[c] = cl[c]
      BY <1>2, <3>2 DEF TypeOK
    <3> QED  BY <1>2, <3>1, <3>2, ClientMoves
  <2> QED  BY <1>2, <2>1, OthersKeepPath
<1>3. CASE UNCHANGED <<tree, issued, cl>>
  BY <1>3, AgreementStays
<1> QED  BY <1>1, <1>2, <1>3, AgreementStays, OthersLeaveClients

-----------------------------------------------------------------------------
(* The theorems                                                            *)

\* Clocks agree with the server's, uploads create new files, and every client
\* has paths of its own: what the theorem below assumes.
PrivatePaths == ClocksAgree /\ NoOverwrites /\ OwnsApart

\* The inductive invariant: the tree is one in which a FileID names one file,
\* clients at work know what is at their paths, and complete files have data.
UploadInv == Distinct(tree) /\ ClientsAgree /\ CompleteHasCopy

\* A new store has no clients at work and no files.
LEMMA InitUpload == Init => UploadInv
<1> SUFFICES ASSUME Init PROVE UploadInv
  OBVIOUS
<1>1. \A p \in Locations : ~IsFile(tree, p)
  BY DEF Init, EmptyTree, IsFile, Dir, NoEntry
<1>2. \A c \in Clients : cl[c].pc = "idle"
  BY DEF Init, Idle
<1> QED
  BY <1>1, <1>2 DEF UploadInv, Distinct, ClientsAgree, StoreAgrees, UnlinkAgrees,
     CleanAgrees, CompleteHasCopy

\* The invariant is inductive, given those of all stores.
LEMMA NextUpload ==
  ASSUME PrivatePaths
  PROVE  TypeOK /\ Inv /\ PlacementInv /\ ReplicasCarryIdentity /\ UploadInv /\ [Next]_vars
           => UploadInv'
  BY NextDistinct, NextClientsAgree, NextCompleteHasCopy
     DEF PrivatePaths, UploadInv

\* What a step of such a store may rely on.
LEMMA UploadsKept ==
  ASSUME PrivatePaths
  PROVE  Spec => [](TypeOK /\ Inv /\ PlacementInv /\ ReplicasCarryIdentity /\ UploadInv)
<1>1. Init => ReplicasCarryIdentity
  BY DEF Init, EmptyTree, ReplicasCarryIdentity, IsFile, NoEntry, Dir
<1>2. TypeOK /\ Inv /\ ReplicasCarryIdentity /\ [Next]_vars => ReplicasCarryIdentity'
  BY NextIdentity DEF PrivatePaths
<1>3. Spec => []Inv
  BY InvHolds DEF PrivatePaths
<1>4. TypeOK /\ Inv /\ PlacementInv /\ ReplicasCarryIdentity /\ UploadInv /\ [Next]_vars
        => UploadInv'
  BY NextUpload
<1> QED
  BY <1>1, <1>2, <1>3, <1>4, InitUpload, InitPlacement, NextPlacement, TypeCorrect, PTL
     DEF Spec

\* Of clients that keep to paths of their own and overwrite nothing, every
\* file marked complete has a copy on one of its nodes: no failed store, lost
\* answer, crash, unlink or round of the collector takes the last one.
THEOREM CompleteFilesReadable ==
  ASSUME PrivatePaths
  PROVE  Spec => []CompleteIsReadable
<1>1. UploadInv => CompleteIsReadable
  BY DEF UploadInv, CompleteHasCopy, CompleteIsReadable, HasCopy, Locations
<1>2. Spec => [](TypeOK /\ Inv /\ PlacementInv /\ ReplicasCarryIdentity /\ UploadInv)
  BY UploadsKept
<1> QED  BY <1>1, <1>2, PTL

=============================================================================
