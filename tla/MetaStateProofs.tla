--------------------------- MODULE MetaStateProofs ---------------------------
(***************************************************************************)
(* What the operations of Apply do to the types and to the set of live     *)
(* identities, whatever the paths, the identities and the tree.            *)
(***************************************************************************)
EXTENDS MetaState, TLAPS

-----------------------------------------------------------------------------
(* Every operation leaves a tree of entries.                               *)

\* The tree of a new server is a tree.
LEMMA EmptyTreeType == EmptyTree \in [Locations -> Entry]
  BY DEF EmptyTree, Entry

\* mkdir -p leaves a tree.
LEMMA MkdirType ==
  ASSUME NEW tree \in [Locations -> Entry], NEW p
  PROVE  applyMkdir(tree, p) \in [Locations -> Entry]
  BY DEF applyMkdir, Entry

\* A new or replaced file leaves a tree.
LEMMA CreateFileType ==
  ASSUME NEW tree \in [Locations -> Entry], NEW p \in Locations,
         NEW id \in FileIds, NEW size \in Sizes, NEW replicas \in Seq(Replica)
  PROVE  applyCreateFile(tree, p, id, size, replicas) \in [Locations -> Entry]
<1>1. IsFile(tree, p) => tree[p].fileID \in FileIds
  BY DEF IsFile, Entry, FileEntry, NoEntry, Dir
<1>2. (IF IsFile(tree, p) THEN tree[p].fileID ELSE id) \in FileIds
  BY <1>1
<1>3. NewFile(IF IsFile(tree, p) THEN tree[p].fileID ELSE id, size, replicas) \in Entry
  BY <1>2 DEF NewFile, Entry, FileEntry
<1> QED  BY <1>3 DEF applyCreateFile

\* Completing a file leaves a tree.
LEMMA CompleteFileType ==
  ASSUME NEW tree \in [Locations -> Entry], NEW p \in Locations,
         CanCompleteFile(tree, p)
  PROVE  applyCompleteFile(tree, p) \in [Locations -> Entry]
<1>1. tree[p] \in FileEntry
  BY DEF CanCompleteFile, IsFile, Entry, NoEntry, Dir
<1>2. [tree[p] EXCEPT !.status = "complete"] \in FileEntry
  BY <1>1 DEF FileEntry
<1> QED  BY <1>2 DEF applyCompleteFile, Entry

\* Changing a size leaves a tree.
LEMMA UpdateSizeType ==
  ASSUME NEW tree \in [Locations -> Entry], NEW p \in Locations,
         NEW size \in Sizes, CanUpdateSize(tree, p)
  PROVE  applyUpdateSize(tree, p, size) \in [Locations -> Entry]
<1>1. tree[p] \in FileEntry
  BY DEF CanUpdateSize, IsFile, Entry, NoEntry, Dir
<1>2. [tree[p] EXCEPT !.size = size] \in FileEntry
  BY <1>1 DEF FileEntry
<1> QED  BY <1>2 DEF applyUpdateSize, Entry

\* An unlink leaves a tree.
LEMMA DeleteType ==
  ASSUME NEW tree \in [Locations -> Entry], NEW p
  PROVE  applyDelete(tree, p) \in [Locations -> Entry]
  BY DEF applyDelete, Entry

\* A rename leaves a tree.
LEMMA RenameType ==
  ASSUME NEW tree \in [Locations -> Entry], NEW src, NEW dst
  PROVE  applyRename(tree, src, dst) \in [Locations -> Entry]
  BY DEF applyRename, Entry, Locations

-----------------------------------------------------------------------------
(* Only the making of a file brings an identity, or replicas, into a tree.  *)

\* Each file of tree2 is one of tree, but for its path, its status and its size.
FilesFrom(tree2, tree) ==
  \A p \in Locations : IsFile(tree2, p) =>
    \E q \in Locations : /\ IsFile(tree, q)
                         /\ tree2[p].fileID = tree[q].fileID
                         /\ tree2[p].replicas = tree[q].replicas

\* The identities in a tree are FileIDs.
LEMMA LiveIdsType ==
  ASSUME NEW tree \in [Locations -> Entry]
  PROVE  LiveIds(tree) \subseteq FileIds
  BY DEF LiveIds, IsFile, Entry, FileEntry, NoEntry, Dir

\* The tree of a new server has no files.
LEMMA EmptyTreeLiveIds == LiveIds(EmptyTree) = {}
  BY DEF LiveIds, EmptyTree, IsFile, NoEntry, Dir

\* A tree made of another's files has no identity of its own.
LEMMA FilesFromLiveIds ==
  ASSUME NEW tree, NEW tree2, FilesFrom(tree2, tree)
  PROVE  LiveIds(tree2) \subseteq LiveIds(tree)
  BY DEF LiveIds, FilesFrom

\* mkdir -p makes no file: what was there stays what it was.
LEMMA MkdirFiles ==
  ASSUME NEW tree \in [Locations -> Entry], NEW p
  PROVE  FilesFrom(applyMkdir(tree, p), tree)
<1>1. \A q \in Locations : IsFile(applyMkdir(tree, p), q) =>
         /\ IsFile(tree, q)
         /\ applyMkdir(tree, p)[q].fileID = tree[q].fileID
         /\ applyMkdir(tree, p)[q].replicas = tree[q].replicas
  BY DEF applyMkdir, IsFile, Dir
<1> QED  BY <1>1 DEF FilesFrom

\* A create brings in at most the identity it was given.
LEMMA CreateFileLiveIds ==
  ASSUME NEW tree \in [Locations -> Entry], NEW p \in Locations,
         NEW id, NEW size, NEW replicas
  PROVE  LiveIds(applyCreateFile(tree, p, id, size, replicas))
           \subseteq LiveIds(tree) \cup {id}
  BY DEF applyCreateFile, LiveIds, IsFile, NewFile

\* Completing a file brings in neither identities nor replicas.
LEMMA CompleteFileFiles ==
  ASSUME NEW tree \in [Locations -> Entry], NEW p \in Locations,
         CanCompleteFile(tree, p)
  PROVE  FilesFrom(applyCompleteFile(tree, p), tree)
<1>1. tree[p] \in FileEntry
  BY DEF CanCompleteFile, IsFile, Entry, NoEntry, Dir
<1>2. \A q \in Locations : IsFile(applyCompleteFile(tree, p), q) =>
         /\ IsFile(tree, q)
         /\ applyCompleteFile(tree, p)[q].fileID = tree[q].fileID
         /\ applyCompleteFile(tree, p)[q].replicas = tree[q].replicas
  BY <1>1 DEF applyCompleteFile, IsFile, FileEntry
<1> QED  BY <1>2 DEF FilesFrom

\* Nor does changing a size.
LEMMA UpdateSizeFiles ==
  ASSUME NEW tree \in [Locations -> Entry], NEW p \in Locations, NEW size,
         CanUpdateSize(tree, p)
  PROVE  FilesFrom(applyUpdateSize(tree, p, size), tree)
<1>1. tree[p] \in FileEntry
  BY DEF CanUpdateSize, IsFile, Entry, NoEntry, Dir
<1>2. \A q \in Locations : IsFile(applyUpdateSize(tree, p, size), q) =>
         /\ IsFile(tree, q)
         /\ applyUpdateSize(tree, p, size)[q].fileID = tree[q].fileID
         /\ applyUpdateSize(tree, p, size)[q].replicas = tree[q].replicas
  BY <1>1 DEF applyUpdateSize, IsFile, FileEntry
<1> QED  BY <1>2 DEF FilesFrom

\* Nor an unlink.
LEMMA DeleteFiles ==
  ASSUME NEW tree \in [Locations -> Entry], NEW p
  PROVE  FilesFrom(applyDelete(tree, p), tree)
<1>1. \A q \in Locations : IsFile(applyDelete(tree, p), q) =>
         /\ IsFile(tree, q)
         /\ applyDelete(tree, p)[q].fileID = tree[q].fileID
         /\ applyDelete(tree, p)[q].replicas = tree[q].replicas
  BY DEF applyDelete, IsFile, NoEntry
<1> QED  BY <1>1 DEF FilesFrom

\* Nor a rename.
LEMMA RenameFiles ==
  ASSUME NEW tree \in [Locations -> Entry], NEW src, NEW dst
  PROVE  FilesFrom(applyRename(tree, src, dst), tree)
<1> DEFINE moved == applyRename(tree, src, dst)
<1>1. ASSUME NEW q \in Locations, IsFile(moved, q)
      PROVE  \E r \in Locations : /\ IsFile(tree, r)
                                 /\ moved[q].fileID = tree[r].fileID
                                 /\ moved[q].replicas = tree[r].replicas
  <2>1. CASE IsPrefix(dst, q)
    <3>1. /\ MovedFrom(src, dst, q) \in Paths
          /\ moved[q] = tree[MovedFrom(src, dst, q)]
      BY <1>1, <2>1 DEF applyRename, IsFile, NoEntry
    <3> QED  BY <1>1, <3>1 DEF IsFile, Locations
  <2>2. CASE ~IsPrefix(dst, q)
    <3>1. moved[q] = tree[q]
      BY <1>1, <2>2 DEF applyRename, IsFile, NoEntry
    <3> QED  BY <1>1, <3>1 DEF IsFile
  <2> QED  BY <2>1, <2>2
<1> QED  BY <1>1 DEF FilesFrom

-----------------------------------------------------------------------------
(* Membership and placement                                                *)

\* A heartbeat leaves a list of nodes.
LEMMA HeartbeatType ==
  ASSUME NEW nodes \in Seq(Addrs), NEW a \in Addrs
  PROVE  applyHeartbeat(nodes, a) \in Seq(Addrs)
  BY DEF applyHeartbeat

\* So does a removal.
LEMMA RemoveDataNodeType ==
  ASSUME NEW nodes \in Seq(Addrs), NEW a
  PROVE  applyRemoveDataNode(nodes, a) \in Seq(Addrs)
<1>1. ASSUME NEW i \in DOMAIN nodes
      PROVE  RemoveAt(nodes, i) \in Seq(Addrs)
  <2>1. SubSeq(nodes, 1, i - 1) \in Seq(Addrs)
    BY <1>1
  <2>2. SubSeq(nodes, i + 1, Len(nodes)) \in Seq(Addrs)
    BY <1>1
  <2> QED  BY <2>1, <2>2 DEF RemoveAt
<1>2. CASE a \in ToSet(nodes)
  <2>1. \E i \in DOMAIN nodes : nodes[i] = a
    BY <1>2 DEF ToSet
  <2>2. (CHOOSE i \in DOMAIN nodes : nodes[i] = a) \in DOMAIN nodes
    BY <2>1
  <2> QED  BY <1>1, <1>2, <2>2 DEF applyRemoveDataNode
<1> QED  BY <1>2 DEF applyRemoveDataNode

\* The replicas of a file are on registered nodes, all under its own identity.
LEMMA SelectDataNodesType ==
  ASSUME NEW nodes \in Seq(Addrs), nodes # <<>>, NEW p \in Paths, NEW id \in FileIds
  PROVE  /\ selectDataNodes(nodes, p, id) \in Seq(Replica)
         /\ \A r \in ToSet(selectDataNodes(nodes, p, id)) : r.remote = id
<1> DEFINE n == IF replicaCount > Len(nodes) THEN Len(nodes) ELSE replicaCount
           start == Hash[p] % Len(nodes)
           at(i) == ((start + i - 1) % Len(nodes)) + 1
           chosen == [i \in 1..n |-> [addr |-> nodes[at(i)], remote |-> id]]
<1>1. Len(nodes) \in Nat \ {0} /\ n \in Nat
  BY ReplicaAssumption
<1>2. start \in Nat
  BY <1>1, HashAssumption
<1>3. \A i \in 1..n : at(i) \in 1..Len(nodes)
  BY <1>1, <1>2
<1>4. \A i \in 1..n : chosen[i] \in Replica /\ chosen[i].remote = id
  BY <1>3 DEF Replica
<1>5. chosen \in Seq(Replica) /\ Len(chosen) = n
  <2> HIDE DEF n, at
  <2>1. chosen \in [1..n -> Replica]
    BY <1>4
  <2> HIDE DEF chosen
  <2> QED  BY <1>1, <2>1
<1> QED  BY <1>4, <1>5 DEF selectDataNodes, ToSet

\* An injective sequence without one of its elements.
LEMMA RemoveAtElements ==
  ASSUME NEW S, NEW t \in Seq(S), IsInjective(t), NEW i \in DOMAIN t
  PROVE  /\ ToSet(RemoveAt(t, i)) = ToSet(t) \ {t[i]}
         /\ IsInjective(RemoveAt(t, i))
<1> DEFINE r == RemoveAt(t, i)
<1>1. i \in 1..Len(t) /\ Len(t) \in Nat
  OBVIOUS
<1> DEFINE front == SubSeq(t, 1, i - 1)
           rest == SubSeq(t, i + 1, Len(t))
           origin(j) == IF j < i THEN j ELSE j + 1
<1>2. /\ front \in Seq(S) /\ Len(front) = i - 1
      /\ \A j \in 1..(i - 1) : front[j] = t[j]
  BY <1>1
<1>3. /\ rest \in Seq(S) /\ Len(rest) = Len(t) - i
      /\ \A j \in 1..(Len(t) - i) : rest[j] = t[i + j]
  BY <1>1
<1>4. r = front \o rest
  BY DEF RemoveAt
<1> HIDE DEF r, front, rest
<1>5. /\ r \in Seq(S) /\ Len(r) = Len(t) - 1 /\ DOMAIN r = 1..(Len(t) - 1)
      /\ \A j \in 1..(Len(t) - 1) : r[j] = t[origin(j)]
  <2>1. r \in Seq(S) /\ Len(r) = Len(t) - 1
    BY <1>1, <1>2, <1>3, <1>4
  <2>2. ASSUME NEW j \in 1..(Len(t) - 1), j < i PROVE r[j] = t[j]
    BY <1>1, <1>2, <1>3, <1>4, <2>2
  <2>3. ASSUME NEW j \in 1..(Len(t) - 1), j >= i PROVE r[j] = t[j + 1]
    <3>1. j \in Len(front) + 1 .. Len(front) + Len(rest)
      BY <1>1, <1>2, <1>3, <2>3
    <3>2. ASSUME NEW f \in Seq(S), NEW g \in Seq(S), NEW k \in Len(f) + 1 .. Len(f) + Len(g)
          PROVE  (f \o g)[k] = g[k - Len(f)]
      OBVIOUS
    <3>3. r[j] = rest[j - (i - 1)]
      BY <1>2, <1>3, <1>4, <3>1, <3>2
    <3>4. j - (i - 1) \in 1..(Len(t) - i) /\ i + (j - (i - 1)) = j + 1
      BY <1>1, <2>3
    <3> QED  BY <1>3, <3>3, <3>4
  <2> QED  BY <1>1, <2>1, <2>2, <2>3
<1>6. /\ \A j \in 1..(Len(t) - 1) : origin(j) \in 1..Len(t) /\ origin(j) # i
      /\ \A j, k \in 1..(Len(t) - 1) : origin(j) = origin(k) => j = k
      /\ \A k \in 1..Len(t) : k # i => \E j \in 1..(Len(t) - 1) : origin(j) = k
  <2>1. ASSUME NEW k \in 1..Len(t), k # i
        PROVE  \E j \in 1..(Len(t) - 1) : origin(j) = k
    <3>1. CASE k < i
      BY <1>1, <3>1
    <3>2. CASE k > i
      <4>1. k - 1 \in 1..(Len(t) - 1) /\ origin(k - 1) = k
        BY <1>1, <3>2
      <4> QED  BY <4>1
    <3> QED  BY <1>1, <2>1, <3>1, <3>2
  <2> QED  BY <1>1, <2>1
<1> HIDE DEF origin
<1>7. \A j, k \in 1..Len(t) : t[j] = t[k] => j = k
  BY <1>1 DEF IsInjective
<1>8. \A j, k \in 1..(Len(t) - 1) : r[j] = r[k] => j = k
  BY <1>5, <1>6, <1>7
<1>9. IsInjective(r)
  BY <1>5, <1>8 DEF IsInjective
<1>10. ToSet(r) = ToSet(t) \ {t[i]}
  <2>1. ASSUME NEW x \in ToSet(r) PROVE x \in ToSet(t) /\ x # t[i]
    <3>1. PICK j \in 1..(Len(t) - 1) : x = r[j]
      BY <1>5 DEF ToSet
    <3>2. origin(j) \in 1..Len(t) /\ origin(j) # i /\ x = t[origin(j)]
      BY <1>5, <1>6, <3>1
    <3> QED  BY <1>1, <1>7, <3>2 DEF ToSet
  <2>2. ASSUME NEW x \in ToSet(t), x # t[i] PROVE x \in ToSet(r)
    <3>1. PICK k \in 1..Len(t) : x = t[k] /\ k # i
      BY <2>2 DEF ToSet
    <3>2. PICK j \in 1..(Len(t) - 1) : origin(j) = k
      BY <1>6, <3>1
    <3> QED  BY <1>5, <3>1, <3>2 DEF ToSet
  <2> QED  BY <2>1, <2>2
<1> QED  BY <1>9, <1>10 DEF r

\* An injective sequence with another element.
LEMMA AppendElements ==
  ASSUME NEW S, NEW t \in Seq(S), IsInjective(t), NEW x \in S, x \notin ToSet(t)
  PROVE  /\ ToSet(Append(t, x)) = ToSet(t) \cup {x}
         /\ IsInjective(Append(t, x))
<1>1. /\ DOMAIN Append(t, x) = DOMAIN t \cup {Len(t) + 1}
      /\ \A i \in DOMAIN t : Append(t, x)[i] = t[i] /\ i # Len(t) + 1
      /\ Append(t, x)[Len(t) + 1] = x
  OBVIOUS
<1>2. \A i \in DOMAIN t : t[i] # x
  BY DEF ToSet
<1> QED  BY <1>1, <1>2 DEF ToSet, IsInjective

\* A heartbeat adds its node and leaves the list without repetitions.
LEMMA HeartbeatMembers ==
  ASSUME NEW nodes \in Seq(Addrs), IsInjective(nodes), NEW a \in Addrs
  PROVE  /\ ToSet(applyHeartbeat(nodes, a)) = ToSet(nodes) \cup {a}
         /\ IsInjective(applyHeartbeat(nodes, a))
  BY AppendElements DEF applyHeartbeat

\* A removal takes its node out, and no other.
LEMMA RemoveDataNodeMembers ==
  ASSUME NEW nodes \in Seq(Addrs), IsInjective(nodes), NEW a
  PROVE  /\ ToSet(applyRemoveDataNode(nodes, a)) = ToSet(nodes) \ {a}
         /\ IsInjective(applyRemoveDataNode(nodes, a))
<1>1. CASE a \notin ToSet(nodes)
  BY <1>1 DEF applyRemoveDataNode
<1>2. CASE a \in ToSet(nodes)
  <2> DEFINE i == CHOOSE k \in DOMAIN nodes : nodes[k] = a
  <2>1. \E k \in DOMAIN nodes : nodes[k] = a
    BY <1>2 DEF ToSet
  <2>2. i \in DOMAIN nodes /\ nodes[i] = a
    BY <2>1
  <2>3. applyRemoveDataNode(nodes, a) = RemoveAt(nodes, i)
    BY <1>2 DEF applyRemoveDataNode
  <2> HIDE DEF i
  <2> QED  BY <2>2, <2>3, RemoveAtElements
<1> QED  BY <1>1, <1>2

\* The remainder of a number below twice the divisor.
LEMMA RemainderBelowTwice ==
  ASSUME NEW n \in Nat, n > 0, NEW x \in Nat, x < n + n
  PROVE  x % n = IF x < n THEN x ELSE x - n
<1>1. x = n * (x \div n) + (x % n) /\ x % n \in 0..(n - 1) /\ x \div n \in Nat
  OBVIOUS
<1>2. CASE x \div n = 0
  BY <1>1, <1>2
<1>3. CASE x \div n = 1
  BY <1>1, <1>3
<1>4. x \div n < 2
  BY <1>1
<1> QED  BY <1>1, <1>2, <1>3, <1>4

\* From a list that has every node once, selectDataNodes takes no node twice.
LEMMA SelectDataNodesDistinct ==
  ASSUME NEW nodes \in Seq(Addrs), nodes # <<>>, IsInjective(nodes),
         NEW p \in Paths, NEW id \in FileIds
  PROVE  \E n \in 1..replicaCount :
           /\ selectDataNodes(nodes, p, id) \in [1..n -> [addr : Addrs, remote : {id}]]
           /\ IsInjective(selectDataNodes(nodes, p, id))
<1> DEFINE len == Len(nodes)
           n == IF replicaCount > len THEN len ELSE replicaCount
           start == Hash[p] % len
           at(i) == ((start + i - 1) % len) + 1
           chosen == [i \in 1..n |-> [addr |-> nodes[at(i)], remote |-> id]]
<1>1. len \in Nat /\ len > 0 /\ n \in 1..replicaCount /\ n <= len /\ n \in Nat
  BY ReplicaAssumption
<1>2. start \in 0..(len - 1)
  BY <1>1, HashAssumption
<1> HIDE DEF len, n, start
<1>3. ASSUME NEW i \in 1..n
      PROVE  at(i) = IF start + i - 1 < len THEN start + i ELSE start + i - len
  <2>1. start + i - 1 \in Nat /\ start + i - 1 < len + len
    BY <1>1, <1>2, SMT
  <2>2. len \in Nat /\ len > 0
    BY <1>1
  <2> DEFINE x == start + i - 1
  <2>3. x \in Nat /\ x < len + len
    BY <2>1
  <2> HIDE DEF x
  <2>4. x % len = IF x < len THEN x ELSE x - len
    BY <2>2, <2>3, RemainderBelowTwice
  <2>5. at(i) = (x % len) + 1
    BY DEF at, x
  <2>6. x = start + i - 1
    BY DEF x
  <2> HIDE DEF at
  <2> QED  BY <1>1, <1>2, <2>4, <2>5, <2>6
<1>4. \A i \in 1..n : at(i) \in 1..len
  BY <1>1, <1>2, <1>3
<1>5. \A i, j \in 1..n : at(i) = at(j) => i = j
  BY <1>1, <1>2, <1>3
<1>6. \A j, k \in 1..len : nodes[j] = nodes[k] => j = k
  BY DEF IsInjective, len
<1>7. \A j \in 1..len : nodes[j] \in Addrs
  BY DEF len
<1> HIDE DEF at
<1>8. chosen \in [1..n -> [addr : Addrs, remote : {id}]]
  BY <1>4, <1>7
<1>9. \A i, j \in 1..n : chosen[i] = chosen[j] => i = j
  BY <1>4, <1>5, <1>6
<1>10. IsInjective(chosen)
  BY <1>9 DEF IsInjective
<1>11. selectDataNodes(nodes, p, id) = chosen
  BY DEF selectDataNodes, chosen, at, start, n, len
<1> HIDE DEF chosen
<1> QED  BY <1>1, <1>8, <1>10, <1>11
=============================================================================
