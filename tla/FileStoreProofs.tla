--------------------------- MODULE FileStoreProofs ---------------------------
(***************************************************************************)
(* Proofs about FileStore for every set of paths, identities, nodes,       *)
(* clients and rounds of the collector.                                    *)
(***************************************************************************)
EXTENDS FileStore, MetaStateProofs

-----------------------------------------------------------------------------
(* What the program counter says about a client's or a round's state       *)

\* A client's program counter tells which kind of state it is in.
LEMMA ClientStates ==
  ASSUME NEW s \in ClientState
  PROVE  /\ s.pc = "create" => s \in CreateState
         /\ s.pc = "store" => s \in StoreState
         /\ s.pc = "unlink" => s \in UnlinkState
         /\ s.pc = "clean" => s \in CleanState
  BY DEF ClientState, Idle, CreateState, StoreState, UnlinkState, CleanState

\* So does a round's.
LEMMA GcStates ==
  ASSUME NEW s \in GcState
  PROVE  /\ s.pc = "health" => s \in HealthState
         /\ s.pc = "remove" => s \in RemoveState
         /\ s.pc = "nodes" => s \in NodesState
         /\ s.pc = "scan" => s \in ScanState
         /\ s.pc = "sweep" => s \in SweepState
  BY DEF GcState, Off, HealthState, RemoveState, NodesState, ScanState, SweepState

\* Going on to a list of nodes, or ending, leaves a round well-typed.
LEMMA ScanOfType ==
  ASSUME NEW g, gc[g] \in NodesState \cup ScanState \cup SweepState,
         NEW todo \in Seq(Addrs)
  PROVE  ScanOf(g, todo) \in GcState
  BY DEF ScanOf, GcState, NodesState, ScanState, SweepState

\* What is left of a list of more than one replica is such a list.
LEMMA TailNonEmpty ==
  ASSUME NEW S, NEW s \in Seq(S), s # <<>>, Len(s) # 1
  PROVE  Tail(s) # <<>>
<1>1. Len(s) \in Nat /\ Len(s) # 0
  OBVIOUS
<1>2. Len(Tail(s)) = Len(s) - 1
  BY <1>1
<1>3. Len(Tail(s)) # 0
  BY <1>1, <1>2
<1>4. Len(<<>>) = 0
  OBVIOUS
<1>5. ASSUME Tail(s) = <<>> PROVE FALSE
  BY <1>3, <1>4, <1>5, Zenon
<1> QED  BY <1>5, Zenon

\* A client that has dealt with one copy is in a well-typed state.
LEMMA CleanedType ==
  ASSUME NEW c \in Clients, cl \in [Clients -> ClientState], cl[c].pc = "clean"
  PROVE  Cleaned(c) \in [Clients -> ClientState]
<1>1. cl[c] \in CleanState
  BY ClientStates
<1>2. CASE Len(cl[c].replicas) = 1
  BY <1>2 DEF Cleaned, ClientState
<1>3. CASE Len(cl[c].replicas) # 1
  <2> DEFINE rest == Tail(cl[c].replicas)
  <2>1. cl[c].replicas \in Seq(Replica) /\ cl[c].replicas # <<>>
    BY <1>1 DEF CleanState
  <2>2. rest \in Seq(Replica)
    BY <2>1
  <2>3. rest # <<>>
    BY <2>1, <1>3, TailNonEmpty
  <2>4. [pc |-> "clean", replicas |-> rest] \in CleanState
    BY <2>2, <2>3 DEF CleanState
  <2> QED  BY <1>3, <2>4 DEF Cleaned, ClientState
<1> QED  BY <1>2, <1>3

\* A write leaves a node a set of well-typed files.
LEMMA StoredType ==
  ASSUME NEW a \in Addrs, NEW id \in FileIds, TypeOK
  PROVE  Stored(a, id) \subseteq NodeFile
  BY SkewAssumption DEF Stored, NodeFile, TypeOK

\* Looking a path up for an unlink leaves the client well-typed.
LEMMA LookedUpType ==
  ASSUME NEW p \in Paths, TypeOK
  PROVE  LookedUp(p) \in ClientState
<1>1. tree[p] \in Entry
  BY DEF TypeOK, Locations
<1>2. IsFile(tree, p) => tree[p].replicas \in Seq(Replica)
  BY <1>1 DEF IsFile, Entry, FileEntry, NoEntry, Dir
<1>3. (IF IsFile(tree, p) THEN tree[p].replicas ELSE <<>>) \in Seq(Replica)
  BY <1>2
<1> QED  BY <1>3 DEF LookedUp, ClientState, UnlinkState

-----------------------------------------------------------------------------
(* Type correctness                                                        *)

\* The initial state is well-typed.
LEMMA InitType == Init => TypeOK
  BY EmptyTreeType DEF Init, TypeOK, ClientState, GcState

\* Heartbeats, lapses and the clock keep the types.
LEMMA EnvironmentType ==
  ASSUME TypeOK, Tick \/ \E a \in Addrs : Heartbeat(a) \/ Lapse(a)
  PROVE  TypeOK'
<1>1. CASE Tick
  BY <1>1 DEF Tick, TypeOK
<1>2. ASSUME NEW a \in Addrs, Heartbeat(a)
      PROVE  TypeOK'
  BY <1>2, HeartbeatType DEF Heartbeat, TypeOK
<1>3. ASSUME NEW a \in Addrs, Lapse(a)
      PROVE  TypeOK'
  BY <1>3 DEF Lapse, TypeOK
<1> QED  BY <1>1, <1>2, <1>3

\* So does every step of a client.
LEMMA ClientType ==
  ASSUME TypeOK, NEW c \in Clients, ClientNext(c)
  PROVE  TypeOK'
<1> USE DEF mds
<1>0. Owns[c] \subseteq Paths /\ cl[c] \in ClientState
  BY OwnsAssumption DEF TypeOK
<1>1. ASSUME NEW p \in Owns[c], NEW mode \in Modes, NEW id \in FileIds,
             NEW size \in Sizes, PutPrepare(c, p, mode, id, size)
      PROVE  TypeOK'
  <2> DEFINE s == [pc |-> "create", path |-> p, mode |-> mode, id |-> id,
                   size |-> size, replicas |-> selectDataNodes(nodes, p, id)]
  <2>1. selectDataNodes(nodes, p, id) \in Seq(Replica)
    BY <1>0, <1>1, SelectDataNodesType DEF PutPrepare, TypeOK
  <2>2. s \in ClientState
    BY <1>0, <2>1 DEF ClientState, CreateState
  <2> HIDE DEF s
  <2>3. cl' = [cl EXCEPT ![c] = s] /\ issued' = issued \cup {id}
    BY <1>1 DEF PutPrepare, s
  <2> QED  BY <1>1, <2>2, <2>3 DEF PutPrepare, TypeOK
<1>2. CASE PutCreate(c)
  <2> DEFINE u == cl[c]
             s == [pc |-> "store", path |-> u.path, id |-> u.id,
                   todo |-> ToSet(u.replicas), ok |-> FALSE]
  <2>1. u \in CreateState
    BY <1>0, <1>2, ClientStates DEF PutCreate
  <2>2. ToSet(u.replicas) \subseteq Replica
    BY <2>1 DEF CreateState, ToSet
  <2>3. s \in ClientState
    BY <2>1, <2>2 DEF ClientState, StoreState, CreateState
  <2>4. applyCreateFile(tree, u.path, u.id, u.size, u.replicas) \in [Locations -> Entry]
    BY <2>1, CreateFileType DEF CreateState, TypeOK, Locations
  <2>5. \/ tree' = applyCreateFile(tree, u.path, u.id, u.size, u.replicas)
           /\ cl' = [cl EXCEPT ![c] = s]
        \/ tree' = tree /\ cl' = [cl EXCEPT ![c] = Idle]
    BY <1>2 DEF PutCreate
  <2> HIDE DEF u, s
  <2>6. tree' \in [Locations -> Entry] /\ cl' \in [Clients -> ClientState]
    BY <2>3, <2>4, <2>5 DEF TypeOK, ClientState
  <2> QED  BY <1>2, <2>6 DEF PutCreate, TypeOK
<1>3. ASSUME NEW r \in Replica, NEW acknowledged \in BOOLEAN,
             PutStore(c, r, acknowledged)
      PROVE  TypeOK'
  <2>1. cl[c] \in StoreState
    BY <1>0, <1>3, ClientStates DEF PutStore
  <2>2. cl' = [cl EXCEPT ![c] = [cl[c] EXCEPT !.todo = @ \ {r}, !.ok = @ \/ acknowledged]]
    BY <1>3, <2>1 DEF PutStore, TypeOK, StoreState
  <2>3. [cl[c] EXCEPT !.todo = @ \ {r}, !.ok = @ \/ acknowledged] \in StoreState
    BY <2>1 DEF StoreState
  <2>4. Stored(r.addr, r.remote) \subseteq NodeFile
    BY StoredType DEF Replica
  <2> QED  BY <1>3, <2>2, <2>3, <2>4 DEF PutStore, TypeOK, ClientState, Replica
<1>4. ASSUME NEW r \in Replica, PutStoreFails(c, r)
      PROVE  TypeOK'
  <2>1. cl[c] \in StoreState
    BY <1>0, <1>4, ClientStates DEF PutStoreFails
  <2>2. [cl[c] EXCEPT !.todo = @ \ {r}] \in ClientState
    BY <2>1 DEF StoreState, ClientState
  <2> QED  BY <1>4, <2>2 DEF PutStoreFails, TypeOK
<1>5. CASE PutComplete(c)
  <2>1. cl[c] \in StoreState
    BY <1>0, <1>5, ClientStates DEF PutComplete
  <2>2. tree' \in [Locations -> Entry]
    BY <1>5, <2>1, CompleteFileType DEF PutComplete, TypeOK, StoreState, Locations
  <2> QED  BY <1>5, <2>2 DEF PutComplete, TypeOK, ClientState
<1>6. CASE PutUndo(c)
  <2>1. cl[c] \in StoreState
    BY <1>0, <1>6, ClientStates DEF PutUndo
  <2>2. LookedUp(cl[c].path) \in ClientState
    BY <2>1, LookedUpType DEF StoreState
  <2> QED  BY <1>6, <2>2 DEF PutUndo, TypeOK
<1>7. ASSUME NEW p \in Owns[c], DeletePrepare(c, p)
      PROVE  TypeOK'
  <2>1. LookedUp(p) \in ClientState
    BY <1>0, LookedUpType
  <2> QED  BY <1>7, <2>1 DEF DeletePrepare, TypeOK
<1>8. CASE DeleteCommit(c)
  <2>1. cl[c] \in UnlinkState
    BY <1>0, <1>8, ClientStates DEF DeleteCommit
  <2>2. (IF cl[c].replicas = <<>> THEN Idle
         ELSE [pc |-> "clean", replicas |-> cl[c].replicas]) \in ClientState
    BY <2>1 DEF UnlinkState, ClientState, CleanState
  <2>3. applyDelete(tree, cl[c].path) \in [Locations -> Entry]
    BY DeleteType DEF TypeOK
  <2>4. tree' \in [Locations -> Entry] /\ cl' \in [Clients -> ClientState]
    BY <1>8, <2>2, <2>3 DEF DeleteCommit, TypeOK, ClientState
  <2> QED  BY <1>8, <2>4 DEF DeleteCommit, TypeOK
<1>9. CASE CleanReplica(c)
  <2>1. cl' \in [Clients -> ClientState]
    BY <1>9, CleanedType DEF CleanReplica, TypeOK
  <2>2. disk' \in [Addrs -> SUBSET NodeFile]
    BY <1>9 DEF CleanReplica, TypeOK
  <2> QED  BY <1>9, <2>1, <2>2 DEF CleanReplica, TypeOK
<1>10. CASE CleanFails(c)
  <2>1. cl' \in [Clients -> ClientState]
    BY <1>10, CleanedType DEF CleanFails, TypeOK
  <2> QED  BY <1>10, <2>1 DEF CleanFails, TypeOK
<1>11. ASSUME NEW p \in Owns[c], Mkdir(c, p)
       PROVE  TypeOK'
  BY <1>11, MkdirType DEF Mkdir, TypeOK
<1>12. ASSUME NEW src \in Owns[c], NEW dst \in Owns[c], Rename(c, src, dst)
       PROVE  TypeOK'
  BY <1>12, RenameType DEF Rename, TypeOK
<1>13. CASE CommitFails(c)
  BY <1>13 DEF CommitFails, TypeOK, ClientState
<1>14. CASE ClientStops(c)
  BY <1>14 DEF ClientStops, TypeOK, ClientState
<1> QED
  BY <1>1, <1>2, <1>3, <1>4, <1>5, <1>6, <1>7, <1>8, <1>9, <1>10, <1>11, <1>12,
     <1>13, <1>14 DEF ClientNext, PutNext, DeleteNext

\* And every step of a round of the collector.
LEMMA GcType ==
  ASSUME TypeOK, NEW g \in GcRuns, GcNext(g)
  PROVE  TypeOK'
<1> USE DEF mds, GcStep
<1>0. gc[g] \in GcState
  BY DEF TypeOK
<1>1. CASE GcStart(g)
  BY <1>1 DEF GcStart, TypeOK, GcState, HealthState
<1>2. CASE GcHealth(g)
  <2>1. gc[g] \in HealthState
    BY <1>0, <1>2, GcStates DEF GcHealth
  <2> QED  BY <1>2, <2>1 DEF GcHealth, TypeOK, GcState, HealthState, RemoveState
<1>3. ASSUME NEW a \in Addrs, GcRemove(g, a) \/ GcRemoveFails(g, a)
      PROVE  TypeOK'
  <2>1. gc[g] \in RemoveState
    BY <1>0, <1>3, GcStates DEF GcRemove, GcRemoveFails
  <2>2. [gc[g] EXCEPT !.dead = @ \ {a}] \in GcState
    BY <2>1 DEF RemoveState, GcState
  <2> QED  BY <1>3, <2>2, RemoveDataNodeType DEF GcRemove, GcRemoveFails, TypeOK
<1>4. CASE GcCollect(g)
  <2>1. gc[g] \in RemoveState
    BY <1>0, <1>4, GcStates DEF GcCollect
  <2>2. LiveIds(tree) \subseteq FileIds
    BY LiveIdsType DEF TypeOK
  <2>3. [pc |-> "nodes", start |-> gc[g].start, valid |-> LiveIds(tree)] \in GcState
    BY <2>1, <2>2 DEF RemoveState, NodesState, GcState
  <2> QED  BY <1>4, <2>3 DEF GcCollect, TypeOK
<1>5. CASE GcNodes(g)
  <2>1. gc[g] \in NodesState
    BY <1>0, <1>5, GcStates DEF GcNodes
  <2>2. ScanOf(g, nodes) \in GcState
    BY <2>1, ScanOfType DEF TypeOK
  <2> QED  BY <1>5, <2>2 DEF GcNodes, TypeOK
<1>6. CASE GcList(g)
  <2>1. gc[g] \in ScanState
    BY <1>0, <1>6, GcStates DEF GcList
  <2>2. Head(gc[g].todo) \in Addrs
    BY <2>1 DEF ScanState
  <2>3. Doomed(g, disk[Head(gc[g].todo)]) \subseteq FileIds
    BY <2>2 DEF Doomed, TypeOK, NodeFile
  <2>4. [pc |-> "sweep", start |-> gc[g].start, valid |-> gc[g].valid,
         todo |-> gc[g].todo,
         doomed |-> Doomed(g, disk[Head(gc[g].todo)])] \in GcState
    BY <2>1, <2>3 DEF ScanState, SweepState, GcState
  <2> QED  BY <1>6, <2>4 DEF GcList, TypeOK
<1>7. CASE GcListFails(g) \/ GcNextNode(g)
  <2>1. gc[g] \in ScanState \cup SweepState
    BY <1>0, <1>7, GcStates DEF GcListFails, GcNextNode
  <2>2. Tail(gc[g].todo) \in Seq(Addrs)
    BY <2>1 DEF ScanState, SweepState
  <2>3. ScanOf(g, Tail(gc[g].todo)) \in GcState
    BY <2>1, <2>2, ScanOfType
  <2> QED  BY <1>7, <2>3 DEF GcListFails, GcNextNode, TypeOK
<1>8. ASSUME NEW id \in FileIds, GcDelete(g, id) \/ GcDeleteFails(g, id)
      PROVE  TypeOK'
  <2>1. gc[g] \in SweepState
    BY <1>0, <1>8, GcStates DEF GcDelete, GcDeleteFails
  <2>2. [gc[g] EXCEPT !.doomed = @ \ {id}] \in GcState
    BY <2>1 DEF SweepState, GcState
  <2>3. disk' \in [Addrs -> SUBSET NodeFile]
    BY <1>8 DEF GcDelete, GcDeleteFails, TypeOK
  <2> QED  BY <1>8, <2>2, <2>3 DEF GcDelete, GcDeleteFails, TypeOK
<1> QED
  BY <1>1, <1>2, <1>3, <1>4, <1>5, <1>6, <1>7, <1>8 DEF GcNext

\* Every step keeps the types.
LEMMA NextType == TypeOK /\ [Next]_vars => TypeOK'
<1> SUFFICES ASSUME TypeOK, [Next]_vars PROVE TypeOK'
  OBVIOUS
<1>1. CASE Next
  BY <1>1, EnvironmentType, ClientType, GcType DEF Next
<1>2. CASE UNCHANGED vars
  BY <1>2 DEF vars, TypeOK
<1> QED  BY <1>1, <1>2

\* The variables keep their types, whatever the interleaving of clients,
\* failures and rounds of the collector.
THEOREM TypeCorrect == Spec => []TypeOK
  BY InitType, NextType, PTL DEF Spec

-----------------------------------------------------------------------------
(* The inductive invariant                                                 *)

\* The invariant holds of a new system.
LEMMA InitInv == Init => Inv
<1> SUFFICES ASSUME Init PROVE Inv
  OBVIOUS
<1>1. Inflight = {}
  BY DEF Init, Inflight, Idle
<1>2. LiveIds(tree) = {}
  BY EmptyTreeLiveIds DEF Init
<1> QED
  BY <1>1, <1>2 DEF Init, Inv, DataFollowsMetadata, NewDataProtected,
                    DoomedAreDead, Idle, Off

\* A step of client c that neither begins an upload nor adds data: what was in
\* the tree, on the disks and on its way to them can only become less.
LEMMA ClientShrinks ==
  ASSUME TypeOK, Inv, NEW c \in Clients, NEW s,
         cl' = [cl EXCEPT ![c] = s],
         s.pc # "create",
         s.pc = "store" => cl[c].pc = "store" /\ s.todo \subseteq cl[c].todo,
         LiveIds(tree') \subseteq LiveIds(tree),
         \A a \in Addrs : disk'[a] \subseteq disk[a],
         UNCHANGED <<issued, now, gc>>
  PROVE  Inv'
<1>1. \A d \in Clients : cl'[d] = IF d = c THEN s ELSE cl[d]
  BY DEF TypeOK
<1>2. Inflight' \subseteq Inflight
  BY <1>1 DEF Inflight
<1>3. Spent \subseteq Spent'
  BY <1>2 DEF Spent
<1>4. DataFollowsMetadata'
  BY <1>1, <1>2, <1>3 DEF Inv, DataFollowsMetadata
<1>5. NewDataProtected'
  BY DEF Inv, NewDataProtected
<1>6. DoomedAreDead'
  BY <1>3 DEF Inv, DoomedAreDead
<1> QED  BY <1>4, <1>5, <1>6 DEF Inv

\* A step of round g that keeps what the invariant asks of its new state.
LEMMA RoundSteps ==
  ASSUME TypeOK, Inv, NEW g \in GcRuns, NEW s,
         gc' = [gc EXCEPT ![g] = s],
         s.pc # "off" => s.start <= now,
         s.pc \in {"nodes", "scan", "sweep"} =>
           \A a \in Addrs : \A f \in disk[a] :
             f.id \in LiveIds(tree) \ s.valid => f.mtime > s.start - Window,
         s.pc = "sweep" => s.doomed \subseteq Spent \ LiveIds(tree),
         \A a \in Addrs : disk'[a] \subseteq disk[a],
         UNCHANGED <<tree, issued, now, cl>>
  PROVE  Inv'
<1>1. \A h \in GcRuns : gc'[h] = IF h = g THEN s ELSE gc[h]
  BY DEF TypeOK
<1>2. Inflight' = Inflight /\ Spent' = Spent
  BY DEF Inflight, Spent
<1>3. DataFollowsMetadata'
  BY <1>2 DEF Inv, DataFollowsMetadata
<1>4. NewDataProtected'
  BY <1>1 DEF Inv, NewDataProtected
<1>5. DoomedAreDead'
  BY <1>1, <1>2 DEF Inv, DoomedAreDead
<1> QED  BY <1>3, <1>4, <1>5 DEF Inv

\* Heartbeats, lapses and the clock keep the invariant.
LEMMA EnvironmentInv ==
  ASSUME TypeOK, Inv, Tick \/ \E a \in Addrs : Heartbeat(a) \/ Lapse(a)
  PROVE  Inv'
<1>1. UNCHANGED <<tree, disk, issued, cl, gc>> /\ now' \in Nat /\ now' >= now
  BY DEF Tick, Heartbeat, Lapse, TypeOK
<1>2. Inflight' = Inflight /\ Spent' = Spent
  BY <1>1 DEF Inflight, Spent
<1>3. \A g \in GcRuns : gc[g].pc # "off" => gc[g].start \in Nat
  BY DEF TypeOK, GcState, Off, HealthState, RemoveState, NodesState, ScanState,
         SweepState
<1>4. NewDataProtected'
  BY <1>1, <1>3 DEF Inv, NewDataProtected, TypeOK
<1> QED  BY <1>1, <1>2, <1>4 DEF Inv, DataFollowsMetadata, DoomedAreDead

-----------------------------------------------------------------------------
(* The steps of an upload                                                  *)

\* An upload that begins brings an identity nobody has seen.
LEMMA PutPrepareInv ==
  ASSUME TypeOK, Inv, NEW c \in Clients, NEW p \in Paths, NEW mode \in Modes,
         NEW id \in FileIds, NEW size \in Sizes, PutPrepare(c, p, mode, id, size)
  PROVE  Inv'
<1> DEFINE reps == selectDataNodes(nodes, p, id)
           s == [pc |-> "create", path |-> p, mode |-> mode, id |-> id,
                 size |-> size, replicas |-> reps]
<1>1. \A r \in ToSet(reps) : r.remote = id
  BY SelectDataNodesType DEF PutPrepare, TypeOK
<1>2. s.pc = "create" /\ s.id = id /\ s.replicas = reps
  OBVIOUS
<1> HIDE DEF reps
<1>3. \A d \in Clients : cl'[d] = IF d = c THEN s ELSE cl[d]
  BY DEF PutPrepare, TypeOK, reps
<1> HIDE DEF s
<1>4. cl[c].pc # "create"
  BY DEF PutPrepare, Idle
<1>5. Inflight' = Inflight \cup {id}
  BY <1>2, <1>3, <1>4 DEF Inflight
<1>6. issued' = issued \cup {id} /\ id \notin issued
  BY DEF PutPrepare
<1>7. Spent' = Spent
  BY <1>5, <1>6 DEF Spent
<1>8. UNCHANGED <<tree, disk, now, gc>>
  BY DEF PutPrepare
<1>9. \A d \in Clients : cl[d].pc = "create" => cl[d].id # id
  BY <1>6 DEF Inv, DataFollowsMetadata, Inflight
<1>10. DataFollowsMetadata'
  <2>1. /\ Inflight' \subseteq issued'
        /\ LiveIds(tree') \subseteq Spent'
        /\ \A a \in Addrs : \A f \in disk'[a] : f.id \in Spent'
    BY <1>5, <1>6, <1>7, <1>8 DEF Inv, DataFollowsMetadata
  <2>2. \A d \in Clients : cl'[d].pc = "store" =>
           \A r \in cl'[d].todo : r.remote \in Spent'
    BY <1>2, <1>3, <1>7 DEF Inv, DataFollowsMetadata
  <2>3. ASSUME NEW d \in Clients, cl'[d].pc = "create"
        PROVE  /\ \A r \in ToSet(cl'[d].replicas) : r.remote = cl'[d].id
               /\ \A e \in Clients : cl'[e].pc = "create" /\ cl'[e].id = cl'[d].id
                                       => e = d
    BY <1>1, <1>2, <1>3, <1>9, <2>3 DEF Inv, DataFollowsMetadata
  <2> QED  BY <2>1, <2>2, <2>3 DEF DataFollowsMetadata
<1> QED  BY <1>7, <1>8, <1>10 DEF Inv, NewDataProtected, DoomedAreDead

\* Its command makes the identity spent and, if accepted, live: it was in no
\* round's list of what to delete.
LEMMA PutCreateInv ==
  ASSUME TypeOK, Inv, NEW c \in Clients, PutCreate(c)
  PROVE  Inv'
<1> DEFINE u == cl[c]
           s == [pc |-> "store", path |-> u.path, id |-> u.id,
                 todo |-> ToSet(u.replicas), ok |-> FALSE]
<1>1. u \in CreateState
  BY ClientStates DEF PutCreate, TypeOK
<1>2. CASE /\ tree' = applyCreateFile(tree, u.path, u.id, u.size, u.replicas)
           /\ cl' = [cl EXCEPT ![c] = s]
  <2>1. \A d \in Clients : cl'[d] = IF d = c THEN s ELSE cl[d]
    BY <1>2 DEF TypeOK
  <2>2. s.pc = "store" /\ s.todo = ToSet(u.replicas)
    OBVIOUS
  <2>3. u.pc = "create" /\ u.id \in Inflight
    BY DEF PutCreate, Inflight
  <2>4. Inflight' = Inflight \ {u.id}
    <3>1. \A d \in Clients : cl[d].pc = "create" /\ cl[d].id = u.id => d = c
      BY <2>3 DEF Inv, DataFollowsMetadata
    <3> HIDE DEF s, u
    <3>2. Inflight' = {cl'[d].id : d \in {x \in Clients : cl'[x].pc = "create"}}
      BY DEF Inflight
    <3> QED  BY <2>1, <2>2, <3>1, <3>2 DEF Inflight, u
  <2>5. UNCHANGED <<disk, issued, now, gc>>
    BY DEF PutCreate
  <2>6. Spent' = Spent \cup {u.id} /\ u.id \notin Spent
    BY <2>3, <2>4, <2>5 DEF Spent, Inv, DataFollowsMetadata
  <2>7. LiveIds(tree') \subseteq LiveIds(tree) \cup {u.id}
    <3>1. u.path \in Locations /\ tree \in [Locations -> Entry]
      BY <1>1 DEF CreateState, TypeOK, Locations
    <3> HIDE DEF u, s
    <3>2. LiveIds(applyCreateFile(tree, u.path, u.id, u.size, u.replicas))
            \subseteq LiveIds(tree) \cup {u.id}
      BY <3>1, CreateFileLiveIds
    <3> QED  BY <1>2, <3>2
  <2>8. \A r \in s.todo : r.remote = u.id
    BY <2>2, <2>3 DEF Inv, DataFollowsMetadata
  <2> HIDE DEF u, s
  <2>9. DataFollowsMetadata'
    <3>1. /\ Inflight' \subseteq issued'
          /\ LiveIds(tree') \subseteq Spent'
          /\ \A a \in Addrs : \A f \in disk'[a] : f.id \in Spent'
      BY <2>4, <2>5, <2>6, <2>7 DEF Inv, DataFollowsMetadata
    <3>2. \A d \in Clients : cl'[d].pc = "store" =>
             \A r \in cl'[d].todo : r.remote \in Spent'
      BY <2>1, <2>6, <2>8 DEF Inv, DataFollowsMetadata
    <3>3. \A d \in Clients : cl'[d].pc = "create" => d # c /\ cl'[d] = cl[d]
      BY <2>1, <2>2
    <3> QED  BY <3>1, <3>2, <3>3 DEF Inv, DataFollowsMetadata
  <2>10. NewDataProtected'
    <3>1. \A a \in Addrs : \A f \in disk[a] : f.id # u.id
      BY <2>6 DEF Inv, DataFollowsMetadata
    <3> QED  BY <2>5, <2>7, <3>1 DEF Inv, NewDataProtected
  <2>11. DoomedAreDead'
    BY <2>5, <2>6, <2>7 DEF Inv, DoomedAreDead
  <2> QED  BY <2>9, <2>10, <2>11 DEF Inv
<1>3. CASE tree' = tree /\ cl' = [cl EXCEPT ![c] = Idle]
  <2>1. UNCHANGED <<disk, issued, now, gc>>
    BY DEF PutCreate
  <2>2. Idle.pc # "create" /\ Idle.pc # "store"
    BY DEF Idle
  <2>3. \A a \in Addrs : disk'[a] \subseteq disk[a]
    BY <2>1
  <2>4. LiveIds(tree') \subseteq LiveIds(tree)
    BY <1>3
  <2> HIDE DEF s
  <2> QED  BY <1>3, <2>1, <2>2, <2>3, <2>4, ClientShrinks
<1> QED  BY <1>2, <1>3 DEF PutCreate

\* The one step that adds data, and the one that needs the clocks to agree.
LEMMA PutStoreInv ==
  ASSUME TypeOK, Inv, ClocksAgree, NEW c \in Clients, NEW r \in Replica,
         NEW acknowledged \in BOOLEAN, PutStore(c, r, acknowledged)
  PROVE  Inv'
<1> DEFINE s == [cl[c] EXCEPT !.todo = @ \ {r}, !.ok = @ \/ acknowledged]
           new == [id |-> r.remote, mtime |-> now + Skew[r.addr]]
<1>1. cl[c] \in StoreState
  BY ClientStates DEF PutStore, TypeOK
<1>2. cl' = [cl EXCEPT ![c] = s]
  BY <1>1 DEF PutStore, TypeOK, StoreState
<1>3. s.pc = "store" /\ s.todo \subseteq cl[c].todo /\ cl[c].pc = "store"
  BY <1>1 DEF StoreState
<1> HIDE DEF s
<1>4. \A d \in Clients : cl'[d] = IF d = c THEN s ELSE cl[d]
  BY <1>2 DEF TypeOK
<1>5. UNCHANGED <<tree, issued, now, gc>>
  BY DEF PutStore
<1>6. Inflight' = Inflight
  BY <1>3, <1>4 DEF Inflight
<1>7. Spent' = Spent
  BY <1>5, <1>6 DEF Spent
<1>8. \A a \in Addrs : \A f \in disk'[a] : f \in disk[a] \/ (f = new /\ a = r.addr)
  <2>1. disk' = [disk EXCEPT ![r.addr] = Stored(r.addr, r.remote)]
    BY DEF PutStore
  <2>2. Stored(r.addr, r.remote) \subseteq disk[r.addr] \cup {new}
    BY DEF Stored
  <2>3. r.addr \in Addrs /\ DOMAIN disk = Addrs
    BY DEF Replica, TypeOK
  <2> HIDE DEF new
  <2> QED  BY <2>1, <2>2, <2>3
<1>9. new.id \in Spent
  BY <1>1 DEF PutStore, Inv, DataFollowsMetadata
<1>10. DataFollowsMetadata'
  <2>1. /\ Inflight' \subseteq issued'
        /\ LiveIds(tree') \subseteq Spent'
        /\ \A a \in Addrs : \A f \in disk'[a] : f.id \in Spent'
    BY <1>5, <1>6, <1>7, <1>8, <1>9 DEF Inv, DataFollowsMetadata
  <2>2. \A d \in Clients : cl'[d].pc = "store" =>
           \A q \in cl'[d].todo : q.remote \in Spent'
    BY <1>3, <1>4, <1>7 DEF Inv, DataFollowsMetadata
  <2>3. \A d \in Clients : cl'[d].pc = "create" => d # c /\ cl'[d] = cl[d]
    BY <1>3, <1>4
  <2> QED  BY <2>1, <2>2, <2>3 DEF Inv, DataFollowsMetadata
<1>11. NewDataProtected'
  <2>1. ASSUME NEW g \in GcRuns, gc[g].pc \in {"nodes", "scan", "sweep"}
        PROVE  new.mtime > gc[g].start - Window
    <3>1. gc[g].start \in Nat /\ gc[g].start <= now
      BY <2>1 DEF Inv, NewDataProtected, TypeOK, GcState, Off, HealthState,
                  RemoveState, NodesState, ScanState, SweepState
    <3>2. Skew[r.addr] \in Int /\ Skew[r.addr] > -Window
      BY SkewAssumption DEF ClocksAgree, Replica
    <3> QED  BY <3>1, <3>2, TimeAssumption DEF TypeOK
  <2> HIDE DEF new
  <2> QED  BY <1>5, <1>8, <2>1 DEF Inv, NewDataProtected
<1> QED  BY <1>5, <1>7, <1>10, <1>11 DEF Inv, DoomedAreDead

-----------------------------------------------------------------------------
(* The other steps of a client                                             *)

\* A lookup leaves the client with an unlink or with nothing to do.
LEMMA LookedUpIs ==
  ASSUME NEW p
  PROVE  LookedUp(p).pc # "create" /\ LookedUp(p).pc # "store"
  BY DEF LookedUp, Idle

\* The steps at which a client gives up, ends or goes on with its operation.
LEMMA ClientLeavesInv ==
  ASSUME TypeOK, Inv, NEW c \in Clients,
         \/ PutUndo(c) \/ (\E p \in Owns[c] : DeletePrepare(c, p))
         \/ CleanReplica(c) \/ CleanFails(c) \/ CommitFails(c) \/ ClientStops(c)
  PROVE  Inv'
<1>1. \A p : LookedUp(p).pc # "create" /\ LookedUp(p).pc # "store"
  BY LookedUpIs
<1>2. PICK s : cl' = [cl EXCEPT ![c] = s] /\ s.pc # "create" /\ s.pc # "store"
  <2>1. CASE PutUndo(c) \/ \E p \in Owns[c] : DeletePrepare(c, p)
    BY <1>1, <2>1 DEF PutUndo, DeletePrepare
  <2>2. CASE CleanReplica(c) \/ CleanFails(c)
    BY <2>2 DEF CleanReplica, CleanFails, Cleaned, Idle
  <2>3. CASE CommitFails(c) \/ ClientStops(c)
    BY <2>3 DEF CommitFails, ClientStops, Idle
  <2> QED  BY <2>1, <2>2, <2>3
<1>3. UNCHANGED <<tree, issued, now, gc>>
  BY DEF PutUndo, DeletePrepare, CleanReplica, CleanFails, CommitFails, ClientStops
<1>4. \A a \in Addrs : disk'[a] \subseteq disk[a]
  <2>1. CASE CleanReplica(c)
    BY <2>1 DEF CleanReplica, TypeOK
  <2>2. CASE ~CleanReplica(c)
    BY <2>2 DEF PutUndo, DeletePrepare, CleanFails, CommitFails, ClientStops
  <2> QED  BY <2>1, <2>2
<1>5. LiveIds(tree') \subseteq LiveIds(tree)
  BY <1>3
<1> QED  BY <1>2, <1>3, <1>4, <1>5, ClientShrinks

ChangesTree(c) ==
  \/ PutComplete(c) \/ DeleteCommit(c)
  \/ (\E p \in Owns[c] : Mkdir(c, p))
  \/ (\E src, dst \in Owns[c] : Rename(c, src, dst))

\* None of the steps at which a client changes the tree, but for the making of
\* a file, brings in an identity or a replica.
LEMMA ChangesKeepFiles ==
  ASSUME TypeOK, NEW c \in Clients, ChangesTree(c)
  PROVE  FilesFrom(tree', tree)
<1>0. tree \in [Locations -> Entry] /\ FilesFrom(tree, tree)
  BY DEF TypeOK, FilesFrom
<1>1. CASE PutComplete(c)
  <2>1. cl[c] \in StoreState
    BY <1>1, ClientStates DEF PutComplete, TypeOK
  <2>2. cl[c].path \in Locations
    BY <2>1 DEF StoreState, Locations
  <2> QED  BY <1>0, <1>1, <2>2, CompleteFileFiles DEF PutComplete
<1>2. CASE DeleteCommit(c)
  <2>1. tree' = applyDelete(tree, cl[c].path) \/ tree' = tree
    BY <1>2 DEF DeleteCommit
  <2> QED  BY <1>0, <2>1, DeleteFiles
<1>3. ASSUME NEW p \in Owns[c], Mkdir(c, p)
      PROVE  FilesFrom(tree', tree)
  BY <1>0, <1>3, MkdirFiles DEF Mkdir
<1>4. ASSUME NEW src \in Owns[c], NEW dst \in Owns[c], Rename(c, src, dst)
      PROVE  FilesFrom(tree', tree)
  BY <1>0, <1>4, RenameFiles DEF Rename
<1> QED  BY <1>1, <1>2, <1>3, <1>4 DEF ChangesTree

\* Those steps keep the invariant.
LEMMA ChangesTreeInv ==
  ASSUME TypeOK, Inv, NEW c \in Clients, ChangesTree(c)
  PROVE  Inv'
<1>0. Idle.pc # "create" /\ Idle.pc # "store"
  BY DEF Idle
<1>1. PICK s : cl' = [cl EXCEPT ![c] = s] /\ s.pc # "create" /\ s.pc # "store"
  <2>1. CASE PutComplete(c)
    BY <1>0, <2>1 DEF PutComplete
  <2>2. CASE DeleteCommit(c)
    <3>1. cl' = [cl EXCEPT ![c] = IF cl[c].replicas = <<>> THEN Idle
                                  ELSE [pc |-> "clean", replicas |-> cl[c].replicas]]
          \/ cl' = [cl EXCEPT ![c] = Idle]
      BY <2>2 DEF DeleteCommit
    <3> QED  BY <1>0, <3>1
  <2>3. CASE \/ \E p \in Owns[c] : Mkdir(c, p)
             \/ \E src, dst \in Owns[c] : Rename(c, src, dst)
    <3>1. cl[c] = Idle /\ cl' = cl
      BY <2>3 DEF Mkdir, Rename
    <3>2. cl' = [cl EXCEPT ![c] = Idle]
      BY <3>1 DEF TypeOK
    <3> QED  BY <1>0, <3>2
  <2> QED  BY <2>1, <2>2, <2>3 DEF ChangesTree
<1>2. UNCHANGED <<disk, issued, now, gc>>
  BY DEF ChangesTree, PutComplete, DeleteCommit, Mkdir, Rename
<1>3. LiveIds(tree') \subseteq LiveIds(tree)
  BY ChangesKeepFiles, FilesFromLiveIds
<1>4. \A a \in Addrs : disk'[a] \subseteq disk[a]
  BY <1>2
<1> QED  BY <1>1, <1>2, <1>3, <1>4, ClientShrinks

\* Every step of a client keeps the invariant.
LEMMA ClientInv ==
  ASSUME TypeOK, Inv, ClocksAgree, NEW c \in Clients, ClientNext(c)
  PROVE  Inv'
<1>1. ASSUME NEW p \in Owns[c], NEW mode \in Modes, NEW id \in FileIds,
             NEW size \in Sizes, PutPrepare(c, p, mode, id, size)
      PROVE  Inv'
  BY <1>1, PutPrepareInv, OwnsAssumption
<1>2. CASE PutCreate(c)
  BY <1>2, PutCreateInv
<1>3. ASSUME NEW r \in Replica, NEW acknowledged \in BOOLEAN,
             PutStore(c, r, acknowledged)
      PROVE  Inv'
  BY <1>3, PutStoreInv
<1>4. ASSUME NEW r \in Replica, PutStoreFails(c, r)
      PROVE  Inv'
  <2> DEFINE s == [cl[c] EXCEPT !.todo = @ \ {r}]
  <2>1. cl[c] \in StoreState
    BY <1>4, ClientStates DEF PutStoreFails, TypeOK
  <2>2. s.pc = "store" /\ s.todo \subseteq cl[c].todo /\ cl[c].pc = "store"
    BY <2>1 DEF StoreState
  <2>3. cl' = [cl EXCEPT ![c] = s] /\ UNCHANGED <<tree, disk, issued, now, gc>>
    BY <1>4 DEF PutStoreFails
  <2>4. /\ LiveIds(tree') \subseteq LiveIds(tree)
        /\ \A a \in Addrs : disk'[a] \subseteq disk[a]
    BY <2>3
  <2> HIDE DEF s
  <2> QED  BY <2>2, <2>3, <2>4, ClientShrinks
<1>5. CASE \/ PutUndo(c) \/ (\E p \in Owns[c] : DeletePrepare(c, p))
           \/ CleanReplica(c) \/ CleanFails(c) \/ CommitFails(c) \/ ClientStops(c)
  BY <1>5, ClientLeavesInv
<1>6. CASE ChangesTree(c)
  BY <1>6, ChangesTreeInv
<1> QED
  BY <1>1, <1>2, <1>3, <1>4, <1>5, <1>6
     DEF ClientNext, PutNext, DeleteNext, ChangesTree

-----------------------------------------------------------------------------
(* The steps of the collector                                              *)

\* A round whose state is as before but for its program counter and its list
\* of nodes, or has ended, is no worse off.
LEMMA RoundContinues ==
  ASSUME TypeOK, Inv, NEW g \in GcRuns, NEW s,
         gc' = [gc EXCEPT ![g] = s],
         gc[g].pc \in {"nodes", "scan", "sweep"},
         \/ s.pc = "off"
         \/ /\ s.start = gc[g].start /\ s.valid = gc[g].valid
            /\ s.pc = "sweep" => gc[g].pc = "sweep" /\ s.doomed \subseteq gc[g].doomed,
         \A a \in Addrs : disk'[a] \subseteq disk[a],
         UNCHANGED <<tree, issued, now, cl>>
  PROVE  Inv'
<1>1. s.pc # "off" => s.start <= now
  BY DEF Inv, NewDataProtected
<1>2. s.pc \in {"nodes", "scan", "sweep"} =>
         \A a \in Addrs : \A f \in disk[a] :
           f.id \in LiveIds(tree) \ s.valid => f.mtime > s.start - Window
  BY DEF Inv, NewDataProtected
<1>3. s.pc = "sweep" => s.doomed \subseteq Spent \ LiveIds(tree)
  BY DEF Inv, DoomedAreDead
<1> QED  BY <1>1, <1>2, <1>3, RoundSteps

\* Every step of a round keeps it; the one that picks what to delete uses that
\* new data is protected.
LEMMA GcInv ==
  ASSUME TypeOK, Inv, NEW g \in GcRuns, GcNext(g)
  PROVE  Inv'
<1> USE DEF GcStep
<1>0. gc[g] \in GcState
  BY DEF TypeOK
<1>s. \A a \in Addrs : disk'[a] \subseteq disk[a]
  <2>1. ASSUME NEW id \in FileIds, GcDelete(g, id)
        PROVE  \A a \in Addrs : disk'[a] \subseteq disk[a]
    BY <2>1 DEF GcDelete, TypeOK
  <2>2. CASE ~\E id \in FileIds : GcDelete(g, id)
    BY <2>2 DEF GcNext, GcStart, GcHealth, GcRemove, GcRemoveFails, GcCollect,
                GcNodes, GcList, GcListFails, GcDeleteFails, GcNextNode
  <2> QED  BY <2>1, <2>2
<1>u. UNCHANGED <<tree, issued, now, cl>>
  BY DEF GcNext, GcStart, GcHealth, GcRemove, GcRemoveFails, GcCollect, GcNodes,
         GcList, GcListFails, GcDelete, GcDeleteFails, GcNextNode
<1>1. CASE GcStart(g)
  <2> DEFINE s == [pc |-> "health", start |-> now]
  <2>1. gc' = [gc EXCEPT ![g] = s] /\ s.start <= now /\ s.pc = "health"
    BY <1>1 DEF GcStart, TypeOK
  <2> HIDE DEF s
  <2> QED  BY <1>s, <1>u, <2>1, RoundSteps
<1>2. CASE GcHealth(g)
  <2> DEFINE s == [pc |-> "remove", start |-> gc[g].start, dead |-> late]
  <2>1. gc' = [gc EXCEPT ![g] = s] /\ s.start <= now /\ s.pc = "remove"
    BY <1>2 DEF GcHealth, Inv, NewDataProtected
  <2> HIDE DEF s
  <2> QED  BY <1>s, <1>u, <2>1, RoundSteps
<1>3. ASSUME NEW a \in Addrs, GcRemove(g, a) \/ GcRemoveFails(g, a)
      PROVE  Inv'
  <2> DEFINE s == [gc[g] EXCEPT !.dead = @ \ {a}]
  <2>1. gc[g] \in RemoveState
    BY <1>0, <1>3, GcStates DEF GcRemove, GcRemoveFails
  <2>2. s.pc = "remove" /\ s.start = gc[g].start /\ gc[g].pc = "remove"
    BY <2>1 DEF RemoveState
  <2>3. gc' = [gc EXCEPT ![g] = s] /\ s.start <= now
    BY <1>3, <2>2 DEF GcRemove, GcRemoveFails, Inv, NewDataProtected
  <2> HIDE DEF s
  <2> QED  BY <1>s, <1>u, <2>2, <2>3, RoundSteps
<1>4. CASE GcCollect(g)
  <2> DEFINE s == [pc |-> "nodes", start |-> gc[g].start, valid |-> LiveIds(tree)]
  <2>1. /\ gc' = [gc EXCEPT ![g] = s] /\ s.start <= now /\ s.pc = "nodes"
        /\ s.valid = LiveIds(tree)
    BY <1>4 DEF GcCollect, Inv, NewDataProtected
  <2> HIDE DEF s
  <2> QED  BY <1>s, <1>u, <2>1, RoundSteps
<1>5. CASE GcNodes(g) \/ GcListFails(g) \/ GcNextNode(g)
  <2>1. PICK todo : gc' = [gc EXCEPT ![g] = ScanOf(g, todo)]
    BY <1>5 DEF GcNodes, GcListFails, GcNextNode
  <2>2. \/ ScanOf(g, todo).pc = "off"
        \/ /\ ScanOf(g, todo).start = gc[g].start
           /\ ScanOf(g, todo).valid = gc[g].valid
           /\ ScanOf(g, todo).pc = "scan"
    BY DEF ScanOf, Off
  <2>3. gc[g].pc \in {"nodes", "scan", "sweep"}
    BY <1>5 DEF GcNodes, GcListFails, GcNextNode
  <2> QED  BY <1>s, <1>u, <2>1, <2>2, <2>3, RoundContinues
<1>6. CASE GcList(g)
  <2> DEFINE files == disk[Head(gc[g].todo)]
             s == [pc |-> "sweep", start |-> gc[g].start, valid |-> gc[g].valid,
                   todo |-> gc[g].todo, doomed |-> Doomed(g, files)]
  <2>1. gc[g] \in ScanState
    BY <1>0, <1>6, GcStates DEF GcList
  <2>2. Head(gc[g].todo) \in Addrs /\ gc[g].pc = "scan" /\ gc[g].start \in Nat
    BY <2>1 DEF ScanState
  <2>3. files \subseteq NodeFile
    BY <2>2 DEF TypeOK
  <2>4. Doomed(g, files) \subseteq Spent \ LiveIds(tree)
    <3>1. ASSUME NEW f \in files, f.id \notin gc[g].valid,
                 f.mtime <= gc[g].start - Window
          PROVE  f.id \in Spent \ LiveIds(tree)
      <4>1. f.id \in Spent
        BY <2>2 DEF Inv, DataFollowsMetadata
      <4>2. f.id \in LiveIds(tree) => f.mtime > gc[g].start - Window
        BY <2>2, <3>1 DEF Inv, NewDataProtected
      <4>3. f.mtime \in Int
        BY <2>3 DEF NodeFile
      <4> QED  BY <2>2, <3>1, <4>1, <4>2, <4>3, TimeAssumption
    <3> QED  BY <3>1 DEF Doomed
  <2>5. /\ gc' = [gc EXCEPT ![g] = s]
        /\ s.pc = "sweep" /\ s.start = gc[g].start /\ s.valid = gc[g].valid
        /\ s.doomed = Doomed(g, files)
    BY <1>6 DEF GcList
  <2>6. s.start <= now
    BY <2>2, <2>5 DEF Inv, NewDataProtected
  <2>7. \A a \in Addrs : \A f \in disk[a] :
          f.id \in LiveIds(tree) \ s.valid => f.mtime > s.start - Window
    BY <2>2, <2>5 DEF Inv, NewDataProtected
  <2> HIDE DEF s, files
  <2> QED  BY <1>s, <1>u, <2>4, <2>5, <2>6, <2>7, RoundSteps
<1>7. ASSUME NEW id \in FileIds, GcDelete(g, id) \/ GcDeleteFails(g, id)
      PROVE  Inv'
  <2> DEFINE s == [gc[g] EXCEPT !.doomed = @ \ {id}]
  <2>1. gc[g] \in SweepState
    BY <1>0, <1>7, GcStates DEF GcDelete, GcDeleteFails
  <2>2. /\ s.pc = "sweep" /\ gc[g].pc = "sweep" /\ s.start = gc[g].start
        /\ s.valid = gc[g].valid /\ s.doomed \subseteq gc[g].doomed
    BY <2>1 DEF SweepState
  <2>3. gc' = [gc EXCEPT ![g] = s]
    BY <1>7 DEF GcDelete, GcDeleteFails
  <2> HIDE DEF s
  <2> QED  BY <1>s, <1>u, <2>2, <2>3, RoundContinues
<1> QED
  BY <1>1, <1>2, <1>3, <1>4, <1>5, <1>6, <1>7 DEF GcNext

-----------------------------------------------------------------------------
(* The theorems                                                            *)

\* The three parts are inductive together, given types and agreeing clocks.
LEMMA NextInv ==
  ASSUME ClocksAgree
  PROVE  TypeOK /\ Inv /\ [Next]_vars => Inv'
<1> SUFFICES ASSUME TypeOK, Inv, [Next]_vars PROVE Inv'
  OBVIOUS
<1>1. CASE Next
  BY <1>1, EnvironmentInv, ClientInv, GcInv DEF Next
<1>2. CASE UNCHANGED vars
  <2>1. UNCHANGED <<tree, disk, issued, now, cl, gc>>
    BY <1>2 DEF vars
  <2>2. Inflight' = Inflight /\ Spent' = Spent
    BY <2>1 DEF Inflight, Spent
  <2> QED
    BY <2>1, <2>2 DEF Inv, DataFollowsMetadata, NewDataProtected, DoomedAreDead
<1> QED  BY <1>1, <1>2

\* As long as the data nodes' clocks lag the server's by less than the safety
\* window, data follows metadata, new data is protected from every round under
\* way, and what a round deletes is dead for good.
THEOREM InvHolds ==
  ASSUME ClocksAgree
  PROVE  Spec => []Inv
<1>1. Init => Inv
  BY InitInv
<1>2. TypeOK /\ Inv /\ [Next]_vars => Inv'
  BY NextInv
<1> QED  BY <1>1, <1>2, TypeCorrect, PTL DEF Spec

\* The collector spares every file whose identity is in the tree, under the
\* same condition, for any number of concurrent rounds and clients.
THEOREM CollectorSparesLiveIds ==
  ASSUME ClocksAgree
  PROVE  Spec => []GcSparesLiveIds
<1>1. Inv => GcSparesLiveIds
  BY DEF Inv, DoomedAreDead, GcSparesLiveIds
<1> QED  BY <1>1, InvHolds, PTL

-----------------------------------------------------------------------------
(* Stores without overwriting uploads                                      *)

\* A tree made of another's files keeps replicas named by identity.
LEMMA FilesFromIdentity ==
  ASSUME ReplicasCarryIdentity, FilesFrom(tree', tree)
  PROVE  ReplicasCarryIdentity'
  BY DEF ReplicasCarryIdentity, FilesFrom

\* An upload that overwrites nothing names its replicas by its identity.
LEMMA CreateIdentity ==
  ASSUME TypeOK, Inv, NoOverwrites, ReplicasCarryIdentity,
         NEW c \in Clients, PutCreate(c)
  PROVE  ReplicasCarryIdentity'
<1> DEFINE u == cl[c]
<1>1. u \in CreateState
  BY ClientStates DEF PutCreate, TypeOK
<1>2. u.path \in Locations /\ u.mode # "OverwriteIfExists"
  BY <1>1 DEF CreateState, Locations, NoOverwrites
<1>3. \A r \in ToSet(u.replicas) : r.remote = u.id
  BY DEF PutCreate, Inv, DataFollowsMetadata
<1> HIDE DEF u
<1>4. CASE /\ CanCreateFile(tree, u.path, u.mode)
           /\ tree' = applyCreateFile(tree, u.path, u.id, u.size, u.replicas)
  <2>1. ~IsFile(tree, u.path)
    BY <1>2, <1>4 DEF CanCreateFile
  <2>2. tree' = [tree EXCEPT ![u.path] = NewFile(u.id, u.size, u.replicas)]
    BY <1>4, <2>1 DEF applyCreateFile
  <2>3. /\ NewFile(u.id, u.size, u.replicas).fileID = u.id
        /\ NewFile(u.id, u.size, u.replicas).replicas = u.replicas
    BY DEF NewFile
  <2> QED  BY <1>2, <1>3, <2>2, <2>3 DEF ReplicasCarryIdentity, TypeOK, IsFile
<1>5. CASE tree' = tree
  BY <1>5 DEF ReplicasCarryIdentity, IsFile
<1> QED  BY <1>4, <1>5 DEF PutCreate, u

\* So every step of a store without overwriting keeps them so named.
LEMMA NextIdentity ==
  ASSUME NoOverwrites
  PROVE  TypeOK /\ Inv /\ ReplicasCarryIdentity /\ [Next]_vars
           => ReplicasCarryIdentity'
<1> SUFFICES ASSUME TypeOK, Inv, ReplicasCarryIdentity, [Next]_vars
             PROVE  ReplicasCarryIdentity'
  OBVIOUS
<1>1. ASSUME NEW c \in Clients, PutCreate(c)
      PROVE  ReplicasCarryIdentity'
  BY <1>1, CreateIdentity
<1>2. ASSUME NEW c \in Clients, ChangesTree(c)
      PROVE  ReplicasCarryIdentity'
  BY <1>2, ChangesKeepFiles, FilesFromIdentity
<1>3. CASE tree' = tree
  BY <1>3 DEF ReplicasCarryIdentity, IsFile
<1>4. ASSUME NEW c \in Clients, ClientNext(c)
      PROVE  PutCreate(c) \/ ChangesTree(c) \/ tree' = tree
  BY <1>4 DEF ClientNext, PutNext, DeleteNext, ChangesTree, PutPrepare, PutStore,
              PutStoreFails, PutUndo, DeletePrepare, CleanReplica, CleanFails,
              CommitFails, ClientStops
<1>5. ASSUME NEW g \in GcRuns, GcNext(g)
      PROVE  tree' = tree
  BY <1>5 DEF GcNext, GcStart, GcHealth, GcRemove, GcRemoveFails, GcCollect,
              GcNodes, GcList, GcListFails, GcDelete, GcDeleteFails, GcNextNode
<1>6. CASE Tick \/ (\E a \in Addrs : Heartbeat(a) \/ Lapse(a)) \/ UNCHANGED vars
  BY <1>3, <1>6 DEF Tick, Heartbeat, Lapse, vars
<1> QED  BY <1>1, <1>2, <1>3, <1>4, <1>5, <1>6 DEF Next

\* With no overwriting uploads and clocks that agree, no round of the collector
\* deletes a replica of a file that is in the tree.
THEOREM CollectorSparesLiveData ==
  ASSUME ClocksAgree, NoOverwrites
  PROVE  Spec => []GcSparesLiveData
<1>1. Init => ReplicasCarryIdentity
  BY DEF Init, EmptyTree, ReplicasCarryIdentity, IsFile, NoEntry, Dir
<1>2. TypeOK /\ Inv /\ ReplicasCarryIdentity /\ [Next]_vars => ReplicasCarryIdentity'
  BY NextIdentity
<1>3. Inv /\ ReplicasCarryIdentity => GcSparesLiveData
  <2> SUFFICES ASSUME Inv, ReplicasCarryIdentity,
                      NEW g \in GcRuns, gc[g].pc = "sweep",
                      NEW r \in LiveReplicas(tree)
               PROVE  r.remote \notin gc[g].doomed
    BY DEF GcSparesLiveData
  <2>1. PICK p \in Locations : IsFile(tree, p) /\ r \in ToSet(tree[p].replicas)
    BY DEF LiveReplicas
  <2>2. r.remote = tree[p].fileID
    BY <2>1 DEF ReplicasCarryIdentity
  <2>3. r.remote \in LiveIds(tree)
    BY <2>1, <2>2 DEF LiveIds
  <2> QED  BY <2>3 DEF Inv, DoomedAreDead
<1> QED  BY <1>1, <1>2, <1>3, TypeCorrect, InvHolds, PTL DEF Spec

-----------------------------------------------------------------------------
(* Copies on different nodes                                               *)

\* No two of a file's replicas are on one node.
Apart(replicas) ==
  \A i, j \in DOMAIN replicas : replicas[i].addr = replicas[j].addr => i = j

\* What waits for the log: every upload has an identity of its own, and copies
\* on different nodes under it.
ProposalsInv ==
  /\ Inflight \subseteq issued
  /\ \A c, d \in Clients :
       cl[c].pc = "create" /\ cl[d].pc = "create" /\ cl[c].id = cl[d].id => c = d
  /\ \A c \in Clients :
       cl[c].pc = "create" => cl[c].replicas \in NS!ReplicaLists(cl[c].id)

PlacementInv ==
  /\ IsInjective(nodes)
  /\ ProposalsInv
  /\ \A p \in Locations : IsFile(tree, p) => Apart(tree[p].replicas)

\* A placement is of at least one node, and of none twice.
LEMMA PlacementApart ==
  ASSUME NEW id, NEW replicas \in NS!ReplicaLists(id)
  PROVE  Apart(replicas)
<1>1. PICK n \in 1..replicaCount : replicas \in [1..n -> [addr : Addrs, remote : {id}]]
  BY DEF NS!ReplicaLists
<1>2. \A i, j \in DOMAIN replicas : replicas[i] = replicas[j] => i = j
  BY DEF NS!ReplicaLists, NS!IsInjective
<1>3. ASSUME NEW i \in DOMAIN replicas, NEW j \in DOMAIN replicas,
             replicas[i].addr = replicas[j].addr
      PROVE  i = j
  <2>1. replicas[i] \in [addr : Addrs, remote : {id}]
        /\ replicas[j] \in [addr : Addrs, remote : {id}]
    BY <1>1
  <2>2. replicas[i] = replicas[j]
    BY <1>3, <2>1
  <2> QED  BY <1>2, <2>2
<1> QED  BY <1>3 DEF Apart

\* A client begins an upload, or its next state is no proposal.
LEMMA ClientMoves ==
  ASSUME TypeOK, NEW c \in Clients, ClientNext(c)
  PROVE  \/ \E p \in Paths, mode \in Modes, id \in FileIds, size \in Sizes :
              PutPrepare(c, p, mode, id, size)
         \/ /\ \E s : cl' = [cl EXCEPT ![c] = s] /\ s.pc # "create"
            /\ issued' = issued
<1> DEFINE Goes == /\ \E s : cl' = [cl EXCEPT ![c] = s] /\ s.pc # "create"
                   /\ issued' = issued
<1>1. ASSUME NEW p \in Owns[c], NEW mode \in Modes, NEW id \in FileIds,
             NEW size \in Sizes, PutPrepare(c, p, mode, id, size)
      PROVE  p \in Paths
  BY OwnsAssumption
<1>2. Idle.pc # "create"
  BY DEF Idle
<1>3. CASE PutCreate(c)
  BY <1>2, <1>3 DEF PutCreate
<1>4. ASSUME NEW r \in Replica, NEW acknowledged \in BOOLEAN, PutStore(c, r, acknowledged)
      PROVE  Goes
  <2> DEFINE s == [cl[c] EXCEPT !.todo = @ \ {r}, !.ok = @ \/ acknowledged]
  <2>1. cl[c] \in StoreState
    BY <1>4, ClientStates DEF PutStore, TypeOK
  <2>2. s.pc = "store" /\ cl' = [cl EXCEPT ![c] = s] /\ issued' = issued
    BY <1>4, <2>1 DEF PutStore, StoreState
  <2> HIDE DEF s
  <2> QED  BY <2>2
<1>5. ASSUME NEW r \in Replica, PutStoreFails(c, r) PROVE Goes
  <2> DEFINE s == [cl[c] EXCEPT !.todo = @ \ {r}]
  <2>1. cl[c] \in StoreState
    BY <1>5, ClientStates DEF PutStoreFails, TypeOK
  <2>2. s.pc = "store" /\ cl' = [cl EXCEPT ![c] = s] /\ issued' = issued
    BY <1>5, <2>1 DEF PutStoreFails, StoreState
  <2> HIDE DEF s
  <2> QED  BY <2>2
<1>6. CASE PutUndo(c) \/ \E p \in Owns[c] : DeletePrepare(c, p)
  BY <1>6, LookedUpIs DEF PutUndo, DeletePrepare
<1>7. CASE CleanReplica(c) \/ CleanFails(c)
  BY <1>2, <1>7 DEF CleanReplica, CleanFails, Cleaned
<1>8. CASE CommitFails(c) \/ ClientStops(c) \/ PutComplete(c)
  BY <1>2, <1>8 DEF CommitFails, ClientStops, PutComplete
<1>9. CASE DeleteCommit(c)
  <2>1. cl' = [cl EXCEPT ![c] = IF cl[c].replicas = <<>> THEN Idle
                                ELSE [pc |-> "clean", replicas |-> cl[c].replicas]]
        \/ cl' = [cl EXCEPT ![c] = Idle]
    BY <1>9 DEF DeleteCommit
  <2>2. issued' = issued
    BY <1>9 DEF DeleteCommit
  <2> QED  BY <1>2, <2>1, <2>2
<1>10. CASE \/ \E p \in Owns[c] : Mkdir(c, p)
            \/ \E src, dst \in Owns[c] : Rename(c, src, dst)
  <2>1. cl[c] = Idle /\ cl' = cl /\ issued' = issued
    BY <1>10 DEF Mkdir, Rename
  <2>2. cl' = [cl EXCEPT ![c] = Idle]
    BY <2>1 DEF TypeOK
  <2> QED  BY <1>2, <2>1, <2>2
<1> HIDE DEF Goes
<1> QED
  BY <1>1, <1>3, <1>4, <1>5, <1>6, <1>7, <1>8, <1>9, <1>10
     DEF Goes, ClientNext, PutNext, DeleteNext

\* No other step moves a client.
LEMMA OthersLeaveClients ==
  ASSUME [Next]_vars
  PROVE  \/ \E c \in Clients : ClientNext(c)
         \/ UNCHANGED <<tree, issued, cl>>
<1>1. ASSUME NEW g \in GcRuns, GcNext(g)
      PROVE  UNCHANGED <<tree, issued, cl>>
  BY <1>1 DEF GcNext, GcStart, GcHealth, GcRemove, GcRemoveFails, GcCollect,
              GcNodes, GcList, GcListFails, GcDelete, GcDeleteFails, GcNextNode
<1>2. CASE Tick \/ (\E a \in Addrs : Heartbeat(a) \/ Lapse(a)) \/ UNCHANGED vars
  BY <1>2 DEF Tick, Heartbeat, Lapse, vars
<1> QED  BY <1>1, <1>2 DEF Next

\* An upload that begins: its identity is new to all that wait.
LEMMA PrepareProposes ==
  ASSUME TypeOK, PlacementInv, NEW c \in Clients, NEW p \in Paths, NEW mode \in Modes,
         NEW id \in FileIds, NEW size \in Sizes, PutPrepare(c, p, mode, id, size)
  PROVE  ProposalsInv' /\ Spent' = Spent /\ tree' = tree
<1> DEFINE reps == selectDataNodes(nodes, p, id)
           s == [pc |-> "create", path |-> p, mode |-> mode, id |-> id,
                 size |-> size, replicas |-> reps]
<1>1. reps \in NS!ReplicaLists(id)
  <2>1. nodes \in Seq(Addrs) /\ nodes # <<>> /\ IsInjective(nodes)
    BY DEF PutPrepare, TypeOK, PlacementInv
  <2> HIDE DEF reps
  <2>2. PICK n \in 1..replicaCount :
          reps \in [1..n -> [addr : Addrs, remote : {id}]] /\ IsInjective(reps)
    BY <2>1, SelectDataNodesDistinct DEF reps
  <2> QED  BY <2>2 DEF NS!ReplicaLists, NS!IsInjective, IsInjective
<1>2. s.pc = "create" /\ s.id = id /\ s.replicas = reps
  OBVIOUS
<1> HIDE DEF reps
<1>3. \A d \in Clients : cl'[d] = IF d = c THEN s ELSE cl[d]
  BY DEF PutPrepare, TypeOK, reps
<1> HIDE DEF s
<1>4. cl[c].pc # "create"
  BY DEF PutPrepare, Idle
<1>5. Inflight' = Inflight \cup {id}
  BY <1>2, <1>3, <1>4 DEF Inflight
<1>6. issued' = issued \cup {id} /\ id \notin issued /\ tree' = tree
  BY DEF PutPrepare
<1>7. Spent' = Spent
  BY <1>5, <1>6 DEF Spent
<1>8. \A d \in Clients : cl[d].pc = "create" => cl[d].id # id
  BY <1>6 DEF PlacementInv, ProposalsInv, Inflight
<1>9. ProposalsInv'
  <2>1. Inflight' \subseteq issued'
    BY <1>5, <1>6 DEF PlacementInv, ProposalsInv
  <2>2. ASSUME NEW d \in Clients, NEW e \in Clients, cl'[d].pc = "create",
               cl'[e].pc = "create", cl'[d].id = cl'[e].id
        PROVE  d = e
    BY <1>2, <1>3, <1>8, <2>2 DEF PlacementInv, ProposalsInv
  <2>3. ASSUME NEW d \in Clients, cl'[d].pc = "create"
        PROVE  cl'[d].replicas \in NS!ReplicaLists(cl'[d].id)
    BY <1>1, <1>2, <1>3, <2>3 DEF PlacementInv, ProposalsInv
  <2>4. \A x : NS!ReplicaLists(x)' = NS!ReplicaLists(x)
    BY DEF NS!ReplicaLists, NS!IsInjective
  <2> QED  BY <2>1, <2>2, <2>3 DEF ProposalsInv, NS!ReplicaLists
<1> QED  BY <1>6, <1>7, <1>9

\* A client that goes on takes what it proposed out of what waits; what it
\* proposed counts as spent from then on.
LEMMA GoingOnSpends ==
  ASSUME TypeOK, PlacementInv, NEW c \in Clients, NEW s, s.pc # "create",
         cl' = [cl EXCEPT ![c] = s], issued' = issued
  PROVE  /\ ProposalsInv'
         /\ cl[c].pc # "create" => Spent' = Spent
         /\ cl[c].pc = "create" =>
              Spent' = Spent \cup {cl[c].id} /\ cl[c].id \notin Spent
<1>1. \A d \in Clients : cl'[d] = IF d = c THEN s ELSE cl[d]
  BY DEF TypeOK
<1>2. \A d \in Clients : cl'[d].pc = "create" => d # c /\ cl'[d] = cl[d]
  BY <1>1
<1>3. Inflight' = {cl[d].id : d \in {x \in Clients \ {c} : cl[x].pc = "create"}}
  BY <1>1, <1>2 DEF Inflight
<1>4. cl[c].pc # "create" => Inflight' = Inflight
  BY <1>3 DEF Inflight
<1>5. cl[c].pc = "create" =>
        Inflight' = Inflight \ {cl[c].id} /\ cl[c].id \in Inflight
  BY <1>3 DEF Inflight, PlacementInv, ProposalsInv
<1>6. ProposalsInv'
  <2>1. Inflight' \subseteq issued'
    BY <1>4, <1>5 DEF PlacementInv, ProposalsInv
  <2> QED  BY <1>2, <2>1 DEF PlacementInv, ProposalsInv, NS!ReplicaLists
<1> QED  BY <1>4, <1>5, <1>6 DEF Spent, PlacementInv, ProposalsInv

\* Every step keeps copies on different nodes.
LEMMA NextPlacement == TypeOK /\ PlacementInv /\ [Next]_vars => PlacementInv'
<1> SUFFICES ASSUME TypeOK, PlacementInv, [Next]_vars
             PROVE  PlacementInv'
  OBVIOUS
<1>1. IsInjective(nodes)'
  <2>1. nodes \in Seq(Addrs) /\ IsInjective(nodes)
    BY DEF TypeOK, PlacementInv
  <2>2. \/ nodes' = nodes
        \/ \E a \in Addrs : \/ nodes' = applyHeartbeat(nodes, a)
                            \/ nodes' = applyRemoveDataNode(nodes, a)
    <3>1. ASSUME NEW c \in Clients, ClientNext(c) PROVE nodes' = nodes
      BY <3>1
      DEF ClientNext, PutNext, DeleteNext, PutPrepare, PutCreate, PutStore, PutStoreFails,
          PutComplete, PutUndo, DeletePrepare, DeleteCommit, CleanReplica, CleanFails,
          Mkdir, Rename, CommitFails, ClientStops, mds
    <3>2. ASSUME NEW g \in GcRuns, GcNext(g)
          PROVE  nodes' = nodes \/ \E a \in Addrs : nodes' = applyRemoveDataNode(nodes, a)
      BY <3>2 DEF GcNext, GcStart, GcHealth, GcRemove, GcRemoveFails, GcCollect,
              GcNodes, GcList, GcListFails, GcDelete, GcDeleteFails, GcNextNode, mds
    <3> QED  BY <3>1, <3>2 DEF Next, Heartbeat, Lapse, Tick, vars
  <2> QED  BY <2>1, <2>2, HeartbeatMembers, RemoveDataNodeMembers
<1>2. ProposalsInv'
  <2>1. CASE UNCHANGED <<tree, issued, cl>>
    BY <2>1 DEF PlacementInv, ProposalsInv, Inflight, NS!ReplicaLists
  <2>2. ASSUME NEW c \in Clients, ClientNext(c) PROVE ProposalsInv'
    BY <2>2, ClientMoves, PrepareProposes, GoingOnSpends
  <2> QED  BY <2>1, <2>2, OthersLeaveClients
<1>3. ASSUME NEW p \in Locations, IsFile(tree', p) PROVE Apart(tree'[p].replicas)
  <2>1. CASE FilesFrom(tree', tree)
    BY <1>3, <2>1 DEF FilesFrom, PlacementInv
  <2>2. ASSUME NEW c \in Clients, PutCreate(c), ~FilesFrom(tree', tree)
        PROVE  Apart(tree'[p].replicas)
    <3>1. cl[c] \in CreateState /\ Apart(cl[c].replicas)
      BY <2>2, ClientStates, PlacementApart DEF PutCreate, TypeOK, PlacementInv, ProposalsInv
    <3>2. tree' = applyCreateFile(tree, cl[c].path, cl[c].id, cl[c].size, cl[c].replicas)
      BY <2>2 DEF PutCreate, FilesFrom
    <3>3. cl[c].path \in Locations
      BY <3>1 DEF CreateState, Locations
    <3>4. p # cl[c].path => tree'[p] = tree[p]
      BY <3>2, <3>3 DEF applyCreateFile, TypeOK
    <3>5. p = cl[c].path => tree'[p].replicas = cl[c].replicas
      BY <1>3, <3>2, <3>3 DEF applyCreateFile, TypeOK, NewFile, IsFile
    <3> QED  BY <1>3, <3>1, <3>4, <3>5 DEF PlacementInv, IsFile
  <2>3. ASSUME NEW c \in Clients, ChangesTree(c) PROVE FilesFrom(tree', tree)
    BY <2>3, ChangesKeepFiles
  <2>4. tree' = tree => FilesFrom(tree', tree)
    BY DEF FilesFrom
  <2>5. ASSUME NEW c \in Clients, ClientNext(c)
        PROVE  PutCreate(c) \/ ChangesTree(c) \/ tree' = tree
    BY <2>5 DEF ClientNext, PutNext, DeleteNext, ChangesTree, PutPrepare, PutStore,
                PutStoreFails, PutUndo, DeletePrepare, CleanReplica, CleanFails,
                CommitFails, ClientStops
  <2> QED  BY <2>1, <2>2, <2>3, <2>4, <2>5, OthersLeaveClients
<1> QED  BY <1>1, <1>2, <1>3 DEF PlacementInv

\* At the beginning there are neither nodes nor files.
LEMMA InitPlacement == Init => PlacementInv
  BY DEF Init, PlacementInv, ProposalsInv, Inflight, Idle, IsInjective, EmptyTree, IsFile,
         Dir, NoEntry

\* However heartbeats, removals and uploads interleave, the membership names no
\* node twice and no file has two replicas on one node.
THEOREM NodesStayDistinct == Spec => []ReplicasOnDistinctNodes
<1>1. PlacementInv => ReplicasOnDistinctNodes
  BY DEF PlacementInv, ReplicasOnDistinctNodes, Apart, Locations
<1> QED  BY <1>1, InitPlacement, NextPlacement, TypeCorrect, PTL DEF Spec

-----------------------------------------------------------------------------
(* The store as a namespace                                                *)

\* Namespace has the operators of MetaState.
LEMMA NamespaceOperators ==
  /\ NS!Locations = Locations /\ NS!CreateModes = CreateModes
  /\ NS!EmptyTree = EmptyTree
  /\ \A t, p : /\ NS!CanMkdir(t, p) <=> CanMkdir(t, p)
               /\ NS!applyMkdir(t, p) = applyMkdir(t, p)
  /\ \A t, p, mode : NS!CanCreateFile(t, p, mode) <=> CanCreateFile(t, p, mode)
  /\ \A t, p, id, size, replicas :
       NS!applyCreateFile(t, p, id, size, replicas)
         = applyCreateFile(t, p, id, size, replicas)
  /\ \A t, p : /\ NS!CanCompleteFile(t, p) <=> CanCompleteFile(t, p)
               /\ NS!applyCompleteFile(t, p) = applyCompleteFile(t, p)
  /\ \A t, p : NS!CanUpdateSize(t, p) <=> CanUpdateSize(t, p)
  /\ \A t, p, size : NS!applyUpdateSize(t, p, size) = applyUpdateSize(t, p, size)
  /\ \A t, p : /\ NS!CanDelete(t, p) <=> CanDelete(t, p)
               /\ NS!applyDelete(t, p) = applyDelete(t, p)
  /\ \A t, p, q : /\ NS!CanRename(t, p, q) <=> CanRename(t, p, q)
                  /\ NS!applyRename(t, p, q) = applyRename(t, p, q)
                  /\ NS!Fits(t, p, q) <=> Fits(t, p, q)
<1> USE DEF NS!Root, Root, NS!Dir, Dir, NS!NoEntry, NoEntry, NS!IsDir, IsDir, NS!IsFile,
            IsFile, NS!Exists, Exists, NS!IsPrefix, IsPrefix
<1>1. NS!Locations = Locations /\ NS!CreateModes = CreateModes
  BY DEF NS!Locations, Locations, NS!CreateModes, CreateModes
<1>2. NS!EmptyTree = EmptyTree
  BY <1>1 DEF NS!EmptyTree, EmptyTree
<1>3. \A t, p : /\ NS!CanMkdir(t, p) <=> CanMkdir(t, p)
                /\ NS!applyMkdir(t, p) = applyMkdir(t, p)
  BY <1>1 DEF NS!CanMkdir, CanMkdir, NS!applyMkdir, applyMkdir
<1>4. \A t, p, mode : NS!CanCreateFile(t, p, mode) <=> CanCreateFile(t, p, mode)
  BY DEF NS!CanCreateFile, CanCreateFile, NS!Parent, Parent, NS!Front, Front
<1>5. \A t, p, id, size, replicas :
        NS!applyCreateFile(t, p, id, size, replicas)
          = applyCreateFile(t, p, id, size, replicas)
  BY DEF NS!applyCreateFile, applyCreateFile, NS!NewFile, NewFile
<1>6. \A t, p : /\ NS!CanCompleteFile(t, p) <=> CanCompleteFile(t, p)
                /\ NS!applyCompleteFile(t, p) = applyCompleteFile(t, p)
  BY DEF NS!CanCompleteFile, CanCompleteFile, NS!applyCompleteFile, applyCompleteFile
<1>7. /\ \A t, p : NS!CanUpdateSize(t, p) <=> CanUpdateSize(t, p)
      /\ \A t, p, size : NS!applyUpdateSize(t, p, size) = applyUpdateSize(t, p, size)
  BY DEF NS!CanUpdateSize, CanUpdateSize, NS!applyUpdateSize, applyUpdateSize
<1>8. \A t, p : /\ NS!CanDelete(t, p) <=> CanDelete(t, p)
                /\ NS!applyDelete(t, p) = applyDelete(t, p)
  BY <1>1 DEF NS!CanDelete, CanDelete, NS!applyDelete, applyDelete
<1>9. \A t, p, q : /\ NS!CanRename(t, p, q) <=> CanRename(t, p, q)
                   /\ NS!applyRename(t, p, q) = applyRename(t, p, q)
                   /\ NS!Fits(t, p, q) <=> Fits(t, p, q)
  BY <1>1
  DEF NS!CanRename, CanRename, NS!applyRename, applyRename, NS!Fits, Fits,
      NS!MovedFrom, MovedFrom, NS!Parent, Parent, NS!Front, Front
<1> QED  BY <1>1, <1>2, <1>3, <1>4, <1>5, <1>6, <1>7, <1>8, <1>9

\* The command of an upload: a create of the namespace, or its identity is lost.
LEMMA PutCreateNamespace ==
  ASSUME TypeOK, PlacementInv, NEW c \in Clients, PutCreate(c)
  PROVE  NS!Next
<1> DEFINE u == cl[c]
           s == [pc |-> "store", path |-> u.path, id |-> u.id,
                 todo |-> ToSet(u.replicas), ok |-> FALSE]
<1>1. u \in CreateState /\ u.pc = "create"
  BY ClientStates DEF PutCreate, TypeOK
<1>2. /\ u.path \in Paths /\ u.mode \in CreateModes /\ u.id \in FileIds /\ u.size \in Sizes
      /\ u.replicas \in NS!ReplicaLists(u.id)
  BY <1>1, ModesAssumption DEF CreateState, PlacementInv, ProposalsInv
<1>3. issued' = issued /\ s.pc # "create" /\ Idle.pc # "create"
  BY DEF PutCreate, Idle
<1>4. CASE /\ CanCreateFile(tree, u.path, u.mode)
           /\ tree' = applyCreateFile(tree, u.path, u.id, u.size, u.replicas)
           /\ cl' = [cl EXCEPT ![c] = s]
  <2> HIDE DEF s
  <2>1. Spent' = Spent \cup {u.id} /\ u.id \notin Spent
    BY <1>1, <1>3, <1>4, GoingOnSpends
  <2> HIDE DEF u
  <2>2. NS!CreateFile(u.path, u.mode, u.id, u.size, u.replicas)
    BY <1>4, <2>1, NamespaceOperators DEF NS!CreateFile
  <2> QED  BY <1>2, <2>2, NamespaceOperators DEF NS!Next
<1>5. CASE tree' = tree /\ cl' = [cl EXCEPT ![c] = Idle]
  <2>1. Spent' = Spent \cup {u.id} /\ u.id \notin Spent
    BY <1>1, <1>3, <1>5, GoingOnSpends
  <2> HIDE DEF u
  <2>2. NS!Discard(u.id)
    BY <1>5, <2>1 DEF NS!Discard
  <2> QED  BY <1>2, <2>2 DEF NS!Next
<1> QED  BY <1>4, <1>5 DEF PutCreate

\* What a client does to the tree besides are commands of the namespace.
LEMMA ChangesNamespace ==
  ASSUME TypeOK, NEW c \in Clients, ChangesTree(c), Spent' = Spent
  PROVE  NS!Next \/ UNCHANGED NS!vars
<1>1. CASE PutComplete(c)
  <2>1. cl[c].path \in Paths
    BY <1>1, ClientStates DEF PutComplete, TypeOK, StoreState
  <2>2. CASE CanCompleteFile(tree, cl[c].path)
    <3>1. NS!CompleteFile(cl[c].path)
      BY <1>1, <2>2, NamespaceOperators DEF PutComplete, NS!CompleteFile
    <3> QED  BY <2>1, <3>1 DEF NS!Next
  <2>3. CASE ~CanCompleteFile(tree, cl[c].path)
    BY <1>1, <2>3 DEF PutComplete, NS!vars
  <2> QED  BY <2>2, <2>3
<1>2. CASE DeleteCommit(c)
  <2>1. cl[c].path \in Paths
    BY <1>2, ClientStates DEF DeleteCommit, TypeOK, UnlinkState
  <2>2. CASE CanDelete(tree, cl[c].path) /\ tree' = applyDelete(tree, cl[c].path)
    <3>1. NS!Delete(cl[c].path)
      BY <2>2, NamespaceOperators DEF NS!Delete
    <3> QED  BY <2>1, <3>1 DEF NS!Next
  <2>3. CASE tree' = tree
    BY <2>3 DEF NS!vars
  <2> QED  BY <1>2, <2>2, <2>3 DEF DeleteCommit
<1>3. ASSUME NEW p \in Owns[c], Mkdir(c, p)
      PROVE  NS!Next
  <2>1. p \in Locations
    BY OwnsAssumption DEF Locations
  <2>2. NS!Mkdir(p)
    BY <1>3, NamespaceOperators DEF Mkdir, NS!Mkdir
  <2> QED  BY <2>1, <2>2, NamespaceOperators DEF NS!Next
<1>4. ASSUME NEW src \in Owns[c], NEW dst \in Owns[c], Rename(c, src, dst)
      PROVE  NS!Next
  <2>1. src \in Paths /\ dst \in Paths
    BY OwnsAssumption
  <2>2. NS!Rename(src, dst)
    BY <1>4, NamespaceOperators DEF Rename, NS!Rename
  <2> QED  BY <2>1, <2>2 DEF NS!Next
<1> QED  BY <1>1, <1>2, <1>3, <1>4 DEF ChangesTree

\* A step of the store is a command of the namespace or leaves it as it is.
LEMMA NextNamespace ==
  TypeOK /\ PlacementInv /\ [Next]_vars => NS!Next \/ UNCHANGED NS!vars
<1> SUFFICES ASSUME TypeOK, PlacementInv, [Next]_vars
             PROVE  NS!Next \/ UNCHANGED NS!vars
  OBVIOUS
<1>1. CASE UNCHANGED <<tree, issued, cl>>
  BY <1>1 DEF NS!vars, Spent, Inflight
<1>2. ASSUME NEW c \in Clients, ClientNext(c)
      PROVE  NS!Next \/ UNCHANGED NS!vars
  <2>1. CASE \E p \in Paths, mode \in Modes, id \in FileIds, size \in Sizes :
               PutPrepare(c, p, mode, id, size)
    BY <2>1, PrepareProposes DEF NS!vars
  <2>2. CASE PutCreate(c)
    BY <2>2, PutCreateNamespace
  <2>3. CASE CommitFails(c) /\ cl[c].pc = "create"
    <3>1. cl' = [cl EXCEPT ![c] = Idle] /\ Idle.pc # "create"
          /\ tree' = tree /\ issued' = issued
      BY <2>3 DEF CommitFails, Idle
    <3>2. Spent' = Spent \cup {cl[c].id} /\ cl[c].id \notin Spent
      BY <2>3, <3>1, GoingOnSpends
    <3>3. cl[c].id \in FileIds
      BY <2>3, ClientStates DEF TypeOK, CreateState
    <3>4. NS!Discard(cl[c].id)
      BY <3>1, <3>2 DEF NS!Discard
    <3> QED  BY <3>3, <3>4 DEF NS!Next
  <2>4. CASE /\ cl[c].pc # "create"
             /\ ~\E p \in Paths, mode \in Modes, id \in FileIds, size \in Sizes :
                  PutPrepare(c, p, mode, id, size)
    <3>1. Spent' = Spent
      BY <1>2, <2>4, ClientMoves, GoingOnSpends
    <3>2. ChangesTree(c) \/ tree' = tree
      BY <1>2, <2>4
      DEF ClientNext, PutNext, DeleteNext, ChangesTree, PutPrepare, PutCreate, PutStore,
          PutStoreFails, PutUndo, DeletePrepare, CleanReplica, CleanFails,
          CommitFails, ClientStops
    <3> QED  BY <3>1, <3>2, ChangesNamespace DEF NS!vars
  <2>5. cl[c].pc = "create" => PutCreate(c) \/ CommitFails(c)
    BY <1>2 DEF ClientNext, PutNext, DeleteNext, PutPrepare, PutStore,
          PutStoreFails, PutComplete, PutUndo, DeletePrepare, DeleteCommit, CleanReplica,
          CleanFails, Mkdir, Rename, ClientStops, Idle
  <2> QED  BY <2>1, <2>2, <2>3, <2>4, <2>5
<1> QED  BY <1>1, <1>2, OthersLeaveClients

\* At the beginning the namespace is empty.
LEMMA InitNamespace == Init => NS!Init
  BY NamespaceOperators DEF Init, NS!Init, Spent, Inflight

\* Uploads, deletes and renames of any number of clients, with the failures
\* between their calls and the collector at work, make a history of the
\* namespace.
THEOREM StoreIsANamespace == Spec => RefinesNamespace
<1>1. TypeOK /\ PlacementInv /\ [Next]_vars => [NS!Next]_(NS!vars)
  BY NextNamespace
<1> QED
  BY <1>1, InitNamespace, InitPlacement, NextPlacement, TypeCorrect, PTL
     DEF Spec, RefinesNamespace, NS!Spec
=============================================================================
