------------------------------ MODULE FileStore ------------------------------
(***************************************************************************)
(* The file store at work: clients that upload and delete files in several *)
(* remote calls, data nodes that hold the copies, and the garbage          *)
(* collector of the metadata server, which decides from a snapshot of the  *)
(* tree what to delete from the data nodes.                                *)
(*                                                                         *)
(* One action is one critical section of the code: a handler's read under  *)
(* mds.mu, a command applied by the log, one remote call to a data node.   *)
(* Between two of them anything may happen.  The log itself is external    *)
(* and stands for a sequence of commands; here a single metadata server,   *)
(* always up, applies them.                                                *)
(*                                                                         *)
(* A physical file is written once, by the upload that its name was        *)
(* generated for, so its FileID also stands for its contents.              *)
(***************************************************************************)
EXTENDS MetaState, Integers

CONSTANTS
  Clients,
  Owns,        \* Owns[c]: the paths that client c works on
  Modes,       \* the create modes that uploads use
  GcRuns,      \* rounds of runGC that can be under way at once
  Window,      \* gcSafetyWindow, in ticks
  Skew,        \* Skew[a]: how far a data node's clock is ahead of the server's
  Flaky,       \* the nodes whose heartbeats may stop coming
  MaxTime,     \* bound: the clock stops here
  Horizon      \* bound: no new disturbance (upload, lapse) after this time

ASSUME OwnsAssumption == Owns \in [Clients -> SUBSET Paths]
ASSUME ModesAssumption == Modes \subseteq CreateModes
ASSUME TimeAssumption == Window \in Nat /\ MaxTime \in Nat /\ Horizon \in Nat
ASSUME SkewAssumption == Skew \in [Addrs -> Int]

\* The clocks agree to within the safety window.
ClocksAgree == \A a \in Addrs : Skew[a] > -Window

VARIABLES
  tree,     \* MetadataServer.root
  nodes,    \* MetadataServer.dataNodes, in order of registration
  late,     \* the nodes whose lastHeartbeat is older than heartbeatTimeout
  disk,     \* disk[a]: the files under the data directory of node a
  issued,   \* the FileIDs generated so far
  now,      \* the metadata server's clock
  cl,       \* cl[c]: what client c, or the handler serving it, is doing
  gc        \* gc[g]: the state of round g of runGC

vars == <<tree, nodes, late, disk, issued, now, cl, gc>>
mds == <<nodes, late>>

-----------------------------------------------------------------------------
(* State                                                                   *)

\* A file of ListAllPaths: its name /data/{id} and the node's time of writing.
NodeFile == [id : FileIds, mtime : Int]

Idle == [pc |-> "idle"]

\* CreateFile has validated and placed, and waits for the log.
CreateState == [pc : {"create"}, path : Paths, mode : Modes, id : FileIds,
                size : Sizes, replicas : Seq(Replica)]
\* PutFile's StoreData calls; ok: one has succeeded.
StoreState == [pc : {"store"}, path : Paths, id : FileIds, todo : SUBSET Replica,
               ok : BOOLEAN]
\* Delete has looked the target up and waits for the log.
UnlinkState == [pc : {"unlink"}, path : Paths, replicas : Seq(Replica)]
\* The client's DeleteData calls, in order.
CleanState == [pc : {"clean"}, replicas : Seq(Replica) \ {<<>>}]

ClientState == {Idle} \cup CreateState \cup StoreState \cup UnlinkState
                 \cup CleanState

Off == [pc |-> "off"]

HealthState == [pc : {"health"}, start : Nat]
RemoveState == [pc : {"remove"}, start : Nat, dead : SUBSET Addrs]
NodesState  == [pc : {"nodes"}, start : Nat, valid : SUBSET FileIds]
\* The node at the head of todo is to be listed, or is being swept.
ScanState   == [pc : {"scan"}, start : Nat, valid : SUBSET FileIds,
                todo : Seq(Addrs) \ {<<>>}]
SweepState  == [pc : {"sweep"}, start : Nat, valid : SUBSET FileIds,
                todo : Seq(Addrs) \ {<<>>}, doomed : SUBSET FileIds]

GcState == {Off} \cup HealthState \cup RemoveState \cup NodesState
             \cup ScanState \cup SweepState

TypeOK ==
  /\ tree \in [Locations -> Entry]
  /\ nodes \in Seq(Addrs)
  /\ late \subseteq Addrs
  /\ disk \in [Addrs -> SUBSET NodeFile]
  /\ issued \subseteq FileIds
  /\ now \in Nat
  /\ cl \in [Clients -> ClientState]
  /\ gc \in [GcRuns -> GcState]

Init ==
  /\ tree = EmptyTree
  /\ nodes = <<>>
  /\ late = {}
  /\ disk = [a \in Addrs |-> {}]
  /\ issued = {}
  /\ now = 0
  /\ cl = [c \in Clients |-> Idle]
  /\ gc = [g \in GcRuns |-> Off]

-----------------------------------------------------------------------------
(* Membership                                                              *)

\* A heartbeat has been applied; the first one registers the node.
Heartbeat(a) ==
  /\ nodes' = applyHeartbeat(nodes, a)
  /\ late' = late \ {a}
  /\ UNCHANGED <<tree, disk, issued, now, cl, gc>>

\* The last heartbeat of a node has become older than heartbeatTimeout.
Lapse(a) ==
  /\ now <= Horizon
  /\ a \in Flaky \cap ToSet(nodes)
  /\ late' = late \cup {a}
  /\ UNCHANGED <<tree, nodes, disk, issued, now, cl, gc>>

Tick ==
  /\ now < MaxTime
  /\ now' = now + 1
  /\ UNCHANGED <<tree, nodes, late, disk, issued, cl, gc>>

-----------------------------------------------------------------------------
(* PutFile                                                                 *)

\* Bug: the identity may be one in use (derived from the path, say).
PutPrepareReusingIds(c, p, mode, id, size) ==
  /\ now <= Horizon
  /\ cl[c] = Idle
  /\ nodes # <<>>
  /\ IsDir(tree, Parent(p))
  /\ issued' = issued \cup {id}
  /\ cl' = [cl EXCEPT ![c] =
              [pc |-> "create", path |-> p, mode |-> mode, id |-> id,
               size |-> size, replicas |-> selectDataNodes(nodes, p, id)]]
  /\ UNCHANGED <<tree, mds, disk, now, gc>>

\* CreateFile before the log: the parent is there, nodes are registered.
PutPrepare(c, p, mode, id, size) ==
  /\ now <= Horizon
  /\ cl[c] = Idle
  /\ id \notin issued
  /\ nodes # <<>>
  /\ IsDir(tree, Parent(p))
  /\ issued' = issued \cup {id}
  /\ cl' = [cl EXCEPT ![c] =
              [pc |-> "create", path |-> p, mode |-> mode, id |-> id,
               size |-> size, replicas |-> selectDataNodes(nodes, p, id)]]
  /\ UNCHANGED <<tree, mds, disk, now, gc>>

\* Bug: Apply trusts the validation done before the log.
PutCreateUnchecked(c) ==
  /\ cl[c].pc = "create"
  /\ LET u == cl[c] IN
       /\ tree' = applyCreateFile(tree, u.path, u.id, u.size, u.replicas)
       /\ cl' = [cl EXCEPT ![c] =
                   [pc |-> "store", path |-> u.path, id |-> u.id,
                    todo |-> ToSet(u.replicas), ok |-> FALSE]]
  /\ UNCHANGED <<mds, disk, issued, now, gc>>

\* The command is applied, or rejected by Apply: then the upload has failed.
PutCreate(c) ==
  /\ cl[c].pc = "create"
  /\ LET u == cl[c] IN
     \/ /\ CanCreateFile(tree, u.path, u.mode)
        /\ tree' = applyCreateFile(tree, u.path, u.id, u.size, u.replicas)
        /\ cl' = [cl EXCEPT ![c] =
                    [pc |-> "store", path |-> u.path, id |-> u.id,
                     todo |-> ToSet(u.replicas), ok |-> FALSE]]
     \/ /\ ~CanCreateFile(tree, u.path, u.mode)
        /\ cl' = [cl EXCEPT ![c] = Idle]
        /\ UNCHANGED tree
  /\ UNCHANGED <<mds, disk, issued, now, gc>>

\* The file is written under a temporary name and renamed: it replaces what
\* was there, and its mtime is the node's own time.
Stored(a, id) ==
  {f \in disk[a] : f.id # id} \cup {[id |-> id, mtime |-> now + Skew[a]]}

\* A StoreData call returns; acknowledged is whether its answer arrives.
PutStore(c, r, acknowledged) ==
  /\ now <= Horizon
  /\ cl[c].pc = "store"
  /\ r \in cl[c].todo
  /\ disk' = [disk EXCEPT ![r.addr] = Stored(r.addr, r.remote)]
  /\ cl' = [cl EXCEPT ![c].todo = @ \ {r}, ![c].ok = @ \/ acknowledged]
  /\ UNCHANGED <<tree, mds, issued, now, gc>>

\* A StoreData call fails without an effect: the node cannot be reached.
PutStoreFails(c, r) ==
  /\ cl[c].pc = "store"
  /\ r \in cl[c].todo
  /\ cl' = [cl EXCEPT ![c].todo = @ \ {r}]
  /\ UNCHANGED <<tree, mds, disk, issued, now, gc>>

\* Bug: the file is completed although no node has stored it.
PutCompleteAnyway(c) ==
  /\ cl[c].pc = "store"
  /\ cl[c].todo = {}
  /\ tree' = IF CanCompleteFile(tree, cl[c].path)
               THEN applyCompleteFile(tree, cl[c].path) ELSE tree
  /\ cl' = [cl EXCEPT ![c] = Idle]
  /\ UNCHANGED <<mds, disk, issued, now, gc>>

\* One copy is enough.  CompleteFile names the path; that it fails is only
\* logged.
PutComplete(c) ==
  /\ cl[c].pc = "store"
  /\ cl[c].todo = {}
  /\ cl[c].ok
  /\ tree' = IF CanCompleteFile(tree, cl[c].path)
               THEN applyCompleteFile(tree, cl[c].path) ELSE tree
  /\ cl' = [cl EXCEPT ![c] = Idle]
  /\ UNCHANGED <<mds, disk, issued, now, gc>>

-----------------------------------------------------------------------------
(* Delete                                                                  *)

\* Delete before the log: the replicas of whatever the path names now.
LookedUp(p) ==
  IF Exists(tree, p)
    THEN [pc |-> "unlink", path |-> p,
          replicas |-> IF IsFile(tree, p) THEN tree[p].replicas ELSE <<>>]
    ELSE Idle

DeletePrepare(c, p) ==
  /\ cl[c] = Idle
  /\ Exists(tree, p)
  /\ cl' = [cl EXCEPT ![c] = LookedUp(p)]
  /\ UNCHANGED <<tree, mds, disk, issued, now, gc>>

\* Every store of an upload has failed: PutFile deletes whatever is at its path
\* by now, to take back the metadata it has created.
PutUndo(c) ==
  /\ cl[c].pc = "store"
  /\ cl[c].todo = {}
  /\ ~cl[c].ok
  /\ cl' = [cl EXCEPT ![c] = LookedUp(cl[c].path)]
  /\ UNCHANGED <<tree, mds, disk, issued, now, gc>>

\* The answer carries the replicas of the lookup, not of the entry removed.
DeleteCommit(c) ==
  /\ cl[c].pc = "unlink"
  /\ \/ /\ CanDelete(tree, cl[c].path)
        /\ tree' = applyDelete(tree, cl[c].path)
        /\ cl' = [cl EXCEPT ![c] =
                    IF cl[c].replicas = <<>> THEN Idle
                    ELSE [pc |-> "clean", replicas |-> cl[c].replicas]]
     \/ /\ ~CanDelete(tree, cl[c].path)
        /\ cl' = [cl EXCEPT ![c] = Idle]
        /\ UNCHANGED tree
  /\ UNCHANGED <<mds, disk, issued, now, gc>>

Cleaned(c) ==
  [cl EXCEPT ![c] = IF Len(cl[c].replicas) = 1 THEN Idle
                    ELSE [pc |-> "clean", replicas |-> Tail(cl[c].replicas)]]

\* One DeleteData call of the client; a file that is gone is no error.
CleanReplica(c) ==
  /\ cl[c].pc = "clean"
  /\ LET r == Head(cl[c].replicas) IN
       disk' = [disk EXCEPT ![r.addr] = {f \in @ : f.id # r.remote}]
  /\ cl' = Cleaned(c)
  /\ UNCHANGED <<tree, mds, issued, now, gc>>

CleanFails(c) ==
  /\ cl[c].pc = "clean"
  /\ cl' = Cleaned(c)
  /\ UNCHANGED <<tree, mds, disk, issued, now, gc>>

-----------------------------------------------------------------------------
(* The other operations of a client, and its failures                      *)

Mkdir(c, p) ==
  /\ cl[c] = Idle
  /\ CanMkdir(tree, p)
  /\ tree' = applyMkdir(tree, p)
  /\ UNCHANGED <<mds, disk, issued, now, cl, gc>>

Rename(c, src, dst) ==
  /\ cl[c] = Idle
  /\ src # dst
  /\ CanRename(tree, src, dst)
  /\ Fits(tree, src, dst)
  /\ tree' = applyRename(tree, src, dst)
  /\ UNCHANGED <<mds, disk, issued, now, cl, gc>>

\* The log refuses the command of a handler: Do returns an error.
CommitFails(c) ==
  /\ cl[c].pc \in {"create", "unlink"}
  /\ cl' = [cl EXCEPT ![c] = Idle]
  /\ UNCHANGED <<tree, mds, disk, issued, now, gc>>

\* The client process dies, or the answer of the metadata server is lost.
ClientStops(c) ==
  /\ cl[c].pc \in {"store", "clean"}
  /\ cl' = [cl EXCEPT ![c] = Idle]
  /\ UNCHANGED <<tree, mds, disk, issued, now, gc>>

-----------------------------------------------------------------------------
(* The garbage collector                                                   *)

GcStep(g, state) == gc' = [gc EXCEPT ![g] = state]

\* The ticker of startGC, or TriggerGC.
GcStart(g) ==
  /\ gc[g] = Off
  /\ GcStep(g, [pc |-> "health", start |-> now])
  /\ UNCHANGED <<tree, mds, disk, issued, now, cl>>

\* checkDataNodeHealth's snapshot of the dead nodes.
GcHealth(g) ==
  /\ gc[g].pc = "health"
  /\ GcStep(g, [pc |-> "remove", start |-> gc[g].start, dead |-> late])
  /\ UNCHANGED <<tree, mds, disk, issued, now, cl>>

\* Bug: the node's last heartbeat is kept.
GcRemoveHalf(g, a) ==
  /\ gc[g].pc = "remove"
  /\ a \in gc[g].dead
  /\ GcStep(g, [gc[g] EXCEPT !.dead = @ \ {a}])
  /\ nodes' = applyRemoveDataNode(nodes, a)
  /\ UNCHANGED <<tree, late, disk, issued, now, cl>>

\* applyRemoveDataNode does not ask whether the node is still dead.
GcRemove(g, a) ==
  /\ gc[g].pc = "remove"
  /\ a \in gc[g].dead
  /\ GcStep(g, [gc[g] EXCEPT !.dead = @ \ {a}])
  /\ nodes' = applyRemoveDataNode(nodes, a)
  /\ late' = late \ {a}
  /\ UNCHANGED <<tree, disk, issued, now, cl>>

GcRemoveFails(g, a) ==
  /\ gc[g].pc = "remove"
  /\ a \in gc[g].dead
  /\ GcStep(g, [gc[g] EXCEPT !.dead = @ \ {a}])
  /\ UNCHANGED <<tree, mds, disk, issued, now, cl>>

\* collectValidFileIDs
GcCollect(g) ==
  /\ gc[g].pc = "remove"
  /\ gc[g].dead = {}
  /\ GcStep(g, [pc |-> "nodes", start |-> gc[g].start, valid |-> LiveIds(tree)])
  /\ UNCHANGED <<tree, mds, disk, issued, now, cl>>

\* Bug: the list of nodes is not tested for its end.
ScanOfAny(g, todo) ==
  [pc |-> "scan", start |-> gc[g].start, valid |-> gc[g].valid, todo |-> todo]

\* On to the nodes of todo, or the round is over.
ScanOf(g, todo) ==
  IF todo = <<>> THEN Off
  ELSE [pc |-> "scan", start |-> gc[g].start, valid |-> gc[g].valid, todo |-> todo]

\* Bug: the first node is left out.
GcNodesButFirst(g) ==
  /\ gc[g].pc = "nodes"
  /\ GcStep(g, ScanOf(g, IF nodes = <<>> THEN <<>> ELSE Tail(nodes)))
  /\ UNCHANGED <<tree, mds, disk, issued, now, cl>>

GcNodes(g) ==
  /\ gc[g].pc = "nodes"
  /\ GcStep(g, ScanOf(g, nodes))
  /\ UNCHANGED <<tree, mds, disk, issued, now, cl>>

\* Bug: the safety window is not taken off the start of the round.
DoomedNoWindow(g, files) ==
  {f.id : f \in {x \in files : /\ x.id \notin gc[g].valid
                               /\ x.mtime <= gc[g].start}}

\* Bug: the cutoff is counted from now, not from the start of the round.
DoomedByNow(g, files) ==
  {f.id : f \in {x \in files : /\ x.id \notin gc[g].valid
                               /\ x.mtime <= now - Window}}

\* Which files of a listing garbageCollectNode deletes: those of unknown
\* identity that are older than the start of the round by the safety window.
Doomed(g, files) ==
  {f.id : f \in {x \in files : /\ x.id \notin gc[g].valid
                               /\ x.mtime <= gc[g].start - Window}}

GcList(g) ==
  /\ gc[g].pc = "scan"
  /\ GcStep(g, [pc |-> "sweep", start |-> gc[g].start, valid |-> gc[g].valid,
                todo |-> gc[g].todo,
                doomed |-> Doomed(g, disk[Head(gc[g].todo)])])
  /\ UNCHANGED <<tree, mds, disk, issued, now, cl>>

\* The node cannot be dialled or does not list: it is skipped.
GcListFails(g) ==
  /\ gc[g].pc = "scan"
  /\ GcStep(g, ScanOf(g, Tail(gc[g].todo)))
  /\ UNCHANGED <<tree, mds, disk, issued, now, cl>>

\* DeleteData of one orphan, by name: whatever is there by now.
GcDelete(g, id) ==
  /\ gc[g].pc = "sweep"
  /\ id \in gc[g].doomed
  /\ disk' = [disk EXCEPT ![Head(gc[g].todo)] = {f \in @ : f.id # id}]
  /\ GcStep(g, [gc[g] EXCEPT !.doomed = @ \ {id}])
  /\ UNCHANGED <<tree, mds, issued, now, cl>>

GcDeleteFails(g, id) ==
  /\ gc[g].pc = "sweep"
  /\ id \in gc[g].doomed
  /\ GcStep(g, [gc[g] EXCEPT !.doomed = @ \ {id}])
  /\ UNCHANGED <<tree, mds, disk, issued, now, cl>>

GcNextNode(g) ==
  /\ gc[g].pc = "sweep"
  /\ gc[g].doomed = {}
  /\ GcStep(g, ScanOf(g, Tail(gc[g].todo)))
  /\ UNCHANGED <<tree, mds, disk, issued, now, cl>>

-----------------------------------------------------------------------------
PutNext(c) ==
  \/ \E p \in Owns[c], mode \in Modes, id \in FileIds, size \in Sizes :
       PutPrepare(c, p, mode, id, size)
  \/ PutCreate(c)
  \/ \E r \in Replica : \/ \E acknowledged \in BOOLEAN : PutStore(c, r, acknowledged)
                        \/ PutStoreFails(c, r)
  \/ PutComplete(c)
  \/ PutUndo(c)

DeleteNext(c) ==
  \/ \E p \in Owns[c] : DeletePrepare(c, p)
  \/ DeleteCommit(c)
  \/ CleanReplica(c)
  \/ CleanFails(c)

ClientNext(c) ==
  \/ PutNext(c)
  \/ DeleteNext(c)
  \/ \E p \in Owns[c] : Mkdir(c, p)
  \/ \E src, dst \in Owns[c] : Rename(c, src, dst)
  \/ CommitFails(c)
  \/ ClientStops(c)

GcNext(g) ==
  \/ GcStart(g)
  \/ GcHealth(g)
  \/ \E a \in Addrs : GcRemove(g, a) \/ GcRemoveFails(g, a)
  \/ GcCollect(g)
  \/ GcNodes(g)
  \/ GcList(g)
  \/ GcListFails(g)
  \/ \E id \in FileIds : GcDelete(g, id) \/ GcDeleteFails(g, id)
  \/ GcNextNode(g)

Next ==
  \/ \E a \in Addrs : Heartbeat(a) \/ Lapse(a)
  \/ Tick
  \/ \E c \in Clients : ClientNext(c)
  \/ \E g \in GcRuns : GcNext(g)

Spec == Init /\ [][Next]_vars

(* Fairness.  The ticker starts rounds of the collector for ever and a round *)
(* runs on; a removal is not refused by the log for ever, nor a node always  *)
(* unreachable, nor the deletion of a file bound to fail.  Nothing is asked  *)
(* of clients, and no node is made to send heartbeats.                       *)
GcListOf(g, a) == GcList(g) /\ Head(gc[g].todo) = a
GcDeleteOf(g, a, id) == GcDelete(g, id) /\ Head(gc[g].todo) = a

Fairness ==
  /\ WF_vars(Tick)
  /\ \A g \in GcRuns :
       /\ WF_vars(GcNext(g))
       /\ \A a \in Addrs :
            /\ SF_vars(GcRemove(g, a))
            /\ SF_vars(GcListOf(g, a))
            /\ \A id \in FileIds : SF_vars(GcDeleteOf(g, a, id))

FairSpec == Spec /\ Fairness

-----------------------------------------------------------------------------
(* Safety                                                                  *)

\* The identities of uploads whose metadata waits for the log, and the others.
Inflight == {cl[c].id : c \in {x \in Clients : cl[x].pc = "create"}}
Spent == issued \ Inflight

\* The collector never sets out to delete a file whose identity is in the
\* tree, although its picture of the tree is as old as the round, nodes are
\* listed long after, and uploads, renames and overwrites go on meanwhile.
GcSparesLiveIds ==
  \A g \in GcRuns :
    gc[g].pc = "sweep" => gc[g].doomed \cap LiveIds(tree) = {}

\* Nor a file that an entry of the tree has as a replica: what
\* README.md:193 promises, "not referenced by metadata (orphan)".
GcSparesLiveData ==
  \A g \in GcRuns :
    gc[g].pc = "sweep" =>
      \A r \in LiveReplicas(tree) :
        r.addr = Head(gc[g].todo) => r.remote \notin gc[g].doomed

\* A file marked complete has a copy on at least one of its nodes, so that
\* GetFile, which tries all, finds it: no upload that stored a part only, lost
\* answers or died, no unlink, and no round of the collector leaves a complete
\* file with no data.  Clients that upload to the same path do (PutComplete
\* names only the path): it is stated for paths that one client works on.
CompleteIsReadable ==
  \A p \in Paths :
    IsFile(tree, p) /\ tree[p].status = "complete" =>
      \E r \in ToSet(tree[p].replicas) : \E f \in disk[r.addr] : f.id = r.remote

\* The membership list has no node twice, so no file has two replicas on one
\* node: heartbeats, removals and registrations interleave on a list.
ReplicasOnDistinctNodes ==
  /\ IsInjective(nodes)
  /\ \A p \in Paths :
       IsFile(tree, p) => \A i, j \in DOMAIN tree[p].replicas :
         tree[p].replicas[i].addr = tree[p].replicas[j].addr => i = j

\* The commands that reach the log, in whatever order the handlers and the
\* clients come, make a history of the namespace.  An identity counts as
\* spent once its upload has left the handler.
NS == INSTANCE Namespace WITH spent <- Spent
RefinesNamespace == NS!Spec

-----------------------------------------------------------------------------
(* Why GcSparesLiveIds holds: an inductive invariant                       *)

\* An identity in the tree, or on a node, or on its way to one, has been
\* committed; one still waiting for the log is nowhere yet.
DataFollowsMetadata ==
  /\ Inflight \subseteq issued
  /\ LiveIds(tree) \subseteq Spent
  /\ \A a \in Addrs : \A f \in disk[a] : f.id \in Spent
  /\ \A c \in Clients : cl[c].pc = "store" => \A r \in cl[c].todo : r.remote \in Spent
  /\ \A c \in Clients : cl[c].pc = "create" =>
       /\ \A r \in ToSet(cl[c].replicas) : r.remote = cl[c].id
       /\ \A d \in Clients : cl[d].pc = "create" /\ cl[d].id = cl[c].id => d = c

\* A file that has come into the tree since a round collected the identities
\* has data so new that the round's cutoff protects it.
NewDataProtected ==
  \A g \in GcRuns :
    /\ gc[g].pc # "off" => gc[g].start <= now
    /\ gc[g].pc \in {"nodes", "scan", "sweep"} =>
         \A a \in Addrs : \A f \in disk[a] :
           f.id \in LiveIds(tree) \ gc[g].valid => f.mtime > gc[g].start - Window

\* What a round is deleting is neither in the tree nor can come into it.
DoomedAreDead ==
  \A g \in GcRuns :
    gc[g].pc = "sweep" => gc[g].doomed \subseteq Spent \ LiveIds(tree)

\* The three together are kept by every step, if the clocks agree.
Inv == DataFollowsMetadata /\ NewDataProtected /\ DoomedAreDead

\* Without overwriting uploads, a file's replicas are named by its identity,
\* as the collector assumes (gc.go:101, "DataNode physical files are named
\* /data/{FileID}").
NoOverwrites == "OverwriteIfExists" \notin Modes
ReplicasCarryIdentity ==
  \A p \in Locations :
    IsFile(tree, p) => \A r \in ToSet(tree[p].replicas) : r.remote = tree[p].fileID

-----------------------------------------------------------------------------
(* Liveness                                                                *)

Orphan(a, id) == /\ id \notin LiveIds(tree) \cup Inflight
                 /\ \E f \in disk[a] : f.id = id

\* Data whose identity is not in the tree (its file was deleted, its failed
\* upload undone, its clean-up interrupted) does not stay for ever on a node
\* that stays registered.  An upload that dies after CreateFile leaves its
\* pending entry in the tree, and with it its data: no round removes either.
OrphansReclaimed ==
  \A a \in Addrs, id \in FileIds :
    <>[](a \in ToSet(nodes)) => (Orphan(a, id) ~> ~Orphan(a, id))

\* A node that has stopped sending heartbeats is removed from the membership,
\* or has sent another one.
LateNodesRemoved == \A a \in Addrs : a \in late ~> a \notin late
=============================================================================
