# A verification project for fstorex

fstorex is a small distributed file store. A metadata server keeps the directory
tree and the list of data nodes, replicated by a Raft library; data nodes keep
file contents; clients talk to both. This directory holds TLA+ modules of that
system, TLC configurations that check them on small instances, and proofs that
the TLA+ proof system checks. `PROJECT.json` lists the runs, the source lines of
every definition, the hazards, the mutants that show that no property is idle,
and the findings.

Paths below are relative to `src/`.

## 1. Inventory

| part | state | operations |
|---|---|---|
| metadata state machine, `internal/metadata/apply.go`, `state_machine.go` | `root` (tree of `entry`), `dataNodes`, `lastHeartbeat` | eight commands: heartbeat, remove_datanode, mkdir, create_file, complete_file, delete, rename, update_size; Snapshot, Restore |
| RPC handlers, `internal/metadata/mds.go` | none of their own | leader check, validation under `mds.mu`, `submitCommand` to the log; reads from the local tree |
| orphan collector, `internal/metadata/gc.go` | `gcStart`, the ids and nodes a round has read | every 5 minutes, or on request: remove silent nodes, collect FileIDs, list each node, delete what is unknown and older than `gcStart` − 30 s |
| client, `internal/client/client.go` | none between calls | PutFile, GetFile, Delete, Mkdir, Rename, Open, reads; the redirect loop |
| file handles, `internal/client/file_handle.go` | path, FileID, replicas, size, status | ReadAt, WriteAt, Truncate, Sync, Close |
| data node, `internal/datanode/datanode.go` | files under `dataDir` | StoreData, GetData, DeleteData, ListAllPaths, RangeRead, PartialWrite, Truncate, Sync; a heartbeat every few minutes |
| command line programs, `cmd/` | flags | set-up and output |
| goraft (external) | log, term, leader | `Do`, `IsLeader`, `GetLeader`, calls `Apply`, `Snapshot`, `Restore` |

How they interact. Every change of metadata is one command: a handler of the
leader submits it, the log orders it, every server applies it. `CreateFile` and
`Delete` first read the tree under `mds.mu`, release the lock, and submit. A
client's upload is CreateFile, then StoreData to every replica in parallel, then
CompleteFile; its delete is Delete, then DeleteData to every replica it was told
of. A handle's write is PartialWrite to every replica in parallel, then UpdateSize
by path. The collector knows nothing of clients: it compares what it read of the
tree of its own server with what nodes list.

What is hard. The calls of an operation interleave with those of other clients
and with the collector; each may fail, succeed with a lost answer, or be the
last its process makes. Decisions are taken from earlier reads: replicas looked
up before a delete is committed, placements made before a create is committed,
the identities a round started with, the nodes seen dead, the size a handle
remembers. The server that decides may lag behind the log, or have been deposed.
Identity (`FileID`) and physical name (`/data/{FileID}`) are meant to be one and
are stored apart; a handle keeps an identity but calls by path.

What makes each part correct:

* the tree stays a tree, a FileID names one file and never comes back, a command
  loses nothing it was not asked to remove;
* the collector deletes no file that the tree needs, and in the end every file it
  does not;
* a complete file has data, on paths that one client works on (what two clients do
  to each other on one path is in section 5);
* a file's replicas are on different nodes, silent nodes leave the membership, and
  only those;
* servers agree wherever they stand in the log, through crashes and snapshots; a
  redirected call has its effect at most once, and every call returns;
* what a read through a handle returns was written last or is being written; once
  an upload is through, the server's size is covered by every replica; a handle
  reaches the file it was opened on (after an overwriting upload it does not, see
  section 6).

## 2. Modules

| module | contents |
|---|---|
| `MetaState` | entries, the tree, and for every command Op the operators `CanOp` (none of its early returns is taken) and `applyOp` (the state it leaves); `selectDataNodes`. No variables |
| `Namespace` | the abstract specification: one tree, commands in log order, and the identities used up. One action per command |
| `FileStore` | the store at work: client uploads and deletes in their separate calls, data nodes, membership, the collector in its separate steps. Refines `Namespace` |
| `FileHandle` | random access through handles: Open with its flags, WriteAt, Truncate, Close by several threads, over the data nodes' PartialWrite, Truncate and RangeRead, while other clients rename, unlink, and upload call by call |
| `Replicated` | the metadata service on several servers: handlers, redirects, the log, Apply at each server's own pace, snapshots, crashes, restarts. Refines `Namespace` |
| `Cluster` | composes `Replicated` with data nodes and the collector: rounds on servers that lag and may be deposed |
| `MCNamespace`, `MCFileStore`, `MCFileHandle`, `MCReplicated`, `MCCluster` | instances for TLC |
| `MetaStateProofs` | lemmas about the operators of `MetaState` |
| `TreeProofs` | lemmas about prefixes of locations and where the entries of a moved directory come from; what the operators of `MetaState` keep of a tree: its shape, and distinct identities |
| `NamespaceProofs`, `FileHandleProofs`, `FileStoreProofs`, `UploadProofs`, `ReplicatedProofs`, `ClusterProofs` | the theorems |

A definition whose comment starts with "Bug:" is a mutant of the one after it.

### MetaState and Namespace

The tree is a function from locations (sequences of names, as `splitPath` yields
them) to entries. Following the children from `root` is looking up a location;
deleting a child from its parent's map removes all locations below it, and so
does moving one, which is why `applyDelete` and `applyRename` are defined on all
locations with a prefix. `IsDir(tree, Parent(p))` stands for the loop over
`dirParts`: with every entry's parent a directory (`WellFormed`), the loop
succeeds exactly when the last one is. Timestamps and mode bits are left out.

`spent` in `Namespace` are the identities that have reached the log.
`generateFileID` draws 128 random bits; that no draw repeats is assumed.

### FileStore

| variable | stands for |
|---|---|
| `tree` | `MetadataServer.root` |
| `nodes`, `late` | `dataNodes`; the nodes whose `lastHeartbeat` is older than the timeout |
| `disk` | each node's files with their modification times |
| `issued` | results of `generateFileID` so far |
| `now` | the metadata server's clock; node `a` reads `now + Skew[a]` |
| `cl` | per client, the operation under way and what its code holds in locals: before the log (`create`, `unlink`), storing (`store`), deleting copies (`clean`) |
| `gc` | per round of `runGC`: where it is and what it has read |

One action is one critical section: a read under `mds.mu`, an applied command, a
call to a data node. A handler waiting in `submitCommand` and its client are one
process, since the client waits for the answer. `PutStore` takes the replicas
of an upload in any order, as the goroutines may, and chooses whether its answer
arrives. `CommitFails` is `Do` returning an error without the command being
applied; `ClientStops` is the death of a client, or the loss of an answer.
`DeletePrepare` and `PutUndo` are the two ways into `Client.Delete`.
`GcList` is ListAllPaths and the decision about each file it names;
the DeleteData calls that follow (`GcDelete`) are separate steps, in any order.

Here the metadata server is one process that does not stop, and the log a
sequence of commands, each applied once or refused. `Replicated` and `Cluster`
are about what that leaves out.

### FileHandle

| variable | stands for |
|---|---|
| `tree`, `placed` | `MetadataServer.root`; the replicas `CreateFile` chose per identity |
| `data` | the contents of each physical file that exists, a sequence of marks |
| `fh` | the open `FileHandle`s |
| `op` | per thread: the call of `Open`, `WriteAt`, `Truncate` or `Close` under way with its locals, or a `PutFile` (of any client) |
| `cand` | history: what a read of each byte of each file may return |
| `used`, `touched` | the marks used so far; history: the paths that were renamed, unlinked, truncated, overwritten by an upload, uploaded to some of their nodes only, or written an empty range |

A write puts a mark of its own into the bytes of its range, a truncation the byte
of a hole into all bytes behind the cut. `WriteStart` starts the goroutines of
`WriteAt`; `NodeChanges` is the call at one replica, whose answer may be lost,
`NodeFails` the call that has no effect; `WriteSettle` is the section under the
handle's mutex when all have returned, `ChangeAborts` the return with an error;
`WriteSize` is `UpdateSize`. `Open` is Stat, CreateFile or the truncation, and
GetFileLocation, each a step. `Crash` is the death of the client process, `Rename`
and `Unlink` are commands of other clients, and `Reclaim` deletes a physical file
whose identity is dead. RangeRead takes a physical file that is missing for an
empty one.

An upload, in both create modes, is taken call by call. `PutStart` is CreateFile:
it commits the size before any byte is there, and where it overwrites a file it
keeps the FileID (`apply.go:103`) and replaces the replicas (`apply.go:114`), which
handles opened before go on using. The StoreData calls are `NodeChanges` and
`NodeFails` again, in any order and between other threads' calls; `PutSettle` waits
for all of them, and one acknowledged copy is enough for `PutComplete`; with none
`PutUndo` unlinks whatever is at the path by then. `PutStops` is the death of the
uploading client, and a `Crash` of the process with the handles leaves uploads of
others going.

`cand` is what "regular" means: a byte's candidates are the values of all changes
begun; when a change is reported as done, what is neither its value nor that of a
change that overlapped it in time drops out. A change that failed stays a
candidate until a later one is confirmed, since some replicas may have it, and so
does the missing data of an upload that left out a replica. `ReadsAreRegular` is
about reads at the path of a file until it is overwritten, and about reads through
its handles also after that. Reads at the path of an overwritten file are left out:
the collector may take its data at any time (`overwrite_gc`).

`touched` are the paths for which `MetadataFollowsData` promises nothing: there the
code lets the server's size run ahead of the data, as it does while an upload to
the path is under way. A plain upload that reaches all replicas does not touch its
path: from then on its size is covered. An empty write is one of the
reasons: it extends no replica (`os.File.WriteAt` does nothing), but `WriteAt` sends
its end as the new size.

### Replicated

| variable | stands for |
|---|---|
| `log` | the committed commands, each with its caller and its commit time |
| `queue` | commands in the hands of goraft that may still be committed, in any order |
| `srv`, `snap` | each server's state machine with its position in the log, and its last snapshot |
| `call` | each remote call of a client or data node: the redirect loop, or the handler waiting for the log |
| `issued`, `now` | results of `generateFileID`; the clock |
| `ref` | history: `ref[i + 1]` is the state the first `i` commands lead to |

`Redirect` is a server that is not the leader and names another; it costs one of
the three attempts. `extractLeaderAddr` recognises only the error of
`checkLeader`, which comes before anything is submitted: no other error repeats a
call. `Handle` and `HandleCreate` run on any server that is up, since a deposed
leader may still take itself for one; they validate, look up and place by that
server's own state, which may lag. `Commit` takes a command from the queue;
`Fail` is `Do` returning an error or a lost answer with the outcome unknown: the
command stays in the queue and may be committed much later. A heartbeat is
stamped by every server with the time at which it applies it (`apply.go:24`), so
`lastHeartbeat` differs between servers. `Restart` goes on from the last snapshot.

goraft is external: elections and replication are `Commit`, which happens to a
submitted command at most once; every server applies the log in order.

### Cluster

`Cluster` extends `Replicated` with `disk`, as in `FileStore`, and `gc[s]`, the
round under way on server `s`. A round's steps are those of `FileStore`, but each
reads the state of its own server at that moment. `GcRemove` submits a removal
and goes on, whatever comes of it.

`GcStart` may happen on any server that has applied all commands older than
`MaxLag`. The code has no such bound: `gc.go:31-36` and `178-185` ask for `IsLeader`
and nothing else. It is an assumption about goraft, in three cases. A leader that
was deposed must notice, by a lease or by stepping down, within `MaxLag`. A new
leader must have applied what its predecessors committed before `IsLeader` answers
true, or at least all but the last `MaxLag` of it; a Raft leader sees to that by
committing an entry of its own term first, which is goraft's matter. A restarted
leader must have replayed its log as far. That the ticker's first round comes five
minutes after the server's start helps the third case, not the second: a server may
be elected just before a tick, or be asked for a round by hand. With `LagWithinWindow` this is what the collector's safety rests on: a leader
that starts a round without the newest commands dooms the files they created
(mutant `GcStartAnywhere`). After the start of a round nothing is assumed: the
server may be deposed for hours.

## 3. Runs

| run | instance | checks |
|---|---|---|
| `namespace` | names a, b; eight paths up to depth 3; 3 identities | the tree stays a tree and identities identify |
| `store_shared` | 2 clients, both on both of 2 paths, both create modes; 1 node, whose clock lags by 1, window 2; 2 identities | `GcSparesLiveIds`, the inductive invariant, refinement of `Namespace` |
| `store_live` | 1 client, 2 paths, 1 identity, no overwriting; 2 nodes of which one may fall silent, 2 replicas | the collector deletes no live data, complete files have data, distinct nodes in the list; orphans are reclaimed, silent nodes removed |
| `handles_shared` | 2 threads, 1 handle, 1 path, 2 replicas; creation, writes, truncations and overwriting uploads, any two at once, each call of which may fail; contents of up to 2 bytes, 2 identities, 2 marks | reads are regular, sizes are covered |
| `handles_moved` | 1 thread with 2 handles, 2 paths, 1 replica; renames, unlinks and uploads in both modes by others, O_TRUNC, empty writes, dead data reclaimed | the same |
| `replicated` | 2 servers, 2 calls of 2 attempts, log of 2, two paths; creates anywhere, renames and deletes that meet them | calls end and have one effect, the log refines `Namespace` |
| `cluster` | 2 servers, one of which runs rounds; 2 calls, log of 2; window 1, timeout 1, lag 0; clock up to 2 | servers agree, membership is consistent, rounds of a deposed leader spare committed data and live nodes |
| `overwrite_gc`, `written_pending`, `size_backwards`, `overwritten_handle`, `stale_path` | the smallest that shows it | the findings of section 6, each a violation |

`CHECK_DEADLOCK FALSE` is set where the system may stop by right: when all
identities are spent, marks used, calls returned or log entries taken, no
operation is left and none need come (`namespace`, `handles_*`, `replicated`,
`cluster`, and the violation runs of `FileHandle`). In the runs of `FileStore`
heartbeats never end, and deadlock is checked.

Bounds, all of them:

* `Paths` and `Fits` (namespace): a rename is taken only if the moved subtree
  fits into the paths of the instance. The eight paths of `MCNamespace` let a
  directory with a directory in it move to its sibling, try to move below itself
  at two depths, and collide with files and directories. The other runs use paths
  of depth one; depth is `Namespace`'s matter, which the refinements connect.
* `FileIds`: as many uploads as identities. Two uploads are needed for every race
  between files here (one gone or replaced while the other is under way); a third
  one in `namespace` lets identities go round through overwriting and rename. In
  `cluster` one identity is enough: a round either has it in its picture or not.
* `MaxTime`: the clock stops there, and only differences matter. In the runs of
  `FileStore` the cutoff of a round is one or two ticks before its start: rounds
  on both sides of a tick, files written on both sides, and a file just outside
  the window all occur. In `cluster` two ticks let a heartbeat become older than
  the timeout, and data older than the window, within a round.
* `Horizon` (FileStore): no upload begins or stores, and no node falls silent,
  after this time. It equals `MaxTime` in the safety runs and so cuts nothing; in
  `store_live` it is one window before `MaxTime`, since a file written when the
  clock has stopped would stay young for ever.
* `GcRuns`, `Collectors`: one round at a time in the runs; the theorems hold for
  any number.
* `Marks`, `MaxLen`, `Lengths`, `Cuts` (FileHandle): writes are told apart by their
  marks; two bytes give writes that overlap, adjoin, leave a hole and extend.
  Lengths are 0 and 1 in `handles_moved`; `handles_shared`, where threads and
  replicas take up the room, leaves out the empty write, O_TRUNC and a cut to 1.
* `Attempts` (Replicated): two, of the code's three, let a call be redirected and
  run out; three add another redirect. `MaxLog`, `Registered`: the length of the
  log; the nodes whose first heartbeat came before.
* `Requests`: what calls ask for. `replicated` leaves out commands that touch
  neither each other's paths nor each other's identities; `cluster` asks for
  heartbeats, creates and deletes.

Symmetry is used over identities, clients, calls, names, nodes, handles, threads
and marks where an instance treats them alike and no liveness property is checked
(`Hash` and `Skew` are constant, and `Owns` gives every client all paths).

### Fairness

`FairSpec` (FileStore) asks that the clock go on to its bound; that the ticker
keep starting rounds and a round take its next step (`startGC` loops for ever,
and its steps return); and, strongly, that in a step that can fail again and
again the attempt that succeeds is taken some time: that removing a node is not
refused by the log for ever, a node that is listed again and again is not
unreachable every time, nor the deletion of a file on it impossible every time.
Clients owe nothing, they may stop anywhere. Nodes owe no heartbeats:
`OrphansReclaimed` is about nodes that stay registered from some time on, and about
identities that are not in the tree: an upload that dies after CreateFile leaves a
pending entry, which no round removes, and with it its data.

`RFairSpec` (Replicated) asks that a remote call under way take a step: that it
is answered, refused, redirected or fails. `net/rpc` returns an error when the
connection breaks, and `Do` returns. It does not ask that anyone be the leader,
that the log take commands or that servers restart: `CallsReturn` holds because
attempts run out.

## 4. Proofs

For all values of the constants.

**Types.** `NamespaceTypeCorrect`, `TypeCorrect`, `FileHandleTypeCorrect`,
`ReplicatedTypeCorrect`, `ClusterTypeCorrect`.

**Namespace.**

* `DeadIdentitiesStayDead`: `NoResurrection`. `StepLiveIds` says
  that a command brings in no identity but an unspent one.
* `TreeStaysATree`: `WellFormed`, which is inductive given types. The hard command
  is rename. What it moves hangs below `dst` as it hung below `src`
  (`MovedFromMonotonic`); what stays keeps its parent, since a location whose
  parent moves moves with it; and `Parent(dst)` stays, because `dst` is not below
  `src`: if `src` is a directory the command checks that, and if it were a file it
  could not be above `Parent(dst)`, by `AncestorsAreDirs`. This lemma, that all
  ancestors of an entry are directories when every entry's parent is one, is what
  lets `IsDir(tree, Parent(p))` stand for the loop over `dirParts`. Its proof
  takes the shortest location that would contradict it, in place of the induction
  over length that the provers lack.
* `IdentitiesAreUnique`: `IdentityUnique`, which needs that the identities in the
  tree are among those used up (`LiveAreSpent`), so that a new file's is new. For
  a rename, `MovedFromInjective`: no two files come from one place.
* `IdentitiesStayOnOverwrite`, `MovedFilesAreTheSame`, `FilesAreLostByName`: the
  action properties `OverwriteKeepsIdentity`, `MovesKeepTheObject` and
  `LostOnlyByName`. By `StepKinds` all commands but two leave files at their
  paths with their identities, or take them away; the two are create and rename. A
  rename needs the tree's shape in both directions: what is
  there afterwards was there before (`RenameTakes`), and what was there still is,
  except at `dst` (`RenameKeeps`). The second is where a lost subtree would show.
  It holds because `dst` is not a directory, and below what is not a directory
  there is nothing (`NothingBelowFiles`), so that only `dst` itself is overwritten;
  and because a location that is moved there comes back as it was (`MovedBack`).

**FileStore.**

* `CollectorSparesLiveIds`: if every node's clock agrees with the server's to
  within the safety window (`ClocksAgree`), no round sets out to delete a file
  whose identity is in the tree. The invariant `Inv` (`InvHolds`), by itself
  inductive given types, has three parts. An identity that is in the tree, on a
  node, or on its way to one has been committed, and one that waits for the log is
  nowhere yet (`DataFollowsMetadata`); hence data of a file that came into the tree
  after a round collected identities was written after the round's start. It is
  then too new for the round's cutoff (`NewDataProtected`; `PutStore` is the step
  that needs the clocks). So at the listing nothing doomed is in the tree, and it
  cannot come into the tree later, being committed already (`DoomedAreDead`).
* `CollectorSparesLiveData`: without overwriting uploads a file's replicas bear
  its identity, through every rename and delete (`ReplicasCarryIdentity`), so that
  what holds of identities holds of data.
* `NodesStayDistinct`: `ReplicasOnDistinctNodes`. The list of nodes stays
  injective under registration and removal (`HeartbeatMembers`,
  `RemoveDataNodeMembers`), and consecutive places of it in cyclic order, no more
  than it has, are different (`SelectDataNodesDistinct`); what waits for the log
  has been placed so, and so has what is in the tree (`PlacementInv`).
* `StoreIsANamespace`: every step is a command of `Namespace` or leaves it as it
  is. An upload's identity becomes spent when its command is applied or refused;
  `ProposalsInv` says that no two handlers wait with one identity.

**FileHandle.** The steps of a thread are sorted first into those that start a
change, go on with it, settle it, or do none of these (`ThreadStep`, `ContentStep`);
uploads are changes like writes and truncations. The lemmas about each kind serve
all three theorems.

* `FileHandleTypeCorrect`: `TypeOK`, which is not inductive alone. `Placement` says
  that every list of replicas, in the tree and in the hands of threads and handles,
  is one that `CreateFile` chose, named after the identity it was chosen for (an
  overwritten entry has the list of the new identity under the old one), and that
  changes go to replicas of their file and within its length.
* `FileReadsRegular`: `ReadsAreRegular`. That reads return candidates (`LiveReads`) is
  kept by a confirmation only if the changed bytes hold, on every replica, the
  change's value or that of one that overlapped it (`ChangesArrive`); this in turn
  is kept by another change's call only if of two changes of one file each has seen
  the other (`ChangesSeeEachOther`), and keeps reads among the candidates because a
  change's value is one from its start (`ChangesAreCandidates`). New files must not
  have been written before (`UnplacedIsZero`). All this is `RegularInv`. That a change
  is confirmed only when no call has failed is what `ChangesArrive` rests on.
* `SizesFollowData`: `MetadataFollowsData`. The update of the size goes by path, so
  it must be shown that the path still holds the file that was written: whoever
  holds an untouched path holds the file that is there (`PathsKept`), and no two
  files share a physical one (`OwnReplicas`). A write whose calls have all succeeded
  is covered by every replica, and stays so until the update (`WritesReach`), because
  contents of a file at an untouched path are never cut, nor extended by nothing
  (`CutsTouch`). An upload puts its size first: until it is through, the size is its
  length or less than what is there, and each replica that its calls have succeeded
  on has that length (`PutsReach`), so that when the last has, the size is covered
  at last. Together these are `SizeInv`. The size may still shrink, which is the
  finding `size_backwards`; it never exceeds the data.

**Uploads.** `UploadProofs` assumes `PrivatePaths`: clocks agree, uploads do not
overwrite, and no path a client works on is, or is below, one of another client.
`store_live` is such an instance, with one client. Its invariant `UploadInv` says of each client
at work what its locals still mean: while it stores, the file at its path is the
one it created, what it has left to do are replicas of that file, and once a store
was acknowledged there is a copy (`StoreAgrees`); while it waits to unlink, it holds
the replicas of what is at its path now (`UnlinkAgrees`); what it deletes is dead
(`CleanAgrees`). That a copy stays rests on `CollectorSparesLiveIds` on one side
and `CleanAgrees` on the other, and on a FileID naming one file (`Distinct`).

* `CompleteFilesReadable`: `CompleteIsReadable`.

The condition is a real limit and not a convenience: nothing in the code keeps
clients apart, and without it the property fails (section 5).

**Replicated.** The theorems are proved for a next-state relation that also lets
servers submit removals, so that `Cluster` can use them.

* `CallsAreCommittedOnce`: `CallsCommitOnce`. A call that has not been handled has
  nothing in the queue or the log; one that has is in exactly one of them, once,
  with the command it was answered for (`OnceInv`).
* `ServersAgree`: `ServersFollowLog`. `HistoryInv` says that `ref` is the history
  the log makes, and that each server and snapshot stands at its position in it
  with the same tree and list of nodes and heartbeats at least as young. The two
  times at which a server and the log apply a heartbeat differ; `AppliedMatches`
  says that Apply keeps them in that order.
* `MembershipStaysConsistent`: every state of the history has the same nodes in
  both fields, each once, and servers follow it.
* `ServiceIsANamespace`: `RefinesNamespace`, assuming `RoomForRenames`, the bound
  on paths in another form. What a handler has validated may be false by the time
  of the commit; that Apply validates again is what the proof uses. What it takes
  from the handler is the placement, which was made from a consistent membership,
  and the identity, which no other command has (`IdsInv`).

**Cluster.**

* `ClusterServersAgree`, `ClusterMembershipConsistent`: a step of the collector is
  a step of the service or leaves it alone.
* `FalseRemovalsNever`: a server holds a heartbeat at least as young as each one
  committed up to its position that was not followed by a removal of the node,
  and the round's dead were taken from there (`BeatsCover`).
* `CollectorsSpareCommitted`: `GcSparesCommitted`, assuming `LagWithinWindow`. For
  every identity, the tree of the log has had it from one commit on until it went
  for good (`Births`). A round's picture has everything that was committed before
  its start less the lag and is not gone; data of what was committed later is
  younger than the cutoff (`RoundsInv`, `DiskInv`), and what was doomed is
  committed and gone (`DoomedInv`).

Assumptions: those named in the modules on the constants, and where the theorem
says so `ClocksAgree`, `NoOverwrites`, `PrivatePaths`, `RoomForRenames` and
`LagWithinWindow`.
`overwrite_gc` is the counterexample without `NoOverwrites`. With a clock a whole
window behind, data stored a moment ago looks old, and so it does to a leader that
does not know for longer than the window that it has been deposed.

Only model-checked: the liveness properties `CallsReturn`, `OrphansReclaimed` and
`LateNodesRemoved`, whose fairness the prover cannot reason about. Every other
property of a passing run has a theorem.

## 5. What is not modelled

* goraft's elections and replication: not part of this repository. Its log orders
  commands, each submitted one at most once.
* Reads on a server that lags (`Stat`, `GetFileLocation`, `ListDir`): FileHandle
  reads the latest tree. `README.md:368` leaves consistent reads to the future.
* GetFile, ListDir and ListDataNodes, which change nothing. `CompleteIsReadable`
  is what GetFile needs to find its data.
* Sync, and the crash of a data node: StoreData, PartialWrite and Truncate are
  atomic and durable here. The code syncs only where it is asked to, and a crash
  inside StoreData leaves a `.tmp` file that ListAllPaths hides.
* A call to a data node that takes effect after it was reported as failed.
* The use of a handle after its Close, which the code does not guard.
* File contents in `FileStore`: a physical file is written once there, its name says
  which. `FileHandle` has the contents, of uploads too.
* Mode bits and times of entries; the order and wording of listings.
* `cmd/`: flags and output.

Limits that the code has, the modules show, and no property is stated about, since
no document promises otherwise or a property would have to leave out the very case.
They are listed with the hazards.

* Clients that share a path. Delete answers with replicas looked up before the log,
  so that a client may be told to delete a live file's copies; CompleteFile goes by
  path and may complete another upload's file; the undo of a failed upload goes by
  path and may unlink another client's file.
* An overwriting upload whose stores all fail takes the file that was there before
  out of the tree (`PutUndo`).
* An upload commits its size before its data: while it is under way, and for ever if
  its client dies, the server's size exceeds what the replicas hold.
* A pending file whose upload died, or whose CompleteFile was lost, is never
  removed, nor is its data; `client.go:198-199` expects the collector to do it.
* An unlink of a directory takes all that is below it (`apply.go:133-156`).
  `docs/filesystem-semantics.md:302` asks for an error when the directory is not
  empty, `README.md:285` offers `rm` for files and directories. `LostOnlyByName` says
  what holds: nothing else goes.

## 6. Findings

| run | what the code does |
|---|---|
| `overwrite_gc` | an overwriting upload keeps the old FileID and stores under a new one; the collector takes the data of the live file for an orphan, and never the old data |
| `written_pending` | a file that is created, written and closed through a handle stays pending on the server, and GetFile takes it for empty |
| `size_backwards` | a write through a handle that remembers an old size sets the server's size below what another handle has written |
| `overwritten_handle` | an overwriting upload gives a file new replicas under its old FileID; a handle opened before goes on writing to the old ones, where no reader at the path looks |
| `stale_path` | after a rename a write through an open handle changes the size of whatever is at its old path, and not that of its own file |

`PROJECT.json` quotes the lines of the documentation and the code.

## 7. Plan

Done: the modules of section 2, with their runs and theorems. What would come next:

1. Durability on a data node: contents that are not synced, crashes between
   StoreData's write and rename, and what FileHandle.Sync promises after them.
2. Pure operators checked against references over bounded inputs: `splitPath` and
   lookup on the tree of maps against locations, snapshots of nested entries.
3. The step counts behind the liveness properties as safety properties (how many
   attempts a call has left, how many nodes a round has still to visit), so that
   the part of them that needs no fairness can be proved as well.
