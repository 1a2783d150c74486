----------------------------- MODULE FileHandle -----------------------------
(***************************************************************************)
(* Random access to files through handles (internal/client/file_handle.go) *)
(* by the threads of one client process, over the PartialWrite, Truncate   *)
(* and RangeRead calls of the data nodes, while other clients rename and   *)
(* unlink files and upload them, call by call, also over existing ones.    *)
(*                                                                         *)
(* A handle keeps the replicas of the file it was opened on, but updates   *)
(* sizes, truncates and completes by path.  One action is one critical     *)
(* section: a remote call, or the section under the handle's mutex.        *)
(* Contents are sequences of marks; a write puts a mark of its own over    *)
(* its range, an upload over the whole file.                               *)
(***************************************************************************)
EXTENDS MetaState

CONSTANTS
  Handles,
  Threads,      \* of the process, and of other clients while they run PutFile
  Nodes,        \* the registered data nodes, in order
  Marks,        \* what writes and uploads put into bytes, each its own (a bound)
  Zero,         \* the byte of a hole
  MaxLen,       \* bound: the longest contents
  Lengths,      \* lengths of what WriteAt and PutFile are given
  Flags,        \* the sets of flags Open is given, of "creat", "excl", "trunc"
  Cuts,         \* sizes that files are truncated to
  Others,       \* what other clients do, of "rename", "unlink", "upload"
  Modes         \* the create modes of uploads

ASSUME NodesAssumption == Nodes \in Seq(Addrs) \ {<<>>}
ASSUME MarksAssumption == Zero \notin Marks
ASSUME SizesAssumption == MaxLen \in Nat /\ Sizes = 0..MaxLen
ASSUME LengthsAssumption == Lengths \subseteq Sizes
ASSUME CutsAssumption == Cuts \subseteq Sizes
ASSUME FlagsAssumption == Flags \subseteq SUBSET {"creat", "excl", "trunc"}
ASSUME ModesAssumption == Modes \subseteq CreateModes

VARIABLES
  tree,      \* MetadataServer.root
  placed,    \* placed[id]: the replicas CreateFile chose for id, once it has
  data,      \* data[r]: the contents of the physical file r, where there is one
  fh,        \* fh[h]: the handle h
  op,        \* op[t]: what thread t is doing
  cand,      \* history: cand[id][i], what a read of byte i of id may return
  used,      \* the marks of writes and uploads so far
  touched    \* history: the paths at which a file was renamed, unlinked,
             \* truncated, overwritten by an upload, uploaded to some of its
             \* nodes only, or at which nothing was written (no bytes, but
             \* perhaps a size)

vars == <<tree, placed, data, fh, op, cand, used, touched>>

-----------------------------------------------------------------------------
(* State                                                                   *)

Bytes == Marks \cup {Zero}
Positions == 1..MaxLen
Contents == UNION {[1..n -> Bytes] : n \in Sizes}

NoHandle == [open |-> FALSE]
OpenHandle == [open : {TRUE}, path : Paths, fileID : FileIds,
               replicas : Seq(Replica), size : Sizes,
               status : {"pending", "complete"}]

Idle == [pc |-> "idle"]

\* Open: Stat has found nothing and the file is to be created; it has found a
\* file to be emptied; the location is to be asked for (of a file created here
\* the replicas are known, else <<>>).
CreateState == [pc : {"create"}, h : Handles, path : Paths]
EmptyState  == [pc : {"empty"}, h : Handles, path : Paths]
LocateState == [pc : {"locate"}, h : Handles, path : Paths, size : Sizes,
                replicas : Seq(Replica), status : {"", "pending"}]

\* A change of the file id under way, by WriteAt, a truncation or PutFile (for
\* which there is no handle): length bytes from at on become val, on the
\* replicas of todo still.  acked: a node has acknowledged an upload.  seen
\* (history): what changes of the file that overlap this one in time put there.
ChangeState == [pc : {"write", "trunc", "put"}, h : Handles \cup {NoHandle},
                path : Paths, id : FileIds, val : Bytes, at : Sizes,
                length : Sizes, todo : SUBSET Replica, failed : BOOLEAN,
                acked : BOOLEAN, seen : [Positions -> SUBSET Bytes]]

\* PutFile calls CompleteFile, or takes the metadata back, by path.
PutState == [pc : {"complete", "undo"}, h : {NoHandle}, path : Paths]

\* The data of the file id is in place, and updateSize is called for path.
SizeState == [pc : {"size", "cut"}, h : Handles, path : Paths, id : FileIds,
              size : Sizes]

CloseState == [pc : {"close"}, h : Handles]

ThreadState == {Idle} \cup CreateState \cup EmptyState \cup LocateState
                 \cup ChangeState \cup PutState \cup SizeState \cup CloseState

TypeOK ==
  /\ tree \in [Locations -> Entry]
  /\ DOMAIN placed \subseteq FileIds
  /\ \A id \in DOMAIN placed : placed[id] \in Seq(Replica)
  /\ DOMAIN data \subseteq Replica
  /\ \A r \in DOMAIN data : data[r] \in Contents
  /\ fh \in [Handles -> {NoHandle} \cup OpenHandle]
  /\ op \in [Threads -> ThreadState]
  /\ cand \in [FileIds -> [Positions -> SUBSET Bytes]]
  /\ used \subseteq Marks /\ touched \subseteq Paths

Init ==
  /\ tree = EmptyTree
  /\ placed = [id \in {} |-> <<>>]
  /\ data = [r \in {} |-> <<>>]
  /\ fh = [h \in Handles |-> NoHandle]
  /\ op = [t \in Threads |-> Idle]
  /\ cand = [id \in FileIds |-> [i \in Positions |-> {Zero}]]
  /\ used = {} /\ touched = {}

-----------------------------------------------------------------------------
(* Data nodes                                                              *)

\* A physical file that is missing reads as an empty one.
Content(r) == IF r \in DOMAIN data THEN data[r] ELSE <<>>

RangeRead(r, offset, length) ==
  LET end == IF offset + length < Len(Content(r)) THEN offset + length
             ELSE Len(Content(r))
  IN  SubSeq(Content(r), offset + 1, end)

\* Bug: the file is opened with O_TRUNC.
PartialWrittenOver(c, offset, length, mark) ==
  [i \in 1..(offset + length) |->
     IF i > offset THEN mark ELSE IF i <= Len(c) THEN c[i] ELSE Zero]

\* The file is created if it is missing, and a gap before offset is zeros; a
\* write of no bytes leaves no gap either.
PartialWritten(c, offset, length, mark) ==
  [i \in 1..(IF length > 0 /\ offset + length > Len(c) THEN offset + length ELSE Len(c)) |->
     IF i \in (offset + 1)..(offset + length) THEN mark
     ELSE IF i <= Len(c) THEN c[i] ELSE Zero]

Truncated(c, size) == [i \in 1..size |-> IF i <= Len(c) THEN c[i] ELSE Zero]

Stored(r, c) == [x \in DOMAIN data \cup {r} |-> IF x = r THEN c ELSE data[x]]

-----------------------------------------------------------------------------
(* Changes of contents, and their history                                  *)

Changing(t) == op[t].pc \in {"write", "trunc", "put"}
ChangingId(t, id) == Changing(t) /\ op[t].id = id

\* What the change o puts at byte i: an upload replaces all that was there.
Span(o) == IF o.pc = "put" THEN Positions ELSE (o.at + 1)..(o.at + o.length)
PutsAt(o, i) ==
  IF i \notin Span(o) THEN {}
  ELSE IF o.pc = "put" /\ i > o.length THEN {Zero} ELSE {o.val}

\* All replicas of a file are named alike.
IdOf(replicas) == Head(replicas).remote

NothingSeen == [i \in Positions |-> {}]

\* Thread t starts the change o.
Begin(t, o) ==
  /\ op' = [x \in Threads |->
       IF x = t
         THEN [o EXCEPT !.seen = [i \in Positions |->
                 UNION {PutsAt(op[y], i) : y \in {z \in Threads : ChangingId(z, o.id)}}]]
       ELSE IF ChangingId(x, o.id)
         THEN [op[x] EXCEPT !.seen = [i \in Positions |-> @[i] \cup PutsAt(o, i)]]
       ELSE op[x]]
  /\ cand' = [cand EXCEPT ![o.id] = [i \in Positions |-> @[i] \cup PutsAt(o, i)]]

\* The change o is done: what was there before is gone.
Confirmed(o) ==
  [cand EXCEPT ![o.id] = [i \in Positions |->
     IF i \in Span(o) THEN @[i] \cap (PutsAt(o, i) \cup o.seen[i]) ELSE @[i]]]

\* What a call leaves of the contents c: StoreData puts a new file in its place.
Changed(o, c) ==
  CASE o.pc = "write" -> PartialWritten(c, o.at, o.length, o.val)
    [] o.pc = "trunc" -> Truncated(c, o.at)
    [] o.pc = "put"   -> [i \in 1..o.length |-> o.val]

\* The call to one node returns; acknowledged is whether its answer arrives.
\* Truncating a physical file that is missing is an error.
NodeChanges(t, r, acknowledged) ==
  /\ Changing(t)
  /\ r \in op[t].todo
  /\ op[t].pc = "trunc" => r \in DOMAIN data
  /\ data' = Stored(r, Changed(op[t], Content(r)))
  /\ op' = [op EXCEPT ![t].todo = @ \ {r}, ![t].failed = @ \/ ~acknowledged,
                      ![t].acked = @ \/ (acknowledged /\ op[t].pc = "put")]
  /\ touched' = IF op[t].pc = "put" /\ Len(Content(r)) > op[t].length
                  THEN touched \cup {op[t].path} ELSE touched
  /\ UNCHANGED <<tree, placed, fh, cand, used>>

NodeFails(t, r) ==
  /\ Changing(t)
  /\ r \in op[t].todo
  /\ op' = [op EXCEPT ![t].todo = @ \ {r}, ![t].failed = TRUE]
  /\ UNCHANGED <<tree, placed, data, fh, cand, used, touched>>

-----------------------------------------------------------------------------
(* Open                                                                    *)

InUse(h) == \E t \in Threads : op[t].pc # "idle" /\ op[t].h = h

\* The handle is open, and nobody is closing it (callers see to that).
Usable(h) == fh[h].open /\ \A t \in Threads : ~(op[t].pc = "close" /\ op[t].h = h)

\* Stat.  Where Open returns an error nothing has changed.
OpenStat(t, h, p, flags) ==
  /\ op[t] = Idle
  /\ fh[h] = NoHandle
  /\ ~InUse(h)
  /\ \/ /\ ~Exists(tree, p)
        /\ "creat" \in flags
        /\ op' = [op EXCEPT ![t] = [pc |-> "create", h |-> h, path |-> p]]
     \/ /\ IsFile(tree, p)
        /\ "excl" \notin flags
        /\ op' = [op EXCEPT ![t] =
             IF "trunc" \in flags THEN [pc |-> "empty", h |-> h, path |-> p]
             ELSE [pc |-> "locate", h |-> h, path |-> p, size |-> tree[p].size,
                   replicas |-> <<>>, status |-> ""]]
  /\ UNCHANGED <<tree, placed, data, fh, cand, used, touched>>

Placed(id, replicas) ==
  [x \in DOMAIN placed \cup {id} |-> IF x = id THEN replicas ELSE placed[x]]

\* CreateFile with CreateIfNotExist; that the answer is lost ends the Open.
OpenCreate(t, id, answered) ==
  /\ op[t].pc = "create"
  /\ id \notin DOMAIN placed
  /\ LET p == op[t].path
         replicas == selectDataNodes(Nodes, p, id)
     IN  /\ CanCreateFile(tree, p, "CreateIfNotExist")
         /\ tree' = applyCreateFile(tree, p, id, 0, replicas)
         /\ placed' = Placed(id, replicas)
         /\ op' = [op EXCEPT ![t] =
              IF answered THEN [pc |-> "locate", h |-> op[t].h, path |-> p, size |-> 0,
                                replicas |-> replicas, status |-> "pending"]
              ELSE Idle]
  /\ UNCHANGED <<data, fh, cand, used, touched>>

\* Bug: a status that is not known is left blank.
OpenLocateBlank(t) ==
  /\ op[t].pc = "locate"
  /\ IsFile(tree, op[t].path)
  /\ LET o == op[t]
         e == tree[o.path]
     IN  fh' = [fh EXCEPT ![o.h] =
           [open |-> TRUE, path |-> o.path, fileID |-> e.fileID, size |-> o.size,
            replicas |-> IF o.replicas = <<>> THEN e.replicas ELSE o.replicas,
            status |-> o.status]]
  /\ op' = [op EXCEPT ![t] = Idle]
  /\ UNCHANGED <<tree, placed, data, cand, used, touched>>

\* getFileLocation: the FileID is that of whatever is at the path by now.
OpenLocate(t) ==
  /\ op[t].pc = "locate"
  /\ IsFile(tree, op[t].path)
  /\ LET o == op[t]
         e == tree[o.path]
     IN  fh' = [fh EXCEPT ![o.h] =
           [open |-> TRUE, path |-> o.path, fileID |-> e.fileID, size |-> o.size,
            replicas |-> IF o.replicas = <<>> THEN e.replicas ELSE o.replicas,
            status |-> IF o.status = "" THEN e.status ELSE o.status]]
  /\ op' = [op EXCEPT ![t] = Idle]
  /\ UNCHANGED <<tree, placed, data, cand, used, touched>>

-----------------------------------------------------------------------------
(* WriteAt                                                                 *)

WriteStart(t, h, offset, length, mark) ==
  /\ op[t] = Idle
  /\ Usable(h)
  /\ offset + length <= MaxLen
  /\ mark \notin used
  /\ used' = used \cup {mark}
  /\ LET id == IdOf(fh[h].replicas) IN
       Begin(t, [pc |-> "write", h |-> h, path |-> fh[h].path, id |-> id,
                 val |-> mark, at |-> offset, length |-> length,
                 todo |-> ToSet(fh[h].replicas), failed |-> FALSE, acked |-> FALSE,
                 seen |-> NothingSeen])
  /\ touched' = IF length = 0 THEN touched \cup {fh[h].path} ELSE touched
  /\ UNCHANGED <<tree, placed, data, fh>>

\* Bug: failed calls are forgotten.
WriteSettleOnOne(t) ==
  /\ op[t].pc = "write"
  /\ op[t].todo = {}
  /\ LET o == op[t]
         end == o.at + o.length
         grows == end > fh[o.h].size
     IN  /\ fh' = [fh EXCEPT ![o.h].size = IF grows THEN end ELSE @,
                             ![o.h].status = "complete"]
         /\ op' = [op EXCEPT ![t] =
              IF grows THEN [pc |-> "size", h |-> o.h, path |-> o.path, id |-> o.id,
                             size |-> end]
              ELSE Idle]
         /\ cand' = Confirmed(o)
  /\ UNCHANGED <<tree, placed, data, used, touched>>

\* Bug: the write does not wait for the last of its calls.
WriteSettleEarly(t) ==
  /\ op[t].pc = "write"
  /\ ~op[t].failed
  /\ LET o == op[t]
         end == o.at + o.length
         grows == end > fh[o.h].size
     IN  /\ fh' = [fh EXCEPT ![o.h].size = IF grows THEN end ELSE @,
                             ![o.h].status = "complete"]
         /\ op' = [op EXCEPT ![t] =
              IF grows THEN [pc |-> "size", h |-> o.h, path |-> o.path, id |-> o.id,
                             size |-> end]
              ELSE Idle]
         /\ cand' = Confirmed(o)
  /\ UNCHANGED <<tree, placed, data, used, touched>>

\* All calls have returned.  The handle's size and status are updated under
\* its mutex, and the server's size after that.
WriteSettle(t) ==
  /\ op[t].pc = "write"
  /\ op[t].todo = {}
  /\ ~op[t].failed
  /\ LET o == op[t]
         end == o.at + o.length
         grows == end > fh[o.h].size
     IN  /\ fh' = [fh EXCEPT ![o.h].size = IF grows THEN end ELSE @,
                             ![o.h].status = "complete"]
         /\ op' = [op EXCEPT ![t] =
              IF grows THEN [pc |-> "size", h |-> o.h, path |-> o.path, id |-> o.id,
                             size |-> end]
              ELSE Idle]
         /\ cand' = Confirmed(o)
  /\ UNCHANGED <<tree, placed, data, used, touched>>

\* A replica has failed: WriteAt, or the truncation, returns an error.
ChangeAborts(t) ==
  /\ op[t].pc \in {"write", "trunc"}
  /\ op[t].todo = {}
  /\ op[t].failed
  /\ op' = [op EXCEPT ![t] = Idle]
  /\ UNCHANGED <<tree, placed, data, fh, cand, used, touched>>

WriteSize(t) ==
  /\ op[t].pc = "size"
  /\ CanUpdateSize(tree, op[t].path)
  /\ tree' = applyUpdateSize(tree, op[t].path, op[t].size)
  /\ op' = [op EXCEPT ![t] = Idle]
  /\ UNCHANGED <<placed, data, fh, cand, used, touched>>

-----------------------------------------------------------------------------
(* Truncate, also that of Open                                             *)

\* truncateAllReplicas of whatever is at the path.
TruncateFile(t, h, p, size) ==
  /\ IsFile(tree, p)
  /\ Begin(t, [pc |-> "trunc", h |-> h, path |-> p, id |-> IdOf(tree[p].replicas),
               val |-> Zero, at |-> size, length |-> MaxLen - size,
               todo |-> ToSet(tree[p].replicas), failed |-> FALSE, acked |-> FALSE,
               seen |-> NothingSeen])
  /\ touched' = touched \cup {p}
  /\ UNCHANGED <<tree, placed, data, fh, used>>

OpenTruncate(t) ==
  /\ op[t].pc = "empty"
  /\ TruncateFile(t, op[t].h, op[t].path, 0)

Truncate(t, h, size) ==
  /\ op[t] = Idle
  /\ Usable(h)
  /\ TruncateFile(t, h, fh[h].path, size)


TruncateSettle(t) ==
  /\ op[t].pc = "trunc"
  /\ op[t].todo = {}
  /\ ~op[t].failed
  /\ op' = [op EXCEPT ![t] = [pc |-> "cut", h |-> op[t].h, path |-> op[t].path,
                              id |-> op[t].id, size |-> op[t].at]]
  /\ cand' = Confirmed(op[t])
  /\ UNCHANGED <<tree, placed, data, fh, used, touched>>

\* The server's size, then the handle's; an Open goes on to the location.
TruncateSize(t, answered) ==
  /\ op[t].pc = "cut"
  /\ CanUpdateSize(tree, op[t].path)
  /\ tree' = applyUpdateSize(tree, op[t].path, op[t].size)
  /\ LET o == op[t]
         opening == ~fh[o.h].open
     IN  /\ fh' = IF answered /\ ~opening THEN [fh EXCEPT ![o.h].size = o.size] ELSE fh
         /\ op' = [op EXCEPT ![t] =
              IF answered /\ opening
                THEN [pc |-> "locate", h |-> o.h, path |-> o.path, size |-> 0,
                      replicas |-> <<>>, status |-> ""]
                ELSE Idle]
  /\ UNCHANGED <<placed, data, cand, used, touched>>

-----------------------------------------------------------------------------
(* Close, and failures                                                     *)

\* The caller closes a handle that nobody uses any more.
Close(t, h) ==
  /\ op[t] = Idle
  /\ fh[h].open
  /\ ~InUse(h)
  /\ \/ /\ fh[h].status = "pending"
        /\ op' = [op EXCEPT ![t] = [pc |-> "close", h |-> h]]
        /\ UNCHANGED fh
     \/ /\ fh[h].status # "pending"
        /\ fh' = [fh EXCEPT ![h] = NoHandle]
        /\ UNCHANGED op
  /\ UNCHANGED <<tree, placed, data, cand, used, touched>>

CloseComplete(t, answered) ==
  /\ op[t].pc = "close"
  /\ LET h == op[t].h IN
       /\ CanCompleteFile(tree, fh[h].path)
       /\ tree' = applyCompleteFile(tree, fh[h].path)
       /\ fh' = IF answered THEN [fh EXCEPT ![h] = NoHandle] ELSE fh
  /\ op' = [op EXCEPT ![t] = Idle]
  /\ UNCHANGED <<placed, data, cand, used, touched>>

\* A call to the metadata server returns an error, and so does the operation;
\* WriteAt and PutFile only log it.
CallFails(t) ==
  /\ op[t].pc \in {"create", "empty", "locate", "size", "cut", "close", "complete", "undo"}
  /\ op' = [op EXCEPT ![t] = Idle]
  /\ UNCHANGED <<tree, placed, data, fh, cand, used, touched>>

\* The client process dies, with all its handles; uploads of others go on.
Crash ==
  /\ op' = [t \in Threads |->
       IF op[t].pc \in {"put", "complete", "undo"} THEN op[t] ELSE Idle]
  /\ fh' = [h \in Handles |-> NoHandle]
  /\ UNCHANGED <<tree, placed, data, cand, used, touched>>

-----------------------------------------------------------------------------
(* Other clients, and the collector                                        *)

Below(p) == {q \in Paths : IsPrefix(p, q)}

Rename(src, dst) ==
  /\ "rename" \in Others
  /\ src # dst
  /\ CanRename(tree, src, dst)
  /\ Fits(tree, src, dst)
  /\ tree' = applyRename(tree, src, dst)
  /\ touched' = touched \cup Below(src) \cup Below(dst)
  /\ UNCHANGED <<placed, data, fh, op, cand, used>>

\* What the client is then told to clean, FileStore has; here Reclaim does it.
Unlink(p) ==
  /\ "unlink" \in Others
  /\ CanDelete(tree, p)
  /\ tree' = applyDelete(tree, p)
  /\ touched' = touched \cup Below(p)
  /\ UNCHANGED <<placed, data, fh, op, cand, used>>

\* The physical file of a dead identity is deleted, by the client that has
\* unlinked it or by the collector.  After an overwriting upload the collector
\* takes the new data of the file for dead (FileStore, GcSparesLiveData).
Reclaim(r) ==
  /\ r \in DOMAIN data
  /\ r.remote \notin LiveIds(tree)
  /\ data' = [x \in DOMAIN data \ {r} |-> data[x]]
  /\ UNCHANGED <<tree, placed, fh, op, cand, used, touched>>

-----------------------------------------------------------------------------
(* PutFile                                                                 *)

\* CreateFile, with the size of what is to be uploaded; that the answer is lost
\* ends the upload.  A file that is overwritten keeps its FileID, and its new
\* replicas are named by the new one.
PutStart(t, p, id, mode, length, mark, answered) ==
  /\ "upload" \in Others
  /\ op[t] = Idle
  /\ id \notin DOMAIN placed
  /\ mark \notin used
  /\ CanCreateFile(tree, p, mode)
  /\ LET replicas == selectDataNodes(Nodes, p, id) IN
       /\ tree' = applyCreateFile(tree, p, id, length, replicas)
       /\ placed' = Placed(id, replicas)
       /\ \/ /\ answered
             /\ Begin(t, [pc |-> "put", h |-> NoHandle, path |-> p, id |-> id,
                          val |-> mark, at |-> 0, length |-> length,
                          todo |-> ToSet(replicas), failed |-> FALSE, acked |-> FALSE,
                          seen |-> NothingSeen])
          \/ ~answered /\ UNCHANGED <<op, cand>>
  /\ touched' = IF answered /\ ~IsFile(tree, p) THEN touched ELSE touched \cup {p}
  /\ used' = used \cup {mark}
  /\ UNCHANGED <<data, fh>>

\* All StoreData calls have returned: one copy that was stored is enough.
PutSettle(t) ==
  /\ op[t].pc = "put"
  /\ op[t].todo = {}
  /\ LET o == op[t] IN
       /\ op' = [op EXCEPT ![t] = [pc |-> IF o.acked THEN "complete" ELSE "undo",
                                   h |-> NoHandle, path |-> o.path]]
       /\ cand' = IF o.failed THEN cand ELSE Confirmed(o)
       /\ touched' = IF o.failed THEN touched \cup {o.path} ELSE touched
  /\ UNCHANGED <<tree, placed, data, fh, used>>

PutComplete(t) ==
  /\ op[t].pc = "complete"
  /\ CanCompleteFile(tree, op[t].path)
  /\ tree' = applyCompleteFile(tree, op[t].path)
  /\ op' = [op EXCEPT ![t] = Idle]
  /\ UNCHANGED <<placed, data, fh, cand, used, touched>>

\* No node has stored the file: whatever is at the path by now is unlinked.
PutUndo(t) ==
  /\ op[t].pc = "undo"
  /\ CanDelete(tree, op[t].path)
  /\ tree' = applyDelete(tree, op[t].path)
  /\ op' = [op EXCEPT ![t] = Idle]
  /\ touched' = touched \cup Below(op[t].path)
  /\ UNCHANGED <<placed, data, fh, cand, used>>

\* The uploading client dies.
PutStops(t) ==
  /\ op[t].pc = "put"
  /\ op' = [op EXCEPT ![t] = Idle]
  /\ touched' = touched \cup {op[t].path}
  /\ UNCHANGED <<tree, placed, data, fh, cand, used>>

-----------------------------------------------------------------------------
OpenNext(t) ==
  \/ \E h \in Handles, p \in Paths, flags \in Flags : OpenStat(t, h, p, flags)
  \/ \E id \in FileIds, answered \in BOOLEAN : OpenCreate(t, id, answered)
  \/ OpenTruncate(t)
  \/ OpenLocate(t)

ChangeNext(t) ==
  \/ \E h \in Handles, offset \in Sizes, length \in Lengths, mark \in Marks :
       WriteStart(t, h, offset, length, mark)
  \/ \E h \in Handles, size \in Cuts : Truncate(t, h, size)
  \/ \E r \in Replica : \/ \E acknowledged \in BOOLEAN : NodeChanges(t, r, acknowledged)
                      \/ NodeFails(t, r)
  \/ WriteSettle(t)
  \/ TruncateSettle(t)
  \/ ChangeAborts(t)
  \/ WriteSize(t)
  \/ \E answered \in BOOLEAN : TruncateSize(t, answered)

CloseNext(t) ==
  \/ \E h \in Handles : Close(t, h)
  \/ \E answered \in BOOLEAN : CloseComplete(t, answered)
  \/ CallFails(t)

OthersNext ==
  \/ \E src, dst \in Paths : Rename(src, dst)
  \/ \E p \in Paths : Unlink(p)
  \/ \E r \in DOMAIN data : Reclaim(r)

PutNext(t) ==
  \/ \E p \in Paths, id \in FileIds, mode \in Modes, length \in Lengths, mark \in Marks,
        answered \in BOOLEAN :
       PutStart(t, p, id, mode, length, mark, answered)
  \/ PutSettle(t)
  \/ PutComplete(t)
  \/ PutUndo(t)
  \/ PutStops(t)

Next ==
  \/ \E t \in Threads : OpenNext(t) \/ ChangeNext(t) \/ CloseNext(t) \/ PutNext(t)
  \/ Crash
  \/ OthersNext

Spec == Init /\ [][Next]_vars

-----------------------------------------------------------------------------
(* Properties                                                              *)

\* What ReadAt may return for byte i of a file, from whichever replica
\* answers first: the last value that a write, truncation or upload reported as
\* done (an upload: by all nodes) has put there, or that of one that overlapped
\* it or has failed since; never one that was overwritten before.  This is why
\* WriteAt wants all replicas (docs/filesystem-semantics.md:198, a read "would
\* pick the failed replica and read old data").  It is about the reads at the
\* path of a file that no upload has overwritten (the collector may delete the
\* data of one that was), and about those through the handles of a file, which
\* stay with the old replicas when it is overwritten.
ByteRead(r, i) ==
  IF RangeRead(r, i - 1, 1) = <<>> THEN Zero ELSE RangeRead(r, i - 1, 1)[1]

RegularAt(replicas) ==
  \A r \in ToSet(replicas), i \in Positions : ByteRead(r, i) \in cand[IdOf(replicas)][i]

ReadsAreRegular ==
  /\ \A p \in Paths :
       IsFile(tree, p) /\ tree[p].fileID = IdOf(tree[p].replicas) => RegularAt(tree[p].replicas)
  /\ \A h \in Handles :
       fh[h].open /\ IdOf(fh[h].replicas) \in LiveIds(tree) => RegularAt(fh[h].replicas)

\* First the data, then the metadata: the size that the server has for a file
\* is covered by every replica, however writes through all handles and their
\* updates of the size interleave with each other and with the end of an
\* upload, fail or end half-way.  Uploads themselves go the other way about:
\* while one is under way the size runs ahead, and where it ends without all of
\* its data it stays so.  (Left out are also the paths that were renamed,
\* unlinked, truncated or overwritten meanwhile, where sizes go to another file
\* than the data, and those of a write of no bytes, which moves the size but
\* extends no replica.)
MetadataFollowsData ==
  \A p \in Paths \ touched :
    IsFile(tree, p) /\ (\A t \in Threads : ~(op[t].pc = "put" /\ op[t].path = p))
      => \A r \in ToSet(tree[p].replicas) : tree[p].size <= Len(Content(r))

\* A handle keeps to the file it was opened on (file_handle.go:23): whatever is
\* renamed or uploaded over it meanwhile, as long as the file's FileID is in the
\* tree its contents are where the handle reads and writes.  An overwrite, says
\* docs/filesystem-semantics.md:40, leaves the FileID and changes only the size.
HandlesFollowTheirFile ==
  \A h \in Handles, p \in Paths :
    fh[h].open /\ IsFile(tree, p) /\ tree[p].fileID = IdOf(fh[h].replicas)
      => tree[p].replicas = fh[h].replicas

\* A file that is closed is complete, so that GetFile returns its contents.
ClosedIsComplete ==
  [][\A h \in Handles :
       ~fh'[h].open /\ (\E t \in Threads : Close(t, h) \/ CloseComplete(t, TRUE))
         => LET p == fh[h].path IN
              IsFile(tree', p) /\ tree'[p].fileID = fh[h].fileID
                => tree'[p].status = "complete"]_vars

\* The update of a size after a change of a file changes the size of that very
\* file.
UpdatesOwnFile ==
  [][\A t \in Threads, p \in Paths :
       /\ op[t].pc \in {"size", "cut"} /\ op'[t] # op[t]
       /\ IsFile(tree, p) /\ IsFile(tree', p) /\ tree[p].size # tree'[p].size
       => IdOf(tree[p].replicas) = op[t].id]_vars

\* A write leaves max(old size, offset + length) as the size on the server.
WritesNeverShrink ==
  [][\A t \in Threads, p \in Paths :
       op[t].pc = "size" /\ op'[t] # op[t] /\ IsFile(tree, p) /\ IsFile(tree', p)
         => tree'[p].size >= tree[p].size]_vars
=============================================================================
