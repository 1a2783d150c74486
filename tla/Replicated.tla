----------------------------- MODULE Replicated -----------------------------
(***************************************************************************)
(* The replicated metadata service: servers that apply one log of          *)
(* commands, each at its own pace, take snapshots, crash and restart; and  *)
(* callers (clients and data nodes) whose calls follow redirects to the    *)
(* leader and wait for the log.                                            *)
(*                                                                         *)
(* The log is goraft's, which is external.  Modelled of it is what the     *)
(* code relies on: a submitted command enters the log at most once, at     *)
(* any later time or never, and submitting may fail with the outcome       *)
(* unknown.  Any server may take itself for the leader at any time, and    *)
(* name any server as the leader.                                          *)
(***************************************************************************)
EXTENDS MetaState

CONSTANTS
  Servers,
  Calls,       \* calls made by clients and data nodes, each once
  Requests,    \* what may be asked for in a call
  Attempts,    \* how many servers a call tries
  Registered,  \* nodes registered before the log begins, all in snapshots
  MaxLog,      \* bound: the length of the log
  MaxTime      \* bound: the clocks stop here

ASSUME BoundsAssumption == MaxLog \in Nat /\ MaxTime \in Nat
ASSUME AttemptsAssumption == Attempts \in Nat \ {0}
ASSUME RegisteredAssumption == Registered \in Seq(Addrs) /\ IsInjective(Registered)
ASSUME CallersAssumption == Servers \cap Calls = {}

Time == 0..MaxTime

VARIABLES
  now,       \* the clock of the servers
  log,       \* the committed commands, with their callers and commit times
  queue,     \* commands submitted to goraft that may still be committed
  issued,    \* the FileIDs generated so far
  srv,       \* srv[s]: the state machine of server s, and how far it has applied
  snap,      \* snap[s]: the last snapshot of server s
  call,      \* call[c]: how far call c has got
  ref        \* history: ref[i + 1], the state after the first i commands

rvars == <<now, log, queue, issued, srv, snap, call, ref>>

-----------------------------------------------------------------------------
(* Commands (commandPayload)                                               *)

BeatCommand   == [op : {"heartbeat"}, addr : Addrs]
RemoveCommand == [op : {"remove_dn"}, addr : Addrs]
PathCommand   == [op : {"mkdir", "complete_file", "delete"}, path : Paths]
SizeCommand   == [op : {"update_size"}, path : Paths, size : Sizes]
RenameCommand == {m \in [op : {"rename"}, path : Paths, dst : Paths] : m.path # m.dst}
CreateCommand == [op : {"create_file"}, path : Paths, mode : CreateModes,
                  size : Sizes, id : FileIds, replicas : Seq(Replica)]
\* What a handler passes on to the log as it is asked.
PlainCommand == BeatCommand \cup PathCommand \cup SizeCommand \cup RenameCommand
Command == PlainCommand \cup RemoveCommand \cup CreateCommand

CreateRequest == [op : {"create_file"}, path : Paths, mode : CreateModes, size : Sizes]
Request == PlainCommand \cup CreateRequest

ASSUME RequestsAssumption == Requests \subseteq Request

Creates(cmd, id) == cmd.op = "create_file" /\ cmd.id = id

-----------------------------------------------------------------------------
(* The state machine                                                       *)

\* lastHeartbeat and dataNodes; beats[a] is the time of a's last heartbeat.
State == [tree : [Locations -> Entry], nodes : Seq(Addrs),
          beats : UNION {[A -> Time] : A \in SUBSET Addrs}]

\* NewMetadataServer, and the heartbeats of the nodes registered before.
InitState == [tree |-> EmptyTree, nodes |-> Registered,
              beats |-> [a \in ToSet(Registered) |-> 0]]

\* Apply returns no error.
Accepts(st, cmd) ==
  CASE cmd.op = "mkdir"         -> CanMkdir(st.tree, cmd.path)
    [] cmd.op = "create_file"   -> CanCreateFile(st.tree, cmd.path, cmd.mode)
    [] cmd.op = "complete_file" -> CanCompleteFile(st.tree, cmd.path)
    [] cmd.op = "delete"        -> CanDelete(st.tree, cmd.path)
    [] cmd.op = "rename"        -> CanRename(st.tree, cmd.path, cmd.dst)
    [] cmd.op = "update_size"   -> CanUpdateSize(st.tree, cmd.path)
    [] OTHER                    -> TRUE

NewTree(tree, cmd) ==
  CASE cmd.op = "mkdir"         -> applyMkdir(tree, cmd.path)
    [] cmd.op = "create_file"   -> applyCreateFile(tree, cmd.path, cmd.id, cmd.size,
                                                   cmd.replicas)
    [] cmd.op = "complete_file" -> applyCompleteFile(tree, cmd.path)
    [] cmd.op = "delete"        -> applyDelete(tree, cmd.path)
    [] cmd.op = "rename"        -> applyRename(tree, cmd.path, cmd.dst)
    [] cmd.op = "update_size"   -> applyUpdateSize(tree, cmd.path, cmd.size)
    [] OTHER                    -> tree

\* Bug: only the first heartbeat is stamped.
NewBeatsOnce(beats, cmd, time) ==
  IF cmd.op = "heartbeat" /\ cmd.addr \notin DOMAIN beats
    THEN [a \in DOMAIN beats \cup {cmd.addr} |-> IF a = cmd.addr THEN time ELSE beats[a]]
  ELSE IF cmd.op = "remove_dn" THEN [a \in DOMAIN beats \ {cmd.addr} |-> beats[a]]
  ELSE beats

\* Bug: the heartbeat of a removed node is kept.
NewBeatsKept(beats, cmd, time) ==
  IF cmd.op = "heartbeat"
    THEN [a \in DOMAIN beats \cup {cmd.addr} |-> IF a = cmd.addr THEN time ELSE beats[a]]
  ELSE beats

\* A heartbeat is stamped with the time at which this server applies it.
NewBeats(beats, cmd, time) ==
  IF cmd.op = "heartbeat"
    THEN [a \in DOMAIN beats \cup {cmd.addr} |-> IF a = cmd.addr THEN time ELSE beats[a]]
  ELSE IF cmd.op = "remove_dn" THEN [a \in DOMAIN beats \ {cmd.addr} |-> beats[a]]
  ELSE beats

NewNodes(nodes, cmd) ==
  IF cmd.op = "heartbeat" THEN applyHeartbeat(nodes, cmd.addr)
  ELSE IF cmd.op = "remove_dn" THEN applyRemoveDataNode(nodes, cmd.addr)
  ELSE nodes

\* Apply at the given time.
Applied(st, cmd, time) ==
  IF Accepts(st, cmd)
    THEN [tree |-> NewTree(st.tree, cmd), nodes |-> NewNodes(st.nodes, cmd),
          beats |-> NewBeats(st.beats, cmd, time)]
    ELSE st

-----------------------------------------------------------------------------
(* Calls                                                                   *)

\* The loop of callMDSWithRedirect, at server at with so many attempts left;
\* the handler there waits for the log; the call has returned.
OpenCall  == [pc : {"ask", "wait"}, req : Requests, at : Servers, left : 1..Attempts]
OkCall    == [pc : {"ok"}, cmd : Command]
CallState == OpenCall \cup OkCall \cup [pc : {"idle", "refused", "failed"}]

Idle == [pc |-> "idle"]
Refused == [pc |-> "refused"]
Failed == [pc |-> "failed"]

\* A command in the hands of goraft, by the call or the server that submitted it.
Submission == [from : Calls \cup Servers, cmd : Command]
LogEntry == [from : Calls \cup Servers, cmd : Command, at : Time]
Server == [up : BOOLEAN, idx : Nat, st : State]
Snapshot == [idx : Nat, st : State]

RTypeOK ==
  /\ now \in Time
  /\ log \in Seq(LogEntry)
  /\ queue \subseteq Submission
  /\ issued \subseteq FileIds
  /\ srv \in [Servers -> Server]
  /\ snap \in [Servers -> Snapshot]
  /\ call \in [Calls -> CallState]
  /\ ref \in Seq(State)

RInit ==
  /\ now = 0
  /\ log = <<>> /\ queue = {} /\ issued = {}
  /\ srv = [s \in Servers |-> [up |-> TRUE, idx |-> 0, st |-> InitState]]
  /\ snap = [s \in Servers |-> [idx |-> 0, st |-> InitState]]
  /\ call = [c \in Calls |-> Idle]
  /\ ref = <<InitState>>

Tick ==
  /\ now < MaxTime
  /\ now' = now + 1
  /\ UNCHANGED <<log, queue, issued, srv, snap, call, ref>>

Ask(c, req, s) ==
  /\ call[c] = Idle
  /\ call' = [call EXCEPT ![c] = [pc |-> "ask", req |-> req, at |-> s, left |-> Attempts]]
  /\ UNCHANGED <<now, log, queue, issued, srv, snap, ref>>

\* Bug: redirects are not counted.
RedirectForever(c, s) ==
  /\ call[c].pc = "ask"
  /\ srv[call[c].at].up
  /\ s # call[c].at
  /\ call' = [call EXCEPT ![c].at = s]
  /\ UNCHANGED <<now, log, queue, issued, srv, snap, ref>>

\* Bug: one attempt too many.
RedirectLate(c, s) ==
  /\ call[c].pc = "ask"
  /\ srv[call[c].at].up
  /\ s # call[c].at
  /\ call' = [call EXCEPT ![c] =
       IF call[c].left = 0 THEN Refused
       ELSE [call[c] EXCEPT !.at = s, !.left = @ - 1]]
  /\ UNCHANGED <<now, log, queue, issued, srv, snap, ref>>

\* The server is not the leader and names s as the leader.
Redirect(c, s) ==
  /\ call[c].pc = "ask"
  /\ srv[call[c].at].up
  /\ s # call[c].at
  /\ call' = [call EXCEPT ![c] =
       IF call[c].left = 1 THEN Refused
       ELSE [call[c] EXCEPT !.at = s, !.left = @ - 1]]
  /\ UNCHANGED <<now, log, queue, issued, srv, snap, ref>>

\* The server cannot be reached, names no other leader, or finds the request
\* invalid.
Refuse(c) ==
  /\ call[c].pc = "ask"
  /\ call' = [call EXCEPT ![c] = Refused]
  /\ UNCHANGED <<now, log, queue, issued, srv, snap, ref>>

\* The handler submits cmd for call c.
Submits(c, cmd) ==
  /\ queue' = queue \cup {[from |-> c, cmd |-> cmd]}
  /\ call' = [call EXCEPT ![c].pc = "wait"]
  /\ UNCHANGED <<now, log, srv, snap, ref>>

\* The server takes itself for the leader.  Delete looks its target up first.
Handle(c) ==
  /\ call[c].pc = "ask"
  /\ srv[call[c].at].up
  /\ LET req == call[c].req IN
       /\ req.op # "create_file"
       /\ req.op = "delete" => Exists(srv[call[c].at].st.tree, req.path)
       /\ Submits(c, req)
  /\ UNCHANGED issued

\* Bug: the identity may be one in use (derived from the path, say).
HandleCreateReusing(c, id) ==
  /\ call[c].pc = "ask"
  /\ srv[call[c].at].up
  /\ LET req == call[c].req
         st  == srv[call[c].at].st
     IN  /\ req.op = "create_file"
         /\ st.nodes # <<>>
         /\ IsDir(st.tree, Parent(req.path))
         /\ Submits(c, [op |-> "create_file", path |-> req.path, mode |-> req.mode,
                        size |-> req.size, id |-> id,
                        replicas |-> selectDataNodes(st.nodes, req.path, id)])
  /\ issued' = issued \cup {id}

\* CreateFile validates and places by the server's own state.
HandleCreate(c, id) ==
  /\ call[c].pc = "ask"
  /\ srv[call[c].at].up
  /\ id \notin issued
  /\ LET req == call[c].req
         st  == srv[call[c].at].st
     IN  /\ req.op = "create_file"
         /\ st.nodes # <<>>
         /\ IsDir(st.tree, Parent(req.path))
         /\ Submits(c, [op |-> "create_file", path |-> req.path, mode |-> req.mode,
                        size |-> req.size, id |-> id,
                        replicas |-> selectDataNodes(st.nodes, req.path, id)])
  /\ issued' = issued \cup {id}

\* Do returns: the command has been applied by this server.
Return(c) ==
  /\ call[c].pc = "wait"
  /\ \E i \in 1..srv[call[c].at].idx :
       /\ log[i].from = c
       /\ call' = [call EXCEPT ![c] =
            IF Accepts(ref[i], log[i].cmd) THEN [pc |-> "ok", cmd |-> log[i].cmd]
            ELSE Failed]
  /\ UNCHANGED <<now, log, queue, issued, srv, snap, ref>>

\* Bug: the call is repeated after every error.
FailAndRepeat(c) ==
  /\ call[c].pc = "wait"
  /\ call' = [call EXCEPT ![c] =
       IF call[c].left = 1 THEN Failed ELSE [call[c] EXCEPT !.pc = "ask", !.left = @ - 1]]
  /\ UNCHANGED <<now, log, queue, issued, srv, snap, ref>>

\* Do returns an error, or the answer is lost; the command may be in the log
\* already, or get there later.
Fail(c) ==
  /\ call[c].pc = "wait"
  /\ call' = [call EXCEPT ![c] = Failed]
  /\ UNCHANGED <<now, log, queue, issued, srv, snap, ref>>

-----------------------------------------------------------------------------
(* The log, and the servers                                                *)

\* goraft commits a command.  One that is lost with a leader stays in the queue.
Commit(e) ==
  /\ e \in queue
  /\ Len(log) < MaxLog
  /\ log' = Append(log, [from |-> e.from, cmd |-> e.cmd, at |-> now])
  /\ queue' = queue \ {e}
  /\ ref' = Append(ref, Applied(Last(ref), e.cmd, now))
  /\ UNCHANGED <<now, issued, srv, snap, call>>

ApplyNext(s) ==
  /\ srv[s].up
  /\ srv[s].idx < Len(log)
  /\ srv' = [srv EXCEPT ![s] =
       [up |-> TRUE, idx |-> srv[s].idx + 1,
        st |-> Applied(srv[s].st, log[srv[s].idx + 1].cmd, now)]]
  /\ UNCHANGED <<now, log, queue, issued, snap, call, ref>>

TakeSnapshot(s) ==
  /\ srv[s].up
  /\ snap' = [snap EXCEPT ![s] = [idx |-> srv[s].idx, st |-> srv[s].st]]
  /\ UNCHANGED <<now, log, queue, issued, srv, call, ref>>

\* The calls waiting at the server fail.
Crash(s) ==
  /\ srv[s].up
  /\ srv' = [srv EXCEPT ![s] = [up |-> FALSE, idx |-> 0, st |-> InitState]]
  /\ call' = [c \in Calls |->
       IF call[c].pc = "wait" /\ call[c].at = s THEN Failed ELSE call[c]]
  /\ UNCHANGED <<now, log, queue, issued, snap, ref>>

\* Bug: the membership is not in the snapshot.
RestoredRoot(st) == [InitState EXCEPT !.tree = st.tree]

\* Restore; what lastHeartbeat was when the snapshot was taken.
Restored(st) == [tree |-> st.tree, nodes |-> st.nodes, beats |-> st.beats]

\* The state machine starts empty or from the snapshot; the log behind that
\* is applied again.
Restart(s) ==
  /\ ~srv[s].up
  /\ srv' = [srv EXCEPT ![s] =
       [up |-> TRUE, idx |-> snap[s].idx, st |-> Restored(snap[s].st)]]
  /\ UNCHANGED <<now, log, queue, issued, snap, call, ref>>

-----------------------------------------------------------------------------
CallStep(c) ==
  \/ \E s \in Servers : Redirect(c, s)
  \/ Refuse(c)
  \/ Handle(c)
  \/ \E id \in FileIds : HandleCreate(c, id)
  \/ Return(c)
  \/ Fail(c)

CallNext(c) == CallStep(c) \/ (\E req \in Requests, s \in Servers : Ask(c, req, s))

ServerNext(s) == ApplyNext(s) \/ TakeSnapshot(s) \/ Restart(s)

QuietNext ==
  \/ Tick
  \/ \E e \in queue : Commit(e)
  \/ \E c \in Calls : CallNext(c)
  \/ \E s \in Servers : ServerNext(s)

RNext == QuietNext \/ (\E s \in Servers : Crash(s))

RSpec == RInit /\ [][RNext]_rvars

\* A remote call returns, with an answer or an error.
RFairSpec == RSpec /\ \A c \in Calls : WF_rvars(CallStep(c))

-----------------------------------------------------------------------------
(* Properties                                                              *)

\* x stands where the log up to x.idx leads: the same tree and the same
\* membership in the same order; and no heartbeat is older than its commit.
Follows(x) ==
  /\ x.idx < Len(ref)
  /\ LET r == ref[x.idx + 1] IN
       /\ x.st.tree = r.tree
       /\ x.st.nodes = r.nodes
       /\ DOMAIN x.st.beats = DOMAIN r.beats
       /\ \A a \in DOMAIN r.beats : x.st.beats[a] >= r.beats[a]

\* All servers agree at equal positions of the log, whatever they lag behind,
\* and a snapshot with the log behind it leads to the state that was lost
\* (README.md:351; README.md:172, "so all replicas agree on cluster membership").
ServersFollowLog ==
  \A s \in Servers : Follows(snap[s]) /\ (srv[s].up => Follows(srv[s]))

\* Following redirects, a call that is refused has had no effect and will have
\* none; one that is answered has had its effect exactly once; one that fails
\* has it once or not at all.
CallsCommitOnce ==
  \A c \in Calls :
    /\ \A i, j \in DOMAIN log : log[i].from = c /\ log[j].from = c => i = j
    /\ call[c].pc \in {"idle", "ask", "refused"} =>
         /\ \A i \in DOMAIN log : log[i].from # c
         /\ \A e \in queue : e.from # c
    /\ call[c].pc = "ok" =>
         \E i \in DOMAIN log : /\ log[i].from = c /\ log[i].cmd = call[c].cmd
                               /\ Accepts(ref[i], log[i].cmd)

\* No redirect goes round for ever: every call comes to an end, also when
\* servers keep naming each other as the leader.
CallsReturn ==
  \A c \in Calls : call[c].pc \in {"ask", "wait"} ~> call[c].pc \notin {"ask", "wait"}

\* The log makes a history of the namespace, with every command validated by
\* a server that may lag behind it.
Committed == {id \in FileIds : \E i \in DOMAIN log : Creates(log[i].cmd, id)}
NS == INSTANCE Namespace WITH tree <- Last(ref).tree, spent <- Committed
RefinesNamespace == NS!Spec

\* A node that gets replicas can be found silent, and only such a node: the
\* two fields agree on who is a member, on every server, and the list has
\* each member once.
MembershipConsistent ==
  \A s \in Servers : LET st == srv[s].st IN
    DOMAIN st.beats = ToSet(st.nodes) /\ IsInjective(st.nodes)
=============================================================================
