-------------------------- MODULE ReplicatedProofs --------------------------
(***************************************************************************)
(* Proofs about Replicated, for every set of servers, calls, paths and     *)
(* identities.  The lemmas about a step also cover the step that Cluster   *)
(* adds, a server's own submission (RStep).                                *)
(***************************************************************************)
EXTENDS Replicated, MetaStateProofs

-----------------------------------------------------------------------------
(* Commands and states                                                     *)

\* What the fields of a command are.
LEMMA CommandFields ==
  ASSUME NEW cmd \in Command
  PROVE  /\ cmd.op \in {"heartbeat", "remove_dn", "mkdir", "complete_file", "delete",
                        "update_size", "rename", "create_file"}
         /\ cmd.op \in {"heartbeat", "remove_dn"} => cmd.addr \in Addrs
         /\ cmd.op \in {"mkdir", "complete_file", "delete", "update_size", "rename",
                        "create_file"} => cmd.path \in Paths
         /\ cmd.op = "rename" => cmd.dst \in Paths
         /\ cmd.op \in {"update_size", "create_file"} => cmd.size \in Sizes
         /\ cmd.op = "create_file" =>
              /\ cmd.mode \in CreateModes /\ cmd.id \in FileIds
              /\ cmd.replicas \in Seq(Replica)
  BY DEF Command, PlainCommand, BeatCommand, RemoveCommand, PathCommand, SizeCommand,
         RenameCommand, CreateCommand

\* An accepted command leaves a tree.
LEMMA NewTreeType ==
  ASSUME NEW st \in State, NEW cmd \in Command, Accepts(st, cmd)
  PROVE  NewTree(st.tree, cmd) \in [Locations -> Entry]
<1> DEFINE tree == st.tree
<1>1. tree \in [Locations -> Entry] /\ Paths \subseteq Locations
  BY DEF State, Locations
<1>2. CASE cmd.op = "mkdir"
  <2>1. NewTree(tree, cmd) = applyMkdir(tree, cmd.path)
    BY <1>2 DEF NewTree
  <2> QED  BY <1>1, <2>1, MkdirType
<1>3. CASE cmd.op = "create_file"
  <2>1. NewTree(tree, cmd)
          = applyCreateFile(tree, cmd.path, cmd.id, cmd.size, cmd.replicas)
    BY <1>3 DEF NewTree
  <2>2. /\ cmd.path \in Locations /\ cmd.id \in FileIds /\ cmd.size \in Sizes
        /\ cmd.replicas \in Seq(Replica)
    BY <1>1, <1>3, CommandFields
  <2> QED  BY <1>1, <2>1, <2>2, CreateFileType
<1>4. CASE cmd.op = "complete_file"
  <2>1. NewTree(tree, cmd) = applyCompleteFile(tree, cmd.path)
        /\ CanCompleteFile(tree, cmd.path) /\ cmd.path \in Locations
    BY <1>1, <1>4, CommandFields DEF NewTree, Accepts
  <2> QED  BY <1>1, <2>1, CompleteFileType
<1>5. CASE cmd.op = "delete"
  <2>1. NewTree(tree, cmd) = applyDelete(tree, cmd.path)
    BY <1>5 DEF NewTree
  <2> QED  BY <1>1, <2>1, DeleteType
<1>6. CASE cmd.op = "rename"
  <2>1. NewTree(tree, cmd) = applyRename(tree, cmd.path, cmd.dst)
    BY <1>6 DEF NewTree
  <2> QED  BY <1>1, <2>1, RenameType
<1>7. CASE cmd.op = "update_size"
  <2>1. NewTree(tree, cmd) = applyUpdateSize(tree, cmd.path, cmd.size)
        /\ CanUpdateSize(tree, cmd.path) /\ cmd.path \in Locations /\ cmd.size \in Sizes
    BY <1>1, <1>7, CommandFields DEF NewTree, Accepts
  <2> QED  BY <1>1, <2>1, UpdateSizeType
<1>8. CASE cmd.op \in {"heartbeat", "remove_dn"}
  BY <1>1, <1>8 DEF NewTree
<1> QED  BY <1>2, <1>3, <1>4, <1>5, <1>6, <1>7, <1>8, CommandFields

\* The times of heartbeats.
Beats == UNION {[A -> Time] : A \in SUBSET Addrs}

\* A function is one of Beats if its values are times of nodes.
LEMMA BeatsType ==
  ASSUME NEW beats
  PROVE  beats \in Beats <=> /\ beats = [a \in DOMAIN beats |-> beats[a]]
                             /\ DOMAIN beats \subseteq Addrs
                             /\ \A a \in DOMAIN beats : beats[a] \in Time
<1>1. ASSUME beats \in Beats
      PROVE  /\ beats = [a \in DOMAIN beats |-> beats[a]]
             /\ DOMAIN beats \subseteq Addrs
             /\ \A a \in DOMAIN beats : beats[a] \in Time
  <2>1. PICK A \in SUBSET Addrs : beats \in [A -> Time]
    BY <1>1 DEF Beats
  <2> QED  BY <2>1
<1>2. ASSUME beats = [a \in DOMAIN beats |-> beats[a]], DOMAIN beats \subseteq Addrs,
             \A a \in DOMAIN beats : beats[a] \in Time
      PROVE  beats \in Beats
  <2>1. beats \in [DOMAIN beats -> Time]
    BY <1>2
  <2> QED  BY <1>2, <2>1 DEF Beats
<1> QED  BY <1>1, <1>2

\* A command leaves heartbeats of nodes.
LEMMA NewBeatsType ==
  ASSUME NEW beats \in Beats, NEW cmd \in Command, NEW time \in Time
  PROVE  NewBeats(beats, cmd, time) \in Beats
<1>1. DOMAIN beats \subseteq Addrs /\ \A a \in DOMAIN beats : beats[a] \in Time
  BY BeatsType
<1>2. CASE cmd.op = "heartbeat"
  <2>1. cmd.addr \in Addrs
    BY <1>2, CommandFields
  <2>2. NewBeats(beats, cmd, time) \in [DOMAIN beats \cup {cmd.addr} -> Time]
    BY <1>1, <1>2 DEF NewBeats
  <2>3. DOMAIN beats \cup {cmd.addr} \in SUBSET Addrs
    BY <1>1, <2>1
  <2> QED  BY <2>2, <2>3 DEF Beats
<1>3. CASE cmd.op = "remove_dn"
  <2>1. NewBeats(beats, cmd, time) \in [DOMAIN beats \ {cmd.addr} -> Time]
    BY <1>1, <1>3 DEF NewBeats
  <2>2. DOMAIN beats \ {cmd.addr} \in SUBSET Addrs
    BY <1>1
  <2> QED  BY <2>1, <2>2 DEF Beats
<1>4. CASE cmd.op \notin {"heartbeat", "remove_dn"}
  <2>1. NewBeats(beats, cmd, time) = beats
    BY <1>4 DEF NewBeats
  <2> QED  BY <2>1
<1> QED  BY <1>2, <1>3, <1>4

\* Apply leaves a state.
LEMMA AppliedType ==
  ASSUME NEW st \in State, NEW cmd \in Command, NEW time \in Time
  PROVE  Applied(st, cmd, time) \in State
<1>1. CASE Accepts(st, cmd)
  <2>1. NewTree(st.tree, cmd) \in [Locations -> Entry]
    BY <1>1, NewTreeType
  <2>2. NewNodes(st.nodes, cmd) \in Seq(Addrs)
    <3>1. st.nodes \in Seq(Addrs)
      BY DEF State
    <3>2. cmd.op = "heartbeat" => applyHeartbeat(st.nodes, cmd.addr) \in Seq(Addrs)
      BY <3>1, CommandFields, HeartbeatType
    <3>3. applyRemoveDataNode(st.nodes, cmd.addr) \in Seq(Addrs)
      BY <3>1, RemoveDataNodeType
    <3> QED  BY <3>1, <3>2, <3>3 DEF NewNodes
  <2>3. NewBeats(st.beats, cmd, time) \in Beats
    BY NewBeatsType DEF State, Beats
  <2> QED  BY <1>1, <2>1, <2>2, <2>3 DEF Applied, State, Beats
<1> QED  BY <1>1 DEF Applied

\* A new server's state is one.
LEMMA InitStateType == InitState \in State
<1>1. ToSet(Registered) \in SUBSET Addrs
  BY RegisteredAssumption DEF ToSet
<1>2. [a \in ToSet(Registered) |-> 0] \in [ToSet(Registered) -> Time]
  BY BoundsAssumption DEF Time
<1>3. [a \in ToSet(Registered) |-> 0] \in Beats
  BY <1>1, <1>2 DEF Beats
<1> QED  BY <1>3, EmptyTreeType, RegisteredAssumption DEF InitState, State, Beats

-----------------------------------------------------------------------------
(* Steps                                                                   *)

\* A server submits the removal of a node.
ServerSubmits ==
  \E s \in Servers, a \in Addrs :
    /\ queue' = queue \cup {[from |-> s, cmd |-> [op |-> "remove_dn", addr |-> a]]}
    /\ UNCHANGED <<now, log, issued, srv, snap, call, ref>>

RStep == [RNext]_rvars \/ ServerSubmits

\* Positions are positions of the log.
InLog ==
  /\ Len(ref) = Len(log) + 1
  /\ \A s \in Servers : srv[s].idx <= Len(log) /\ snap[s].idx <= Len(log)

TypedInv == RTypeOK /\ InLog

\* At the beginning.
LEMMA RInitTyped == RInit => TypedInv
<1> SUFFICES ASSUME RInit PROVE TypedInv
  OBVIOUS
<1>1. 0 \in Time
  BY BoundsAssumption DEF Time
<1> QED
  BY <1>1, InitStateType
  DEF RInit, TypedInv, RTypeOK, InLog, Server, Snapshot, CallState, Idle

\* A call in the loop of callMDSWithRedirect, or waiting for the log.
LEMMA OpenCallFields ==
  ASSUME NEW c \in Calls, call \in [Calls -> CallState], call[c].pc \in {"ask", "wait"}
  PROVE  call[c] \in OpenCall /\ call[c].req \in Request
<1>1. call[c] \in OpenCall
  BY DEF CallState, OkCall
<1> QED  BY <1>1, RequestsAssumption DEF OpenCall

\* What the handler of a create proposes.
LEMMA HandleCreateCommand ==
  ASSUME NEW req \in Request, req.op = "create_file", NEW nodes \in Seq(Addrs),
         nodes # <<>>, NEW id \in FileIds
  PROVE  [op |-> "create_file", path |-> req.path, mode |-> req.mode,
          size |-> req.size, id |-> id,
          replicas |-> selectDataNodes(nodes, req.path, id)] \in CreateCommand
<1>1. req \in CreateRequest
  BY DEF Request, PlainCommand, BeatCommand, PathCommand, SizeCommand, RenameCommand
<1>2. req.path \in Paths /\ req.mode \in CreateModes /\ req.size \in Sizes
  BY <1>1 DEF CreateRequest
<1>3. selectDataNodes(nodes, req.path, id) \in Seq(Replica)
  BY <1>2, SelectDataNodesType
<1> QED  BY <1>2, <1>3 DEF CreateCommand

\* What an entry of the log is.
LEMMA LogEntryAt ==
  ASSUME RTypeOK, NEW i \in 1..Len(log)
  PROVE  /\ log[i] \in LogEntry
         /\ log[i].from \in Calls \cup Servers /\ log[i].cmd \in Command
         /\ log[i].at \in Time
<1>1. log[i] \in LogEntry
  BY DEF RTypeOK
<1> QED  BY <1>1 DEF LogEntry

\* Every step keeps the types.
LEMMA RStepTyped == TypedInv /\ RStep => TypedInv'
<1> SUFFICES ASSUME TypedInv, RStep PROVE TypedInv'
  OBVIOUS
<1>0. RTypeOK /\ InLog
  BY DEF TypedInv
<1>1. CASE Tick
  BY <1>0, <1>1, BoundsAssumption DEF Tick, TypedInv, RTypeOK, InLog, Time
<1>2. ASSUME NEW c \in Calls, NEW x \in CallState, call' = [call EXCEPT ![c] = x],
             UNCHANGED <<now, log, queue, issued, srv, snap, ref>>
      PROVE  TypedInv'
  BY <1>0, <1>2 DEF TypedInv, RTypeOK, InLog
<1>3. ASSUME NEW c \in Calls, NEW req \in Requests, NEW s \in Servers, Ask(c, req, s)
      PROVE  TypedInv'
  <2>1. [pc |-> "ask", req |-> req, at |-> s, left |-> Attempts] \in CallState
    BY AttemptsAssumption DEF CallState, OpenCall
  <2> QED  BY <1>2, <1>3, <2>1 DEF Ask
<1>4. Refused \in CallState /\ Failed \in CallState
  BY DEF CallState, Refused, Failed
<1>5. ASSUME NEW c \in Calls, NEW s \in Servers, Redirect(c, s) PROVE TypedInv'
  <2>1. call[c] \in OpenCall
    BY <1>0, <1>5, OpenCallFields DEF Redirect, RTypeOK
  <2>2. ASSUME call[c].left # 1
        PROVE  [call[c] EXCEPT !.at = s, !.left = @ - 1] \in OpenCall
    <3>1. call[c].left \in 1..Attempts
      BY <2>1 DEF OpenCall
    <3>2. call[c].left - 1 \in 1..Attempts
      BY <2>2, <3>1, AttemptsAssumption
    <3> QED  BY <2>1, <3>2 DEF OpenCall
  <2>3. (IF call[c].left = 1 THEN Refused
         ELSE [call[c] EXCEPT !.at = s, !.left = @ - 1]) \in CallState
    BY <1>4, <2>2 DEF CallState
  <2> QED  BY <1>2, <1>5, <2>3 DEF Redirect
<1>6. ASSUME NEW c \in Calls, Refuse(c) PROVE TypedInv'
  BY <1>2, <1>4, <1>6 DEF Refuse
<1>7. ASSUME NEW c \in Calls, NEW cmd \in Command, Submits(c, cmd), call[c].pc = "ask",
             issued' \subseteq FileIds
      PROVE  TypedInv'
  <2>1. call[c] \in OpenCall
    BY <1>0, <1>7, OpenCallFields DEF RTypeOK
  <2>2. [call[c] EXCEPT !.pc = "wait"] \in CallState
    BY <2>1 DEF OpenCall, CallState
  <2>3. call' = [call EXCEPT ![c] = [call[c] EXCEPT !.pc = "wait"]]
    BY <1>7 DEF Submits
  <2>4. call' \in [Calls -> CallState]
    BY <1>0, <2>2, <2>3 DEF RTypeOK
  <2>5. [from |-> c, cmd |-> cmd] \in Submission
    BY DEF Submission
  <2> QED  BY <1>0, <1>7, <2>4, <2>5 DEF Submits, TypedInv, RTypeOK, InLog
<1>8. ASSUME NEW c \in Calls, Handle(c) PROVE TypedInv'
  <2>1. call[c].req \in Request /\ call[c].req.op # "create_file" /\ call[c].pc = "ask"
    BY <1>0, <1>8, OpenCallFields DEF Handle, RTypeOK
  <2>2. call[c].req \in Command
    BY <2>1 DEF Request, CreateRequest, Command
  <2>3. Submits(c, call[c].req) /\ issued' = issued
    BY <1>8 DEF Handle
  <2> QED  BY <1>0, <1>7, <2>1, <2>2, <2>3 DEF RTypeOK
<1>9. ASSUME NEW c \in Calls, NEW id \in FileIds, HandleCreate(c, id) PROVE TypedInv'
  <2>1. call[c] \in OpenCall /\ call[c].req \in Request /\ call[c].pc = "ask"
        /\ call[c].req.op = "create_file"
    BY <1>0, <1>9, OpenCallFields DEF HandleCreate, RTypeOK
  <2> DEFINE nodes == srv[call[c].at].st.nodes
             cmd == [op |-> "create_file", path |-> call[c].req.path,
                     mode |-> call[c].req.mode, size |-> call[c].req.size, id |-> id,
                     replicas |-> selectDataNodes(nodes, call[c].req.path, id)]
  <2>2. nodes \in Seq(Addrs)
    BY <1>0, <2>1 DEF RTypeOK, OpenCall, Server, State
  <2>3. nodes # <<>> /\ Submits(c, cmd) /\ issued' = issued \cup {id}
    BY <1>9 DEF HandleCreate
  <2>4. cmd \in CreateCommand
    BY <2>1, <2>2, <2>3, HandleCreateCommand
  <2>5. cmd \in Command
    BY <2>4 DEF Command
  <2> QED  BY <1>0, <1>7, <2>1, <2>3, <2>5 DEF RTypeOK
<1>10. ASSUME NEW c \in Calls, Return(c) PROVE TypedInv'
  <2>1. call[c] \in OpenCall
    BY <1>0, <1>10, OpenCallFields DEF Return, RTypeOK
  <2>2. PICK i \in 1..srv[call[c].at].idx :
          call' = [call EXCEPT ![c] =
            IF Accepts(ref[i], log[i].cmd) THEN [pc |-> "ok", cmd |-> log[i].cmd]
            ELSE Failed]
    BY <1>10 DEF Return
  <2>3. i \in 1..Len(log)
    BY <1>0, <2>1, <2>2 DEF InLog, RTypeOK, OpenCall, Server
  <2>4. log[i].cmd \in Command
    BY <1>0, <2>3, LogEntryAt
  <2>5. (IF Accepts(ref[i], log[i].cmd) THEN [pc |-> "ok", cmd |-> log[i].cmd]
         ELSE Failed) \in CallState
    BY <1>4, <2>4 DEF CallState, OkCall
  <2> QED  BY <1>2, <1>10, <2>2, <2>5 DEF Return
<1>11. ASSUME NEW c \in Calls, Fail(c) PROVE TypedInv'
  BY <1>2, <1>4, <1>11 DEF Fail
<1>12. ASSUME NEW e \in queue, Commit(e) PROVE TypedInv'
  <2>1. e.from \in Calls \cup Servers /\ e.cmd \in Command /\ now \in Time
        /\ log \in Seq(LogEntry) /\ ref \in Seq(State) /\ Len(ref) = Len(log) + 1
    BY <1>0 DEF RTypeOK, Submission, InLog
  <2>2. [from |-> e.from, cmd |-> e.cmd, at |-> now] \in LogEntry
    BY <2>1 DEF LogEntry
  <2>3. Last(ref) \in State
    BY <2>1 DEF Last
  <2>4. Applied(Last(ref), e.cmd, now) \in State
    BY <2>1, <2>3, AppliedType
  <2>5. log' \in Seq(LogEntry) /\ ref' \in Seq(State) /\ Len(log') = Len(log) + 1
        /\ Len(ref') = Len(ref) + 1
    BY <1>12, <2>1, <2>2, <2>4 DEF Commit
  <2>6. RTypeOK'
    BY <1>0, <1>12, <2>5 DEF Commit, RTypeOK
  <2>7. \A s \in Servers : srv[s].idx \in Nat /\ snap[s].idx \in Nat
    BY <1>0 DEF RTypeOK, Server, Snapshot
  <2>8. InLog'
    BY <1>0, <1>12, <2>1, <2>5, <2>7 DEF Commit, InLog
  <2> QED  BY <2>6, <2>8 DEF TypedInv
<1>13. ASSUME NEW s \in Servers, ApplyNext(s) PROVE TypedInv'
  <2>1. srv[s] \in Server /\ srv[s].idx + 1 \in 1..Len(log) /\ now \in Time
    BY <1>0, <1>13 DEF ApplyNext, RTypeOK, Server
  <2>2. log[srv[s].idx + 1].cmd \in Command
    BY <1>0, <2>1, LogEntryAt
  <2>3. Applied(srv[s].st, log[srv[s].idx + 1].cmd, now) \in State
    BY <2>1, <2>2, AppliedType DEF Server
  <2> DEFINE x == [up |-> TRUE, idx |-> srv[s].idx + 1,
                   st |-> Applied(srv[s].st, log[srv[s].idx + 1].cmd, now)]
  <2>4. x \in Server /\ x.idx <= Len(log)
    BY <2>1, <2>3 DEF Server
  <2>5. srv' = [srv EXCEPT ![s] = x]
    BY <1>13 DEF ApplyNext
  <2> HIDE DEF x
  <2>6. RTypeOK'
    BY <1>0, <1>13, <2>4, <2>5 DEF ApplyNext, RTypeOK
  <2>7. InLog'
    BY <1>0, <1>13, <2>4, <2>5 DEF ApplyNext, RTypeOK, InLog
  <2> QED  BY <2>6, <2>7 DEF TypedInv
<1>14. ASSUME NEW s \in Servers, TakeSnapshot(s) PROVE TypedInv'
  BY <1>0, <1>14 DEF TakeSnapshot, TypedInv, RTypeOK, InLog, Server, Snapshot
<1>15. ASSUME NEW s \in Servers, Crash(s) PROVE TypedInv'
  <2>1. call' \in [Calls -> CallState]
    BY <1>0, <1>4, <1>15 DEF Crash, RTypeOK
  <2>2. [up |-> FALSE, idx |-> 0, st |-> InitState] \in Server
    BY InitStateType DEF Server
  <2> QED  BY <1>0, <1>15, <2>1, <2>2 DEF Crash, TypedInv, RTypeOK, InLog
<1>16. ASSUME NEW s \in Servers, Restart(s) PROVE TypedInv'
  <2>1. [up |-> TRUE, idx |-> snap[s].idx, st |-> Restored(snap[s].st)] \in Server
    BY <1>0 DEF RTypeOK, Snapshot, Server, Restored, State
  <2> QED  BY <1>0, <1>16, <2>1 DEF Restart, TypedInv, RTypeOK, InLog
<1>17. CASE ServerSubmits
  <2>1. PICK s \in Servers, a \in Addrs :
          queue' = queue \cup {[from |-> s, cmd |-> [op |-> "remove_dn", addr |-> a]]}
    BY <1>17 DEF ServerSubmits
  <2>2. [from |-> s, cmd |-> [op |-> "remove_dn", addr |-> a]] \in Submission
    BY DEF Submission, Command, RemoveCommand
  <2> QED  BY <1>0, <1>17, <2>1, <2>2 DEF ServerSubmits, TypedInv, RTypeOK, InLog
<1>18. CASE UNCHANGED rvars
  BY <1>0, <1>18 DEF rvars, TypedInv, RTypeOK, InLog
<1> QED
  BY <1>1, <1>3, <1>5, <1>6, <1>8, <1>9, <1>10, <1>11, <1>12, <1>13, <1>14, <1>15,
     <1>16, <1>17, <1>18
  DEF RStep, RNext, QuietNext, CallNext, CallStep, ServerNext

\* Every reachable state is well typed, and no server is ahead of the log.
THEOREM ReplicatedTypeCorrect == RSpec => []RTypeOK
<1>1. TypedInv /\ [RNext]_rvars => TypedInv'
  BY RStepTyped DEF RStep
<1>2. TypedInv => RTypeOK
  BY DEF TypedInv
<1> QED  BY <1>1, <1>2, RInitTyped, PTL DEF RSpec

-----------------------------------------------------------------------------
(* Calls and the log                                                       *)

\* A command of c is in the log, or in the hands of goraft.
InTheLog(c) == \E i \in DOMAIN log : log[i].from = c
InTheQueue(c) == \E e \in queue : e.from = c

\* What a call has submitted exists once.
OnceInv ==
  \A c \in Calls :
    /\ \A i, j \in DOMAIN log : log[i].from = c /\ log[j].from = c => i = j
    /\ \A e, f \in queue : e.from = c /\ f.from = c => e = f
    /\ ~(InTheLog(c) /\ InTheQueue(c))
    /\ call[c].pc \in {"idle", "ask", "refused"} => ~InTheLog(c) /\ ~InTheQueue(c)
    /\ call[c].pc = "ok" =>
         \E i \in DOMAIN log : /\ log[i].from = c /\ log[i].cmd = call[c].cmd
                               /\ Accepts(ref[i], log[i].cmd)

\* At the beginning.
LEMMA RInitOnce == RInit => OnceInv
  BY DEF RInit, OnceInv, InTheLog, InTheQueue, Idle

\* Every step keeps it.
LEMMA RStepOnce == TypedInv /\ OnceInv /\ RStep => OnceInv'
<1> SUFFICES ASSUME TypedInv, OnceInv, RStep PROVE OnceInv'
  OBVIOUS
<1>0. /\ RTypeOK /\ InLog /\ log \in Seq(LogEntry) /\ ref \in Seq(State)
      /\ call \in [Calls -> CallState]
  BY DEF TypedInv, RTypeOK
<1>1. ASSUME NEW c \in Calls, NEW x, call' = [call EXCEPT ![c] = x],
             UNCHANGED <<log, queue, ref>>,
             \/ x.pc \in {"ask", "refused"} /\ call[c].pc \in {"idle", "ask"}
             \/ x.pc = "failed"
             \/ /\ x.pc = "ok"
                /\ \E i \in DOMAIN log : /\ log[i].from = c /\ log[i].cmd = x.cmd
                                         /\ Accepts(ref[i], log[i].cmd)
      PROVE  OnceInv'
  <2> SUFFICES ASSUME NEW d \in Calls
               PROVE  /\ call'[d].pc \in {"idle", "ask", "refused"} =>
                           ~InTheLog(d) /\ ~InTheQueue(d)
                      /\ call'[d].pc = "ok" =>
                           \E i \in DOMAIN log :
                             /\ log[i].from = d /\ log[i].cmd = call'[d].cmd
                             /\ Accepts(ref[i], log[i].cmd)
    BY <1>1 DEF OnceInv, InTheLog, InTheQueue, Accepts
  <2>1. call'[d] = IF d = c THEN x ELSE call[d]
    BY <1>0, <1>1
  <2>2. CASE d = c
    BY <1>1, <2>1, <2>2 DEF OnceInv
  <2>3. CASE d # c
    BY <2>1, <2>3 DEF OnceInv
  <2> QED  BY <2>2, <2>3
<1>2. ASSUME NEW c \in Calls, NEW cmd, Submits(c, cmd), call[c].pc = "ask"
      PROVE  OnceInv'
  <2>1. /\ queue' = queue \cup {[from |-> c, cmd |-> cmd]} /\ log' = log /\ ref' = ref
        /\ call' = [call EXCEPT ![c] = [call[c] EXCEPT !.pc = "wait"]]
    BY <1>2 DEF Submits
  <2>2. call[c] \in OpenCall
    BY <1>0, <1>2, OpenCallFields
  <2>3. call'[c].pc = "wait"
    BY <1>0, <2>1, <2>2 DEF OpenCall
  <2>4. \A d \in Calls : d # c => call'[d] = call[d]
    BY <1>0, <2>1
  <2>5. ~InTheLog(c) /\ ~InTheQueue(c)
    BY <1>2 DEF OnceInv
  <2>6. \A d \in Calls : d # c => InTheQueue(d)' = InTheQueue(d)
    BY <2>1 DEF InTheQueue
  <2>7. \A d : InTheLog(d)' = InTheLog(d)
    BY <2>1 DEF InTheLog
  <2>8. ASSUME NEW d \in Calls, NEW e \in queue', NEW f \in queue',
               e.from = d, f.from = d
        PROVE  e = f
    BY <2>1, <2>5, <2>8 DEF OnceInv, InTheQueue
  <2> QED
    BY <2>1, <2>3, <2>4, <2>5, <2>6, <2>7, <2>8 DEF OnceInv, Accepts
<1>3. ASSUME NEW e \in queue, Commit(e) PROVE OnceInv'
  <2> DEFINE x == [from |-> e.from, cmd |-> e.cmd, at |-> now]
  <2>1. /\ log' = Append(log, x) /\ queue' = queue \ {e} /\ call' = call
        /\ ref' = Append(ref, Applied(Last(ref), e.cmd, now))
    BY <1>3 DEF Commit
  <2>2. /\ DOMAIN log' = DOMAIN log \cup {Len(log) + 1}
        /\ \A i \in DOMAIN log : log'[i] = log[i] /\ i # Len(log) + 1
        /\ log'[Len(log) + 1] = x
    BY <1>0, <2>1
  <2>3. \A i \in DOMAIN log : ref'[i] = ref[i]
    BY <1>0, <2>1 DEF InLog
  <2> HIDE DEF x
  <2>4. x.from = e.from
    BY DEF x
  <2> SUFFICES ASSUME NEW d \in Calls
               PROVE  /\ \A i, j \in DOMAIN log' :
                           log'[i].from = d /\ log'[j].from = d => i = j
                      /\ \A f, g \in queue' : f.from = d /\ g.from = d => f = g
                      /\ ~(InTheLog(d)' /\ InTheQueue(d)')
                      /\ call[d].pc \in {"idle", "ask", "refused"} =>
                           ~InTheLog(d)' /\ ~InTheQueue(d)'
                      /\ call[d].pc = "ok" =>
                           \E i \in DOMAIN log' :
                             /\ log'[i].from = d /\ log'[i].cmd = call[d].cmd
                             /\ Accepts(ref'[i], log'[i].cmd)
    BY <2>1 DEF OnceInv, Accepts
  <2>5. e.from = d => ~InTheLog(d) /\ InTheQueue(d)
    BY DEF OnceInv, InTheQueue
  <2>6. InTheLog(d)' <=> InTheLog(d) \/ e.from = d
    BY <2>2, <2>4 DEF InTheLog
  <2>7. \A f, g \in queue : f.from = d /\ g.from = d => f = g
    BY DEF OnceInv
  <2>8. InTheQueue(d)' => InTheQueue(d) /\ e.from # d
    BY <2>1, <2>7 DEF InTheQueue
  <2>9. \A i, j \in DOMAIN log' : log'[i].from = d /\ log'[j].from = d => i = j
    BY <2>2, <2>4, <2>5 DEF OnceInv, InTheLog
  <2>10. \A f, g \in queue' : f.from = d /\ g.from = d => f = g
    BY <2>1, <2>7
  <2>11. ~(InTheLog(d)' /\ InTheQueue(d)')
    BY <2>6, <2>8 DEF OnceInv
  <2>12. call[d].pc \in {"idle", "ask", "refused"} => ~InTheLog(d)' /\ ~InTheQueue(d)'
    BY <2>5, <2>6, <2>8 DEF OnceInv
  <2>13. ASSUME call[d].pc = "ok"
         PROVE  \E i \in DOMAIN log' :
                  /\ log'[i].from = d /\ log'[i].cmd = call[d].cmd
                  /\ Accepts(ref'[i], log'[i].cmd)
    <3>1. PICK i \in DOMAIN log : /\ log[i].from = d /\ log[i].cmd = call[d].cmd
                                  /\ Accepts(ref[i], log[i].cmd)
      BY <2>13 DEF OnceInv
    <3>2. i \in DOMAIN log' /\ log'[i] = log[i] /\ ref'[i] = ref[i]
      BY <2>2, <2>3
    <3> QED  BY <3>1, <3>2
  <2> QED  BY <2>9, <2>10, <2>11, <2>12, <2>13
<1>4. ASSUME NEW c \in Calls, CallNext(c) PROVE OnceInv'
  <2>1. ASSUME NEW req \in Requests, NEW s \in Servers, Ask(c, req, s) PROVE OnceInv'
    <3> DEFINE x == [pc |-> "ask", req |-> req, at |-> s, left |-> Attempts]
    <3>1. x.pc = "ask" /\ call[c].pc = "idle" /\ call' = [call EXCEPT ![c] = x]
          /\ UNCHANGED <<log, queue, ref>>
      BY <2>1 DEF Ask, Idle
    <3> HIDE DEF x
    <3> QED  BY <1>1, <3>1
  <2>2. ASSUME NEW s \in Servers, Redirect(c, s) PROVE OnceInv'
    <3>1. call[c] \in OpenCall
      BY <1>0, <2>2, OpenCallFields DEF Redirect
    <3>2. [call[c] EXCEPT !.at = s, !.left = @ - 1].pc = call[c].pc
      BY <3>1 DEF OpenCall
    <3> DEFINE x == IF call[c].left = 1 THEN Refused
                    ELSE [call[c] EXCEPT !.at = s, !.left = @ - 1]
    <3>3. x.pc \in {"ask", "refused"}
      BY <2>2, <3>2 DEF Refused, Redirect
    <3>4. call' = [call EXCEPT ![c] = x] /\ UNCHANGED <<log, queue, ref>>
          /\ call[c].pc = "ask"
      BY <2>2 DEF Redirect
    <3> HIDE DEF x
    <3> QED  BY <1>1, <3>3, <3>4
  <2>3. CASE Refuse(c)
    BY <1>1, <2>3 DEF Refuse, Refused
  <2>4. CASE Handle(c)
    BY <1>2, <2>4 DEF Handle
  <2>5. ASSUME NEW id \in FileIds, HandleCreate(c, id) PROVE OnceInv'
    BY <1>2, <2>5 DEF HandleCreate
  <2>6. CASE Return(c)
    <3>1. call[c] \in OpenCall
      BY <1>0, <2>6, OpenCallFields DEF Return
    <3>2. PICK i \in 1..srv[call[c].at].idx :
            /\ log[i].from = c
            /\ call' = [call EXCEPT ![c] =
                 IF Accepts(ref[i], log[i].cmd) THEN [pc |-> "ok", cmd |-> log[i].cmd]
                 ELSE Failed]
      BY <2>6 DEF Return
    <3>3. i \in DOMAIN log
      BY <1>0, <3>1, <3>2 DEF InLog, RTypeOK, OpenCall, Server
    <3>4. UNCHANGED <<log, queue, ref>>
      BY <2>6 DEF Return
    <3>5. CASE Accepts(ref[i], log[i].cmd)
      <4> DEFINE x == [pc |-> "ok", cmd |-> log[i].cmd]
      <4>1. x.pc = "ok" /\ x.cmd = log[i].cmd /\ call' = [call EXCEPT ![c] = x]
        BY <3>2, <3>5
      <4> HIDE DEF x
      <4>2. \E j \in DOMAIN log : /\ log[j].from = c /\ log[j].cmd = x.cmd
                                  /\ Accepts(ref[j], log[j].cmd)
        BY <3>2, <3>3, <3>5, <4>1
      <4> QED  BY <1>1, <3>4, <4>1, <4>2
    <3>6. CASE ~Accepts(ref[i], log[i].cmd)
      BY <1>1, <3>2, <3>4, <3>6 DEF Failed
    <3> QED  BY <3>5, <3>6
  <2>7. CASE Fail(c)
    BY <1>1, <2>7 DEF Fail, Failed
  <2> QED
    BY <1>4, <2>1, <2>2, <2>3, <2>4, <2>5, <2>6, <2>7 DEF CallNext, CallStep
<1>5. ASSUME UNCHANGED <<log, queue, ref, call>> PROVE OnceInv'
  BY <1>5 DEF OnceInv, InTheLog, InTheQueue, Accepts
<1>6. ASSUME NEW s \in Servers, ServerNext(s) PROVE OnceInv'
  BY <1>5, <1>6 DEF ServerNext, ApplyNext, TakeSnapshot, Restart
<1>7. ASSUME NEW s \in Servers, Crash(s) PROVE OnceInv'
  <2>1. \A d \in Calls : call'[d] = call[d] \/ call'[d] = Failed
    BY <1>7 DEF Crash
  <2>2. UNCHANGED <<log, queue, ref>>
    BY <1>7 DEF Crash
  <2> SUFFICES ASSUME NEW d \in Calls
               PROVE  /\ call'[d].pc \in {"idle", "ask", "refused"} =>
                           ~InTheLog(d) /\ ~InTheQueue(d)
                      /\ call'[d].pc = "ok" =>
                           \E i \in DOMAIN log :
                             /\ log[i].from = d /\ log[i].cmd = call'[d].cmd
                             /\ Accepts(ref[i], log[i].cmd)
    BY <2>2 DEF OnceInv, InTheLog, InTheQueue, Accepts
  <2> QED  BY <2>1 DEF OnceInv, Failed
<1>8. CASE ServerSubmits
  <2>1. PICK s \in Servers, a \in Addrs :
          queue' = queue \cup {[from |-> s, cmd |-> [op |-> "remove_dn", addr |-> a]]}
    BY <1>8 DEF ServerSubmits
  <2>2. \A d \in Calls : d # s
    BY CallersAssumption
  <2>3. \A e \in queue' : \A d \in Calls : e.from = d => e \in queue
    BY <2>1, <2>2
  <2>4. queue \subseteq queue' /\ UNCHANGED <<log, ref, call>>
    BY <1>8, <2>1 DEF ServerSubmits
  <2>5. \A d \in Calls : InTheQueue(d)' = InTheQueue(d) /\ InTheLog(d)' = InTheLog(d)
    BY <2>3, <2>4 DEF InTheQueue, InTheLog
  <2> QED  BY <2>3, <2>4, <2>5 DEF OnceInv, Accepts
<1>9. CASE Tick
  BY <1>5, <1>9 DEF Tick
<1>10. CASE UNCHANGED rvars
  BY <1>5, <1>10 DEF rvars
<1> QED
  BY <1>3, <1>4, <1>6, <1>7, <1>8, <1>9, <1>10 DEF RStep, RNext, QuietNext

\* Redirected or not, failed or not, a call has its effect at most once; and a
\* call that was refused has none, now or later.
THEOREM CallsAreCommittedOnce == RSpec => []CallsCommitOnce
<1>1. TypedInv /\ OnceInv /\ [RNext]_rvars => OnceInv'
  BY RStepOnce DEF RStep
<1>2. TypedInv /\ [RNext]_rvars => TypedInv'
  BY RStepTyped DEF RStep
<1>3. OnceInv => CallsCommitOnce
  BY DEF OnceInv, CallsCommitOnce, InTheLog, InTheQueue
<1> QED  BY <1>1, <1>2, <1>3, RInitTyped, RInitOnce, PTL DEF RSpec

-----------------------------------------------------------------------------
(* Servers and the log                                                     *)

\* st stands where r stands, its heartbeats being stamped no earlier.
Matches(st, r) ==
  /\ st.tree = r.tree
  /\ st.nodes = r.nodes
  /\ DOMAIN st.beats = DOMAIN r.beats
  /\ \A a \in DOMAIN r.beats : st.beats[a] >= r.beats[a]

\* A command applied later to a state that matches leaves one that matches:
\* Apply decides by the tree alone.
LEMMA AppliedMatches ==
  ASSUME NEW st \in State, NEW r \in State, Matches(st, r), NEW cmd \in Command,
         NEW t \in Time, NEW u \in Time, t >= u
  PROVE  Matches(Applied(st, cmd, t), Applied(r, cmd, u))
<1>1. Accepts(st, cmd) <=> Accepts(r, cmd)
  BY DEF Matches, Accepts
<1>2. CASE ~Accepts(r, cmd)
  BY <1>1, <1>2 DEF Applied
<1>3. CASE Accepts(r, cmd)
  <2> DEFINE sb == NewBeats(st.beats, cmd, t)
             rb == NewBeats(r.beats, cmd, u)
  <2>1. Applied(st, cmd, t) = [tree |-> NewTree(st.tree, cmd),
                               nodes |-> NewNodes(st.nodes, cmd), beats |-> sb]
    BY <1>1, <1>3 DEF Applied
  <2>2. Applied(r, cmd, u) = [tree |-> NewTree(r.tree, cmd),
                              nodes |-> NewNodes(r.nodes, cmd), beats |-> rb]
    BY <1>3 DEF Applied
  <2>3. DOMAIN sb = DOMAIN rb /\ \A a \in DOMAIN rb : sb[a] >= rb[a]
    <3>1. DOMAIN st.beats = DOMAIN r.beats
          /\ \A a \in DOMAIN r.beats : st.beats[a] >= r.beats[a]
      BY DEF Matches
    <3>2. CASE cmd.op = "heartbeat"
      <4>1. /\ DOMAIN sb = DOMAIN st.beats \cup {cmd.addr}
            /\ DOMAIN rb = DOMAIN r.beats \cup {cmd.addr}
            /\ \A a \in DOMAIN st.beats \cup {cmd.addr} :
                 sb[a] = IF a = cmd.addr THEN t ELSE st.beats[a]
            /\ \A a \in DOMAIN r.beats \cup {cmd.addr} :
                 rb[a] = IF a = cmd.addr THEN u ELSE r.beats[a]
        BY <3>2 DEF NewBeats
      <4> HIDE DEF sb, rb
      <4> QED  BY <3>1, <4>1
    <3>3. CASE cmd.op = "remove_dn"
      <4>1. /\ DOMAIN sb = DOMAIN st.beats \ {cmd.addr}
            /\ DOMAIN rb = DOMAIN r.beats \ {cmd.addr}
            /\ \A a \in DOMAIN st.beats \ {cmd.addr} : sb[a] = st.beats[a]
            /\ \A a \in DOMAIN r.beats \ {cmd.addr} : rb[a] = r.beats[a]
        BY <3>3 DEF NewBeats
      <4> HIDE DEF sb, rb
      <4> QED  BY <3>1, <4>1
    <3>4. CASE cmd.op \notin {"heartbeat", "remove_dn"}
      <4>1. sb = st.beats /\ rb = r.beats
        BY <3>4 DEF NewBeats
      <4> QED  BY <3>1, <4>1
    <3> QED  BY <3>2, <3>3, <3>4
  <2> HIDE DEF sb, rb
  <2> QED  BY <2>1, <2>2, <2>3 DEF Matches
<1> QED  BY <1>2, <1>3

\* The history is what the log makes; and no server has left it.
HistoryInv ==
  /\ \A i \in DOMAIN log : /\ log[i].at <= now
                           /\ ref[i + 1] = Applied(ref[i], log[i].cmd, log[i].at)
  /\ ref[1] = InitState
  /\ \A s \in Servers : Follows(srv[s]) /\ Follows(snap[s])

\* Where a state machine has got to in a longer log is where it had got to.
LEMMA FollowsOn ==
  ASSUME ref \in Seq(State), ref' \in Seq(State), Len(ref) <= Len(ref'),
         \A i \in DOMAIN ref : ref'[i] = ref[i],
         NEW x, x.idx \in Nat, Follows(x)
  PROVE  x.idx < Len(ref)' /\ Matches(x.st, ref'[x.idx + 1])
  BY DEF Follows, Matches

\* Follows, in terms of Matches.
LEMMA FollowsMatches ==
  \A x : Follows(x) <=> x.idx < Len(ref) /\ Matches(x.st, ref[x.idx + 1])
  BY DEF Follows, Matches

\* At the beginning.
LEMMA RInitHistory == RInit => HistoryInv
<1> SUFFICES ASSUME RInit PROVE HistoryInv
  OBVIOUS
<1>1. Matches(InitState, InitState)
  <2>1. \A a \in DOMAIN InitState.beats : InitState.beats[a] \in Nat
    BY InitStateType, BeatsType DEF State, Beats, Time
  <2> QED  BY <2>1 DEF Matches
<1>2. ref = <<InitState>> /\ log = <<>>
  BY DEF RInit
<1>3. \A s \in Servers : /\ srv[s].idx = 0 /\ srv[s].st = InitState
                         /\ snap[s].idx = 0 /\ snap[s].st = InitState
  BY DEF RInit
<1> QED  BY <1>1, <1>2, <1>3, FollowsMatches DEF HistoryInv

\* Every step keeps it.
LEMMA RStepHistory == TypedInv /\ HistoryInv /\ RStep => HistoryInv'
<1> SUFFICES ASSUME TypedInv, HistoryInv, RStep PROVE HistoryInv'
  OBVIOUS
<1>0. /\ RTypeOK /\ InLog /\ log \in Seq(LogEntry) /\ ref \in Seq(State)
      /\ now \in Time /\ Time \subseteq Nat
      /\ srv \in [Servers -> Server] /\ snap \in [Servers -> Snapshot]
      /\ \A s \in Servers : /\ srv[s].idx \in Nat /\ snap[s].idx \in Nat
                            /\ srv[s].st \in State
  BY DEF TypedInv, RTypeOK, Time, Server, Snapshot
<1>1. ASSUME NEW i \in DOMAIN log PROVE log[i].at \in Nat /\ log[i].at \in Time
  <2>1. i \in 1..Len(log)
    BY <1>0
  <2>2. log[i].at \in Time
    BY <1>0, <2>1, LogEntryAt
  <2> QED  BY <1>0, <2>2
<1>2. ASSUME NEW e \in queue, Commit(e) PROVE HistoryInv'
  <2> DEFINE x == [from |-> e.from, cmd |-> e.cmd, at |-> now]
             r == Applied(Last(ref), e.cmd, now)
  <2>1. log' = Append(log, x) /\ ref' = Append(ref, r) /\ UNCHANGED <<now, srv, snap>>
    BY <1>2 DEF Commit
  <2>2. Last(ref) = ref[Len(ref)] /\ Len(ref) = Len(log) + 1 /\ Len(log) \in Nat
    BY <1>0 DEF Last, InLog
  <2>3. x.at = now /\ x.cmd = e.cmd /\ r = Applied(ref[Len(ref)], x.cmd, x.at)
    BY <2>2
  <2> HIDE DEF x, r
  <2>4. /\ DOMAIN log' = DOMAIN log \cup {Len(log) + 1}
        /\ \A i \in DOMAIN log : log'[i] = log[i]
        /\ log'[Len(log) + 1] = x
    BY <1>0, <2>1
  <2>5. /\ \A i \in DOMAIN ref : ref'[i] = ref[i]
        /\ ref'[Len(log) + 2] = r
        /\ Len(ref') = Len(ref) + 1
    BY <1>0, <2>1, <2>2
  <2>6. ref' \in Seq(State)
    BY RStepTyped DEF TypedInv, RTypeOK
  <2>7. ASSUME NEW i \in DOMAIN log'
        PROVE  log'[i].at <= now /\ ref'[i + 1] = Applied(ref'[i], log'[i].cmd, log'[i].at)
    <3>1. CASE i \in DOMAIN log
      <4>1. i \in DOMAIN ref /\ i + 1 \in DOMAIN ref
        BY <1>0, <2>2, <3>1
      <4> QED  BY <2>4, <2>5, <3>1, <4>1 DEF HistoryInv
    <3>2. CASE i = Len(log) + 1
      <4>1. i \in DOMAIN ref /\ i = Len(ref) /\ i + 1 = Len(log) + 2
        BY <1>0, <2>2, <3>2
      <4>2. ref'[i] = ref[Len(ref)] /\ ref'[i + 1] = r /\ log'[i] = x
        BY <2>4, <2>5, <3>2, <4>1
      <4>3. now <= now
        BY <1>0
      <4> QED  BY <2>3, <4>2, <4>3
    <3> QED  BY <2>4, <3>1, <3>2
  <2>8. ref'[1] = InitState
    BY <1>0, <2>2, <2>5 DEF HistoryInv
  <2>9. ASSUME NEW y, y.idx \in Nat, Follows(y)
        PROVE  y.idx < Len(ref') /\ Matches(y.st, ref'[y.idx + 1])
    BY <1>0, <2>5, <2>6, <2>9, FollowsOn
  <2>10. \A y : Follows(y)' <=> y.idx < Len(ref') /\ Matches(y.st, ref'[y.idx + 1])
    BY DEF Follows, Matches
  <2>11. ASSUME NEW s \in Servers PROVE Follows(srv[s])' /\ Follows(snap[s])'
    <3>1. /\ srv[s].idx < Len(ref') /\ Matches(srv[s].st, ref'[srv[s].idx + 1])
          /\ snap[s].idx < Len(ref') /\ Matches(snap[s].st, ref'[snap[s].idx + 1])
      BY <1>0, <2>9 DEF HistoryInv
    <3> QED  BY <2>1, <3>1 DEF Follows, Matches
  <2> QED  BY <2>1, <2>7, <2>8, <2>11 DEF HistoryInv
<1>3. ASSUME UNCHANGED <<log, ref, srv, snap>>, now <= now', now' \in Nat
      PROVE  HistoryInv'
  <2>1. \A i \in DOMAIN log : log[i].at <= now'
    BY <1>0, <1>1, <1>3 DEF HistoryInv
  <2> QED  BY <1>3, <2>1 DEF HistoryInv, Follows
<1>4. ASSUME NEW s \in Servers, UNCHANGED <<now, log, ref>>,
             \A t \in Servers \ {s} : srv'[t] = srv[t] /\ snap'[t] = snap[t],
             Follows(srv'[s]), Follows(snap'[s])
      PROVE  HistoryInv'
  <2>1. ASSUME NEW t \in Servers, t # s PROVE Follows(srv'[t]) /\ Follows(snap'[t])
    <3>1. srv'[t] = srv[t] /\ snap'[t] = snap[t]
      BY <1>4, <2>1
    <3> QED  BY <3>1 DEF HistoryInv
  <2>2. ASSUME NEW t \in Servers PROVE Follows(srv'[t]) /\ Follows(snap'[t])
    BY <1>4, <2>1
  <2>3. ASSUME NEW t \in Servers PROVE Follows(srv[t])' /\ Follows(snap[t])'
    BY <1>4, <2>2 DEF Follows
  <2> QED  BY <1>4, <2>3 DEF HistoryInv
<1>5. ASSUME NEW s \in Servers, ApplyNext(s) PROVE HistoryInv'
  <2> DEFINE i == srv[s].idx + 1
             x == [up |-> TRUE, idx |-> i, st |-> Applied(srv[s].st, log[i].cmd, now)]
  <2>1. srv' = [srv EXCEPT ![s] = x] /\ UNCHANGED <<now, log, ref, snap>>
    BY <1>5 DEF ApplyNext
  <2>2. i \in DOMAIN log
    BY <1>0, <1>5 DEF ApplyNext
  <2>3. ref[i] \in State /\ i < Len(ref) /\ log[i].cmd \in Command
    BY <1>0, <2>2, LogEntryAt DEF InLog
  <2>4. Matches(srv[s].st, ref[i]) /\ now >= log[i].at
    BY <1>0, <1>1, <2>2, FollowsMatches DEF HistoryInv
  <2>5. Matches(Applied(srv[s].st, log[i].cmd, now),
                Applied(ref[i], log[i].cmd, log[i].at))
    BY <1>0, <1>1, <2>2, <2>3, <2>4, AppliedMatches
  <2>6. ref[i + 1] = Applied(ref[i], log[i].cmd, log[i].at)
    BY <2>2 DEF HistoryInv
  <2>7. x.idx = i /\ x.st = Applied(srv[s].st, log[i].cmd, now)
    OBVIOUS
  <2> HIDE DEF x, i
  <2>8. Follows(x)
    BY <2>3, <2>5, <2>6, <2>7, FollowsMatches
  <2>9. srv'[s] = x /\ \A t \in Servers \ {s} : srv'[t] = srv[t]
    BY <1>0, <2>1
  <2> QED  BY <1>4, <2>1, <2>8, <2>9 DEF HistoryInv
<1>6. ASSUME NEW s \in Servers, TakeSnapshot(s) PROVE HistoryInv'
  <2>1. /\ UNCHANGED <<now, log, ref, srv>>
        /\ snap'[s] = [idx |-> srv[s].idx, st |-> srv[s].st]
        /\ \A t \in Servers \ {s} : snap'[t] = snap[t]
    BY <1>0, <1>6 DEF TakeSnapshot
  <2>2. Follows(snap'[s])
    BY <2>1 DEF HistoryInv, Follows
  <2> QED  BY <1>4, <2>1, <2>2 DEF HistoryInv
<1>7. ASSUME NEW s \in Servers, Crash(s) PROVE HistoryInv'
  <2>1. /\ UNCHANGED <<now, log, ref, snap>>
        /\ srv'[s].idx = 0 /\ srv'[s].st = InitState
        /\ \A t \in Servers \ {s} : srv'[t] = srv[t]
    BY <1>0, <1>7 DEF Crash
  <2>2. Matches(InitState, InitState)
    <3>1. \A a \in DOMAIN InitState.beats : InitState.beats[a] \in Nat
      BY InitStateType, BeatsType DEF State, Beats, Time
    <3> QED  BY <3>1 DEF Matches
  <2>3. ref[1] = InitState /\ 0 < Len(ref)
    BY <1>0 DEF HistoryInv, InLog
  <2>4. Follows(srv'[s])
    BY <2>1, <2>2, <2>3, FollowsMatches
  <2> QED  BY <1>4, <2>1, <2>4 DEF HistoryInv
<1>8. ASSUME NEW s \in Servers, Restart(s) PROVE HistoryInv'
  <2>1. /\ UNCHANGED <<now, log, ref, snap>>
        /\ srv'[s].idx = snap[s].idx /\ srv'[s].st = Restored(snap[s].st)
        /\ \A t \in Servers \ {s} : srv'[t] = srv[t]
    BY <1>0, <1>8 DEF Restart
  <2>2. Follows(srv'[s])
    BY <2>1 DEF HistoryInv, Follows, Restored
  <2> QED  BY <1>4, <2>1, <2>2 DEF HistoryInv
<1>9. CASE Tick
  BY <1>0, <1>3, <1>9 DEF Tick
<1>10. ASSUME UNCHANGED <<now, log, ref, srv, snap>> PROVE HistoryInv'
  BY <1>0, <1>3, <1>10
<1>11. ASSUME NEW c \in Calls, CallNext(c) PROVE HistoryInv'
  BY <1>10, <1>11
  DEF CallNext, CallStep, Ask, Redirect, Refuse, Handle, HandleCreate, Submits,
      Return, Fail
<1>12. CASE ServerSubmits \/ UNCHANGED rvars
  BY <1>10, <1>12 DEF ServerSubmits, rvars
<1> QED
  BY <1>2, <1>5, <1>6, <1>7, <1>8, <1>9, <1>11, <1>12
  DEF RStep, RNext, QuietNext, ServerNext

\* Whatever servers crash, restart from whatever snapshots, and lag: at equal
\* positions of the log they have equal trees and memberships.
THEOREM ServersAgree == RSpec => []ServersFollowLog
<1>1. TypedInv /\ HistoryInv /\ [RNext]_rvars => HistoryInv'
  BY RStepHistory DEF RStep
<1>2. TypedInv /\ [RNext]_rvars => TypedInv'
  BY RStepTyped DEF RStep
<1>3. HistoryInv => ServersFollowLog
  BY DEF HistoryInv, ServersFollowLog
<1> QED  BY <1>1, <1>2, <1>3, RInitTyped, RInitHistory, PTL DEF RSpec

-----------------------------------------------------------------------------
(* Membership                                                              *)

\* The members are the nodes with a heartbeat, each listed once.
Consistent(st) == DOMAIN st.beats = ToSet(st.nodes) /\ IsInjective(st.nodes)

\* Apply keeps the two fields consistent.
LEMMA AppliedConsistent ==
  ASSUME NEW st \in State, Consistent(st), NEW cmd \in Command, NEW time
  PROVE  Consistent(Applied(st, cmd, time))
<1>1. CASE ~Accepts(st, cmd)
  BY <1>1 DEF Applied
<1>2. CASE Accepts(st, cmd)
  <2> DEFINE nodes == NewNodes(st.nodes, cmd)
             beats == NewBeats(st.beats, cmd, time)
  <2>1. Applied(st, cmd, time)
          = [tree |-> NewTree(st.tree, cmd), nodes |-> nodes, beats |-> beats]
    BY <1>2 DEF Applied
  <2>2. st.nodes \in Seq(Addrs) /\ IsInjective(st.nodes)
        /\ DOMAIN st.beats = ToSet(st.nodes)
    BY DEF State, Consistent
  <2>3. DOMAIN beats = ToSet(nodes) /\ IsInjective(nodes)
    <3>1. CASE cmd.op = "heartbeat"
      <4>1. nodes = applyHeartbeat(st.nodes, cmd.addr) /\ cmd.addr \in Addrs
        BY <3>1, CommandFields DEF NewNodes
      <4>2. DOMAIN beats = DOMAIN st.beats \cup {cmd.addr}
        BY <3>1 DEF NewBeats
      <4>3. ToSet(nodes) = ToSet(st.nodes) \cup {cmd.addr} /\ IsInjective(nodes)
        BY <2>2, <4>1, HeartbeatMembers
      <4> QED  BY <2>2, <4>2, <4>3
    <3>2. CASE cmd.op = "remove_dn"
      <4>1. nodes = applyRemoveDataNode(st.nodes, cmd.addr)
        BY <3>2 DEF NewNodes
      <4>2. DOMAIN beats = DOMAIN st.beats \ {cmd.addr}
        BY <3>2 DEF NewBeats
      <4>3. ToSet(nodes) = ToSet(st.nodes) \ {cmd.addr} /\ IsInjective(nodes)
        BY <2>2, <4>1, RemoveDataNodeMembers
      <4> QED  BY <2>2, <4>2, <4>3
    <3>3. CASE cmd.op \notin {"heartbeat", "remove_dn"}
      <4>1. nodes = st.nodes
        BY <3>3 DEF NewNodes
      <4>2. beats = st.beats
        BY <3>3 DEF NewBeats
      <4> QED  BY <2>2, <4>1, <4>2
    <3> QED  BY <3>1, <3>2, <3>3
  <2> HIDE DEF nodes, beats
  <2> QED  BY <2>1, <2>3 DEF Consistent
<1> QED  BY <1>1, <1>2

\* Every state in the history is consistent, and so are servers and snapshots,
\* which follow it.
ConsistentInv == \A i \in DOMAIN ref : Consistent(ref[i])

\* At the beginning.
LEMMA RInitConsistent == RInit => ConsistentInv
<1> SUFFICES ASSUME RInit PROVE Consistent(InitState)
  BY DEF RInit, ConsistentInv
<1> QED  BY RegisteredAssumption DEF Consistent, InitState

\* The history only grows, by what the next command makes.
LEMMA RStepRef ==
  ASSUME TypedInv, RStep
  PROVE  \/ UNCHANGED <<log, ref>>
         \/ \E e \in queue : Commit(e)
  BY DEF RStep, RNext, QuietNext, CallNext, CallStep, ServerNext, Tick, Ask, Redirect,
         Refuse, Handle, HandleCreate, Submits, Return, Fail, ApplyNext, TakeSnapshot,
         Crash, Restart, ServerSubmits, rvars

\* Every step keeps the history consistent.
LEMMA RStepConsistent == TypedInv /\ ConsistentInv /\ RStep => ConsistentInv'
<1> SUFFICES ASSUME TypedInv, ConsistentInv, RStep PROVE ConsistentInv'
  OBVIOUS
<1>1. CASE UNCHANGED <<log, ref>>
  BY <1>1 DEF ConsistentInv
<1>2. ASSUME NEW e \in queue, Commit(e) PROVE ConsistentInv'
  <2>1. ref \in Seq(State) /\ Len(ref) = Len(log) + 1 /\ log \in Seq(LogEntry)
        /\ e.cmd \in Command
    BY DEF TypedInv, RTypeOK, InLog, Submission
  <2>2. Last(ref) \in State /\ Consistent(Last(ref))
    BY <2>1 DEF Last, ConsistentInv
  <2>3. Consistent(Applied(Last(ref), e.cmd, now))
    BY <2>1, <2>2, AppliedConsistent
  <2>4. ref' = Append(ref, Applied(Last(ref), e.cmd, now))
    BY <1>2 DEF Commit
  <2> DEFINE r == Applied(Last(ref), e.cmd, now)
  <2> HIDE DEF r
  <2>5. /\ DOMAIN ref' = DOMAIN ref \cup {Len(ref) + 1}
        /\ \A i \in DOMAIN ref : ref'[i] = ref[i]
        /\ ref'[Len(ref) + 1] = r
    BY <2>1, <2>4 DEF r
  <2> QED  BY <2>3, <2>5 DEF ConsistentInv, r
<1> QED  BY <1>1, <1>2, RStepRef

\* What follows a consistent history is consistent.
LEMMA ServersConsistent ==
  ASSUME TypedInv, HistoryInv, ConsistentInv
  PROVE  MembershipConsistent
<1> SUFFICES ASSUME NEW s \in Servers PROVE Consistent(srv[s].st)
  BY DEF MembershipConsistent, Consistent
<1>1. srv[s].idx \in Nat /\ ref \in Seq(State)
  BY DEF TypedInv, RTypeOK, Server
<1>2. srv[s].idx < Len(ref) /\ Matches(srv[s].st, ref[srv[s].idx + 1])
  BY FollowsMatches DEF HistoryInv
<1>3. srv[s].idx + 1 \in DOMAIN ref
  BY <1>1, <1>2
<1>4. Consistent(ref[srv[s].idx + 1])
  BY <1>3 DEF ConsistentInv
<1> QED  BY <1>2, <1>4 DEF Consistent, Matches

\* On every server the list of nodes and the heartbeats name the same members.
THEOREM MembershipStaysConsistent == RSpec => []MembershipConsistent
<1>1. TypedInv /\ HistoryInv /\ ConsistentInv /\ [RNext]_rvars
        => TypedInv' /\ HistoryInv' /\ ConsistentInv'
  BY RStepTyped, RStepHistory, RStepConsistent DEF RStep
<1>2. TypedInv /\ HistoryInv /\ ConsistentInv => MembershipConsistent
  BY ServersConsistent
<1> QED
  BY <1>1, <1>2, RInitTyped, RInitHistory, RInitConsistent, PTL DEF RSpec

-----------------------------------------------------------------------------
(* The identities of commands                                              *)

\* A handler proposes for an identity copies on different nodes, under it.
WellPlaced(cmd) ==
  /\ cmd.op = "create_file" => cmd.replicas \in NS!ReplicaLists(cmd.id)
  /\ cmd.op = "rename" => cmd \in Requests

\* An identity is given out once.
IdsInv ==
  /\ \A e \in queue : WellPlaced(e.cmd)
  /\ \A i \in DOMAIN log : WellPlaced(log[i].cmd)
  /\ \A id \in FileIds :
       /\ \A e \in queue : Creates(e.cmd, id) => id \in issued
       /\ \A i \in DOMAIN log : Creates(log[i].cmd, id) => id \in issued
       /\ \A e, f \in queue : Creates(e.cmd, id) /\ Creates(f.cmd, id) => e = f
       /\ \A i, j \in DOMAIN log :
            Creates(log[i].cmd, id) /\ Creates(log[j].cmd, id) => i = j
       /\ \A e \in queue, i \in DOMAIN log :
            ~(Creates(e.cmd, id) /\ Creates(log[i].cmd, id))

\* At the beginning.
LEMMA RInitIds == RInit => IdsInv
  BY DEF RInit, IdsInv

\* Every step keeps it.
LEMMA RStepIds ==
  TypedInv /\ HistoryInv /\ ConsistentInv /\ IdsInv /\ RStep => IdsInv'
<1> SUFFICES ASSUME TypedInv, HistoryInv, ConsistentInv, IdsInv, RStep PROVE IdsInv'
  OBVIOUS
<1>0. /\ RTypeOK /\ InLog /\ log \in Seq(LogEntry) /\ call \in [Calls -> CallState]
  BY DEF TypedInv, RTypeOK
<1>1. ASSUME UNCHANGED <<log, queue, issued>> PROVE IdsInv'
  BY <1>1 DEF IdsInv
<1>2. ASSUME NEW x, UNCHANGED log, queue' = queue \cup {x}, WellPlaced(x.cmd),
             x.cmd.op # "create_file", issued' = issued
      PROVE  IdsInv'
  <2>1. \A id \in FileIds : ~Creates(x.cmd, id)
    BY <1>2 DEF Creates
  <2> QED  BY <1>2, <2>1 DEF IdsInv
<1>3. ASSUME NEW c \in Calls, Handle(c) PROVE IdsInv'
  <2>1. /\ Submits(c, call[c].req) /\ issued' = issued
        /\ call[c].req.op # "create_file" /\ call[c].pc = "ask"
    BY <1>3 DEF Handle
  <2>2. call[c].req \in Requests
    BY <1>0, <2>1, OpenCallFields DEF OpenCall
  <2> DEFINE x == [from |-> c, cmd |-> call[c].req]
  <2>3. queue' = queue \cup {x} /\ log' = log /\ x.cmd = call[c].req
    BY <2>1 DEF Submits
  <2> HIDE DEF x
  <2> QED  BY <1>2, <2>1, <2>2, <2>3 DEF WellPlaced
<1>4. ASSUME NEW c \in Calls, NEW id \in FileIds, HandleCreate(c, id) PROVE IdsInv'
  <2>1. call[c] \in OpenCall /\ call[c].req \in Request
    BY <1>0, <1>4, OpenCallFields DEF HandleCreate
  <2> DEFINE nodes == srv[call[c].at].st.nodes
             path == call[c].req.path
             cmd == [op |-> "create_file", path |-> path, mode |-> call[c].req.mode,
                     size |-> call[c].req.size, id |-> id,
                     replicas |-> selectDataNodes(nodes, path, id)]
             x == [from |-> c, cmd |-> cmd]
  <2>2. /\ nodes # <<>> /\ id \notin issued /\ issued' = issued \cup {id}
        /\ call[c].req.op = "create_file"
        /\ queue' = queue \cup {x} /\ log' = log
    BY <1>4 DEF HandleCreate, Submits
  <2>3. path \in Paths
    <3>1. call[c].req \in CreateRequest
      BY <2>1, <2>2
      DEF Request, PlainCommand, BeatCommand, PathCommand, SizeCommand, RenameCommand
    <3> QED  BY <3>1 DEF CreateRequest
  <2>4. nodes \in Seq(Addrs) /\ call[c].at \in Servers
    BY <1>0, <2>1 DEF RTypeOK, OpenCall, Server, State
  <2>5. IsInjective(nodes)
    BY <2>4, ServersConsistent DEF MembershipConsistent
  <2>6. selectDataNodes(nodes, path, id) \in NS!ReplicaLists(id)
    <3> HIDE DEF path, nodes
    <3>1. PICK n \in 1..replicaCount :
            /\ selectDataNodes(nodes, path, id) \in [1..n -> [addr : Addrs, remote : {id}]]
            /\ IsInjective(selectDataNodes(nodes, path, id))
      BY <2>2, <2>3, <2>4, <2>5, SelectDataNodesDistinct
    <3> QED  BY <3>1 DEF NS!ReplicaLists, NS!IsInjective, IsInjective
  <2>7. x.cmd = cmd /\ cmd.op = "create_file" /\ cmd.id = id
        /\ cmd.replicas = selectDataNodes(nodes, path, id)
    OBVIOUS
  <2> HIDE DEF x, cmd, nodes, path
  <2>8. WellPlaced(x.cmd)
    BY <2>6, <2>7 DEF WellPlaced
  <2>9. \A k \in FileIds : Creates(x.cmd, k) <=> k = id
    BY <2>7 DEF Creates
  <2>10. /\ \A e \in queue : ~Creates(e.cmd, id)
         /\ \A i \in DOMAIN log : ~Creates(log[i].cmd, id)
    BY <2>2 DEF IdsInv
  <2> QED  BY <2>2, <2>8, <2>9, <2>10 DEF IdsInv
<1>5. ASSUME NEW e \in queue, Commit(e) PROVE IdsInv'
  <2> DEFINE x == [from |-> e.from, cmd |-> e.cmd, at |-> now]
  <2>1. log' = Append(log, x) /\ queue' = queue \ {e} /\ issued' = issued
    BY <1>5 DEF Commit
  <2>2. /\ DOMAIN log' = DOMAIN log \cup {Len(log) + 1}
        /\ \A i \in DOMAIN log : log'[i] = log[i]
        /\ log'[Len(log) + 1].cmd = e.cmd
    BY <1>0, <2>1
  <2> HIDE DEF x
  <2>3. WellPlaced(e.cmd)
    BY DEF IdsInv
  <2>4. \A i \in DOMAIN log' : WellPlaced(log'[i].cmd)
    BY <2>2, <2>3 DEF IdsInv
  <2> SUFFICES ASSUME NEW id \in FileIds
               PROVE  /\ \A i \in DOMAIN log' : Creates(log'[i].cmd, id) => id \in issued
                      /\ \A i, j \in DOMAIN log' :
                           Creates(log'[i].cmd, id) /\ Creates(log'[j].cmd, id) => i = j
                      /\ \A f \in queue', i \in DOMAIN log' :
                           ~(Creates(f.cmd, id) /\ Creates(log'[i].cmd, id))
    BY <2>1, <2>4 DEF IdsInv
  <2>5. /\ \A i \in DOMAIN log : ~(Creates(e.cmd, id) /\ Creates(log[i].cmd, id))
        /\ \A f \in queue : Creates(e.cmd, id) /\ Creates(f.cmd, id) => e = f
        /\ Creates(e.cmd, id) => id \in issued
    BY DEF IdsInv
  <2>6. /\ \A i \in DOMAIN log : Creates(log[i].cmd, id) => id \in issued
        /\ \A i, j \in DOMAIN log :
             Creates(log[i].cmd, id) /\ Creates(log[j].cmd, id) => i = j
        /\ \A f \in queue, i \in DOMAIN log :
             ~(Creates(f.cmd, id) /\ Creates(log[i].cmd, id))
    BY DEF IdsInv
  <2>7. \A i \in DOMAIN log' : Creates(log'[i].cmd, id) <=>
          \/ i \in DOMAIN log /\ Creates(log[i].cmd, id)
          \/ i = Len(log) + 1 /\ Creates(e.cmd, id)
    BY <1>0, <2>2
  <2> QED  BY <2>1, <2>2, <2>5, <2>6, <2>7
<1>6. ASSUME NEW c \in Calls, CallNext(c) PROVE IdsInv'
  BY <1>1, <1>3, <1>4, <1>6 DEF CallNext, CallStep, Ask, Redirect, Refuse, Return, Fail
<1>7. ASSUME NEW s \in Servers, ServerNext(s) \/ Crash(s) PROVE IdsInv'
  BY <1>1, <1>7 DEF ServerNext, ApplyNext, TakeSnapshot, Restart, Crash
<1>8. CASE ServerSubmits
  <2>1. PICK s \in Servers, a \in Addrs :
          /\ queue' = queue \cup {[from |-> s, cmd |-> [op |-> "remove_dn", addr |-> a]]}
          /\ log' = log /\ issued' = issued
    BY <1>8 DEF ServerSubmits
  <2> DEFINE x == [from |-> s, cmd |-> [op |-> "remove_dn", addr |-> a]]
  <2>2. x.cmd.op = "remove_dn" /\ queue' = queue \cup {x}
    BY <2>1
  <2> HIDE DEF x
  <2> QED  BY <1>2, <2>1, <2>2 DEF WellPlaced
<1>9. CASE Tick \/ UNCHANGED rvars
  BY <1>1, <1>9 DEF Tick, rvars
<1> QED
  BY <1>5, <1>6, <1>7, <1>8, <1>9 DEF RStep, RNext, QuietNext

\* All of the above.
ServiceInv == TypedInv /\ OnceInv /\ HistoryInv /\ ConsistentInv /\ IdsInv

\* It holds at the beginning.
LEMMA RInitService == RInit => ServiceInv
  BY RInitTyped, RInitOnce, RInitHistory, RInitConsistent, RInitIds DEF ServiceInv

\* Every step keeps it.
LEMMA RStepService == ServiceInv /\ RStep => ServiceInv'
  BY RStepTyped, RStepOnce, RStepHistory, RStepConsistent, RStepIds DEF ServiceInv

-----------------------------------------------------------------------------
(* The service as one namespace                                            *)

\* Where a directory may be moved to, there is room for all it may contain.
RoomForRenames ==
  \A req \in Requests : req.op = "rename" =>
    \A q \in Paths : IsPrefix(req.path, q) =>
      req.dst \o SubSeq(q, Len(req.path) + 1, Len(q)) \in Paths

\* Namespace has the operators of MetaState.
LEMMA NamespaceOperators ==
  /\ NS!Locations = Locations /\ NS!CreateModes = CreateModes
  /\ NS!EmptyTree = EmptyTree
  /\ \A t, p : /\ NS!CanMkdir(t, p) <=> CanMkdir(t, p)
               /\ NS!applyMkdir(t, p) = applyMkdir(t, p)
  /\ \A t, p, mode : NS!CanCreateFile(t, p, mode) <=> CanCreateFile(t, p, mode)
  /\ \A t, p, id, size, replicas :
       NS!applyCreateFile(t, p, id, size, replicas)
         = applyCreateFile(t, p, id, size, replicas)
  /\ \A t, p : /\ NS!CanCompleteFile(t, p) <=> CanCompleteFile(t, p)
               /\ NS!applyCompleteFile(t, p) = applyCompleteFile(t, p)
  /\ \A t, p : NS!CanUpdateSize(t, p) <=> CanUpdateSize(t, p)
  /\ \A t, p, size : NS!applyUpdateSize(t, p, size) = applyUpdateSize(t, p, size)
  /\ \A t, p : /\ NS!CanDelete(t, p) <=> CanDelete(t, p)
               /\ NS!applyDelete(t, p) = applyDelete(t, p)
  /\ \A t, p, q : /\ NS!CanRename(t, p, q) <=> CanRename(t, p, q)
                  /\ NS!applyRename(t, p, q) = applyRename(t, p, q)
                  /\ NS!Fits(t, p, q) <=> Fits(t, p, q)
<1> USE DEF NS!Root, Root, NS!Dir, Dir, NS!NoEntry, NoEntry, NS!IsDir, IsDir, NS!IsFile,
            IsFile, NS!Exists, Exists, NS!IsPrefix, IsPrefix
<1>1. NS!Locations = Locations /\ NS!CreateModes = CreateModes
  BY DEF NS!Locations, Locations, NS!CreateModes, CreateModes
<1>2. NS!EmptyTree = EmptyTree
  BY <1>1 DEF NS!EmptyTree, EmptyTree
<1>3. \A t, p : /\ NS!CanMkdir(t, p) <=> CanMkdir(t, p)
                /\ NS!applyMkdir(t, p) = applyMkdir(t, p)
  BY <1>1 DEF NS!CanMkdir, CanMkdir, NS!applyMkdir, applyMkdir
<1>4. \A t, p, mode : NS!CanCreateFile(t, p, mode) <=> CanCreateFile(t, p, mode)
  BY DEF NS!CanCreateFile, CanCreateFile, NS!Parent, Parent, NS!Front, Front
<1>5. \A t, p, id, size, replicas :
        NS!applyCreateFile(t, p, id, size, replicas)
          = applyCreateFile(t, p, id, size, replicas)
  BY DEF NS!applyCreateFile, applyCreateFile, NS!NewFile, NewFile
<1>6. \A t, p : /\ NS!CanCompleteFile(t, p) <=> CanCompleteFile(t, p)
                /\ NS!applyCompleteFile(t, p) = applyCompleteFile(t, p)
  BY DEF NS!CanCompleteFile, CanCompleteFile, NS!applyCompleteFile, applyCompleteFile
<1>7. /\ \A t, p : NS!CanUpdateSize(t, p) <=> CanUpdateSize(t, p)
      /\ \A t, p, size : NS!applyUpdateSize(t, p, size) = applyUpdateSize(t, p, size)
  BY DEF NS!CanUpdateSize, CanUpdateSize, NS!applyUpdateSize, applyUpdateSize
<1>8. \A t, p : /\ NS!CanDelete(t, p) <=> CanDelete(t, p)
                /\ NS!applyDelete(t, p) = applyDelete(t, p)
  BY <1>1 DEF NS!CanDelete, CanDelete, NS!applyDelete, applyDelete
<1>9. \A t, p, q : /\ NS!CanRename(t, p, q) <=> CanRename(t, p, q)
                   /\ NS!applyRename(t, p, q) = applyRename(t, p, q)
                   /\ NS!Fits(t, p, q) <=> Fits(t, p, q)
  BY <1>1
  DEF NS!CanRename, CanRename, NS!applyRename, applyRename, NS!Fits, Fits,
      NS!MovedFrom, MovedFrom, NS!Parent, Parent, NS!Front, Front
<1> QED  BY <1>1, <1>2, <1>3, <1>4, <1>5, <1>6, <1>7, <1>8, <1>9

\* What a commit does to the namespace that the log makes.
LEMMA CommitNamespace ==
  ASSUME TypedInv, NEW e \in queue, Commit(e)
  PROVE  /\ Last(ref) \in State /\ e.cmd \in Command
         /\ Last(ref)' = Applied(Last(ref), e.cmd, now)
         /\ Committed' = Committed \cup {id \in FileIds : Creates(e.cmd, id)}
<1>1. /\ ref \in Seq(State) /\ Len(ref) = Len(log) + 1 /\ log \in Seq(LogEntry)
      /\ e.cmd \in Command
  BY DEF TypedInv, RTypeOK, InLog, Submission
<1> DEFINE r == Applied(Last(ref), e.cmd, now)
           x == [from |-> e.from, cmd |-> e.cmd, at |-> now]
<1>2. ref' = Append(ref, r) /\ log' = Append(log, x) /\ x.cmd = e.cmd
  BY DEF Commit
<1> HIDE DEF r, x
<1>3. Last(ref)' = r
  BY <1>1, <1>2 DEF Last
<1>4. /\ DOMAIN log' = DOMAIN log \cup {Len(log) + 1}
      /\ \A i \in DOMAIN log : log'[i] = log[i]
      /\ log'[Len(log) + 1] = x
  BY <1>1, <1>2
<1>5. Committed' = Committed \cup {id \in FileIds : Creates(e.cmd, id)}
  BY <1>2, <1>4 DEF Committed
<1> QED  BY <1>1, <1>3, <1>5 DEF Last, r

\* Every step is a step of Namespace or leaves it as it is.
LEMMA RStepNamespace ==
  RoomForRenames /\ ServiceInv /\ RStep => NS!Next \/ UNCHANGED NS!vars
<1> SUFFICES ASSUME RoomForRenames, ServiceInv, RStep
             PROVE  NS!Next \/ UNCHANGED NS!vars
  OBVIOUS
<1>1. CASE UNCHANGED <<log, ref>>
  BY <1>1 DEF NS!vars, Committed
<1>2. ASSUME NEW e \in queue, Commit(e) PROVE NS!Next \/ UNCHANGED NS!vars
  <2> DEFINE st == Last(ref)
             cmd == e.cmd
             made == {id \in FileIds : Creates(cmd, id)}
  <2>1. /\ st \in State /\ cmd \in Command
        /\ Last(ref)' = Applied(st, cmd, now)
        /\ Committed' = Committed \cup made
    BY <1>2, CommitNamespace DEF ServiceInv
  <2>2. cmd.op # "create_file" => made = {}
    BY DEF Creates
  <2>3. cmd.op = "create_file" =>
          made = {cmd.id} /\ cmd.id \in FileIds /\ cmd.id \notin Committed
    <3>1. cmd.op = "create_file" => made = {cmd.id} /\ cmd.id \in FileIds
      BY <2>1, CommandFields DEF Creates
    <3>2. cmd.op = "create_file" => cmd.id \notin Committed
      BY <3>1 DEF Committed, Creates, ServiceInv, IdsInv
    <3> QED  BY <3>1, <3>2
  <2>4. WellPlaced(cmd)
    BY DEF ServiceInv, IdsInv
  <2> HIDE DEF st, cmd, made
  <2>5. CASE ~Accepts(st, cmd)
    <3>1. Last(ref)' = st
      BY <2>1, <2>5 DEF Applied
    <3>2. CASE cmd.op = "create_file"
      <4>1. NS!Discard(cmd.id)
        BY <2>1, <2>3, <3>1, <3>2 DEF NS!Discard, st
      <4> QED  BY <2>3, <3>2, <4>1 DEF NS!Next
    <3>3. CASE cmd.op # "create_file"
      BY <2>1, <2>2, <3>1, <3>3 DEF NS!vars, st
    <3> QED  BY <3>2, <3>3
  <2>6. CASE Accepts(st, cmd)
    <3>1. (Last(ref).tree)' = NewTree(st.tree, cmd)
      BY <2>1, <2>6 DEF Applied
    <3>2. CASE cmd.op \in {"heartbeat", "remove_dn"}
      BY <2>1, <2>2, <3>1, <3>2 DEF NewTree, NS!vars, st
    <3>3. CASE cmd.op = "mkdir"
      <4>1. cmd.path \in Locations /\ CanMkdir(st.tree, cmd.path)
            /\ NewTree(st.tree, cmd) = applyMkdir(st.tree, cmd.path)
        BY <2>1, <2>6, <3>3, CommandFields DEF Accepts, NewTree, Locations
      <4>2. NS!Mkdir(cmd.path)
        BY <2>1, <2>2, <3>1, <3>3, <4>1, NamespaceOperators DEF NS!Mkdir, st
      <4> QED  BY <4>1, <4>2, NamespaceOperators DEF NS!Next
    <3>4. CASE cmd.op = "create_file"
      <4>1. /\ cmd.path \in Paths /\ cmd.mode \in CreateModes /\ cmd.size \in Sizes
            /\ CanCreateFile(st.tree, cmd.path, cmd.mode)
            /\ NewTree(st.tree, cmd)
                 = applyCreateFile(st.tree, cmd.path, cmd.id, cmd.size, cmd.replicas)
        BY <2>1, <2>6, <3>4, CommandFields DEF Accepts, NewTree
      <4>2. cmd.replicas \in NS!ReplicaLists(cmd.id)
        BY <2>4, <3>4 DEF WellPlaced
      <4>3. NS!CreateFile(cmd.path, cmd.mode, cmd.id, cmd.size, cmd.replicas)
        BY <2>1, <2>3, <3>1, <3>4, <4>1, NamespaceOperators DEF NS!CreateFile, st
      <4> QED  BY <2>3, <3>4, <4>1, <4>2, <4>3, NamespaceOperators DEF NS!Next
    <3>5. CASE cmd.op = "complete_file"
      <4>1. cmd.path \in Paths /\ CanCompleteFile(st.tree, cmd.path)
            /\ NewTree(st.tree, cmd) = applyCompleteFile(st.tree, cmd.path)
        BY <2>1, <2>6, <3>5, CommandFields DEF Accepts, NewTree
      <4>2. NS!CompleteFile(cmd.path)
        BY <2>1, <2>2, <3>1, <3>5, <4>1, NamespaceOperators DEF NS!CompleteFile, st
      <4> QED  BY <4>1, <4>2 DEF NS!Next
    <3>6. CASE cmd.op = "update_size"
      <4>1. cmd.path \in Paths /\ cmd.size \in Sizes /\ CanUpdateSize(st.tree, cmd.path)
            /\ NewTree(st.tree, cmd) = applyUpdateSize(st.tree, cmd.path, cmd.size)
        BY <2>1, <2>6, <3>6, CommandFields DEF Accepts, NewTree
      <4>2. NS!UpdateSize(cmd.path, cmd.size)
        BY <2>1, <2>2, <3>1, <3>6, <4>1, NamespaceOperators DEF NS!UpdateSize, st
      <4> QED  BY <4>1, <4>2 DEF NS!Next
    <3>7. CASE cmd.op = "delete"
      <4>1. cmd.path \in Paths /\ CanDelete(st.tree, cmd.path)
            /\ NewTree(st.tree, cmd) = applyDelete(st.tree, cmd.path)
        BY <2>1, <2>6, <3>7, CommandFields DEF Accepts, NewTree
      <4>2. NS!Delete(cmd.path)
        BY <2>1, <2>2, <3>1, <3>7, <4>1, NamespaceOperators DEF NS!Delete, st
      <4> QED  BY <4>1, <4>2 DEF NS!Next
    <3>8. CASE cmd.op = "rename"
      <4>1. cmd.path \in Paths /\ cmd.dst \in Paths
            /\ CanRename(st.tree, cmd.path, cmd.dst)
            /\ NewTree(st.tree, cmd) = applyRename(st.tree, cmd.path, cmd.dst)
        BY <2>1, <2>6, <3>8, CommandFields DEF Accepts, NewTree
      <4>2. Fits(st.tree, cmd.path, cmd.dst)
        BY <2>4, <3>8 DEF WellPlaced, RoomForRenames, Fits
      <4>3. NS!Rename(cmd.path, cmd.dst)
        BY <2>1, <2>2, <3>1, <3>8, <4>1, <4>2, NamespaceOperators DEF NS!Rename, st
      <4> QED  BY <4>1, <4>3 DEF NS!Next
    <3> QED  BY <2>1, <3>2, <3>3, <3>4, <3>5, <3>6, <3>7, <3>8, CommandFields
  <2> QED  BY <2>5, <2>6
<1> QED  BY <1>1, <1>2, RStepRef DEF ServiceInv

\* At the beginning the namespace is empty.
LEMMA RInitNamespace == RInit => NS!Init
<1> SUFFICES ASSUME RInit PROVE Last(ref).tree = EmptyTree /\ Committed = {}
  BY NamespaceOperators DEF NS!Init
<1>1. ref = <<InitState>> /\ log = <<>>
  BY DEF RInit
<1>2. Last(ref) = InitState
  BY <1>1 DEF Last
<1> QED  BY <1>1, <1>2 DEF InitState, Committed

\* The log makes a history of one namespace, although every command in it was
\* validated by a server that may lag behind the log, and its copies placed by
\* that server's membership.
THEOREM ServiceIsANamespace ==
  ASSUME RoomForRenames
  PROVE  RSpec => RefinesNamespace
<1>1. ServiceInv /\ [RNext]_rvars => ServiceInv'
  BY RStepService DEF RStep
<1>2. ServiceInv /\ [RNext]_rvars => [NS!Next]_NS!vars
  BY RStepNamespace DEF RStep
<1> QED
  BY <1>1, <1>2, RInitService, RInitNamespace, PTL
  DEF RSpec, RefinesNamespace, NS!Spec
=============================================================================
