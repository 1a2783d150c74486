--------------------------- MODULE ClusterProofs ---------------------------
(***************************************************************************)
(* Proofs about Cluster: what rounds of the orphan collector may do, on    *)
(* however many servers, whatever they lag behind within MaxLag.           *)
(***************************************************************************)
EXTENDS Cluster, ReplicatedProofs

-----------------------------------------------------------------------------
(* Steps                                                                   *)

\* For the variables of Replicated a step of Cluster is one of Replicated, or
\* the submission of a removal.
LEMMA StepReplicated ==
  ASSUME Next \/ UNCHANGED vars
  PROVE  RStep
<1>1. ASSUME QuietNext PROVE RStep
  BY <1>1 DEF RStep, RNext
<1>2. ASSUME NEW s \in Servers, CrashServer(s) PROVE RStep
  BY <1>2 DEF RStep, RNext, CrashServer
<1>3. ASSUME NEW s \in Collectors, GcNext(s) PROVE RStep
  <2>1. ASSUME NEW a \in Addrs, GcRemove(s, a) PROVE RStep
    <3>1. s \in Servers
      BY CollectorsAssumption
    <3> QED  BY <2>1, <3>1 DEF GcRemove, RStep, ServerSubmits
  <2> QED
    BY <1>3, <2>1
    DEF GcNext, GcStart, GcHealth, GcCollect, GcNodes, GcList, GcDelete, GcNextNode,
        RStep
<1>4. ASSUME NEW c \in Calls, NEW r \in Replica, Store(c, r) PROVE RStep
  BY <1>4 DEF Store, RStep
<1>5. CASE UNCHANGED vars
  BY <1>5 DEF vars, rvars, RStep
<1> QED  BY <1>1, <1>2, <1>3, <1>4, <1>5 DEF Next

\* The kinds of steps.
LEMMA QuietOrGc ==
  ASSUME Next \/ UNCHANGED vars
  PROVE  \/ UNCHANGED <<disk, gc>> /\ (QuietNext \/ UNCHANGED rvars)
         \/ \E s \in Servers : CrashServer(s)
         \/ \E s \in Servers : GcNext(s)
         \/ \E c \in Calls, r \in Replica : Store(c, r)
  BY CollectorsAssumption DEF Next, vars, rvars

-----------------------------------------------------------------------------
(* Types                                                                   *)

CTyped == TypedInv /\ TypeOK

\* The next nodes of a round.
LEMMA ScanOfType ==
  ASSUME NEW s \in Servers, gc[s].start \in Time, gc[s].valid \subseteq FileIds,
         NEW todo \in Seq(Addrs)
  PROVE  ScanOf(s, todo) \in RoundState
  BY DEF ScanOf, RoundState, Off

\* What a round has read.
LEMMA RoundFields ==
  ASSUME NEW x \in RoundState
  PROVE  /\ x.pc \in {"off", "health", "remove", "nodes", "scan", "sweep"}
         /\ x.pc # "off" => x.start \in Time
         /\ x.pc = "remove" => x.dead \subseteq Addrs /\ x.checked \in Time
         /\ x.pc \in {"nodes", "scan", "sweep"} => x.valid \subseteq FileIds
         /\ x.pc \in {"scan", "sweep"} => x.todo \in Seq(Addrs) /\ x.todo # <<>>
         /\ x.pc = "sweep" => x.doomed \subseteq FileIds
  BY DEF RoundState, Off

\* Every step keeps the types.
LEMMA StepTyped == CTyped /\ [Next]_vars => CTyped'
<1> SUFFICES ASSUME CTyped, Next \/ UNCHANGED vars PROVE CTyped'
  OBVIOUS
<1>0. /\ RTypeOK /\ disk \in [Addrs -> SUBSET NodeFile]
      /\ gc \in [Servers -> RoundState]
      /\ now \in Time /\ now \in Int
  BY DEF CTyped, TypeOK, RTypeOK, Time
<1>1. TypedInv' /\ RTypeOK'
  BY StepReplicated, RStepTyped DEF CTyped, TypedInv
<1>2. ASSUME disk' \in [Addrs -> SUBSET NodeFile], gc' \in [Servers -> RoundState]
      PROVE  CTyped'
  BY <1>1, <1>2 DEF CTyped, TypeOK
<1>3. CASE UNCHANGED <<disk, gc>>
  BY <1>0, <1>2, <1>3
<1>4. ASSUME NEW s \in Servers, NEW x \in RoundState, gc' = [gc EXCEPT ![s] = x],
             disk' = disk
      PROVE  CTyped'
  BY <1>0, <1>2, <1>4
<1>5. ASSUME NEW s \in Servers, CrashServer(s) PROVE CTyped'
  <2>1. Off \in RoundState
    BY DEF RoundState
  <2> QED  BY <1>4, <1>5, <2>1 DEF CrashServer
<1>6. ASSUME NEW c \in Calls, NEW r \in Replica, Store(c, r) PROVE CTyped'
  <2>1. r.addr \in Addrs /\ r.remote \in FileIds /\ Skew[r.addr] \in Int
    BY SkewAssumption DEF Replica
  <2>2. [id |-> r.remote, mtime |-> now + Skew[r.addr]] \in NodeFile
    BY <1>0, <2>1 DEF NodeFile
  <2> QED  BY <1>0, <1>2, <1>6, <2>1, <2>2 DEF Store
<1>7. ASSUME NEW s \in Servers, GcNext(s) PROVE CTyped'
  <2>0. gc[s] \in RoundState /\ srv[s] \in Server
    BY <1>0 DEF RTypeOK
  <2>1. CASE GcStart(s)
    <3>1. [pc |-> "health", start |-> now] \in RoundState
      BY <1>0 DEF RoundState
    <3> QED  BY <1>4, <2>1, <3>1 DEF GcStart
  <2>2. CASE GcHealth(s)
    <3> DEFINE beats == srv[s].st.beats
               dead == {a \in DOMAIN beats : beats[a] + Timeout < now}
               x == [pc |-> "remove", start |-> gc[s].start, checked |-> now,
                     dead |-> dead]
    <3>1. DOMAIN beats \subseteq Addrs
      BY <2>0, BeatsType DEF Server, State, Beats
    <3>2. dead \subseteq Addrs /\ gc[s].start \in Time
      BY <2>0, <2>2, <3>1, RoundFields DEF GcHealth
    <3> HIDE DEF dead
    <3>3. x \in RoundState
      BY <1>0, <3>2 DEF RoundState
    <3> QED  BY <1>4, <2>2, <3>3 DEF GcHealth, dead
  <2>3. ASSUME NEW a \in Addrs, GcRemove(s, a) PROVE CTyped'
    <3>1. [gc[s] EXCEPT !.dead = @ \ {a}] \in RoundState
      BY <2>0, <2>3 DEF GcRemove, RoundState, Off
    <3> QED  BY <1>4, <2>3, <3>1 DEF GcRemove
  <2>4. CASE GcCollect(s)
    <3>1. LiveIds(srv[s].st.tree) \subseteq FileIds
      BY <2>0, LiveIdsType DEF Server, State
    <3>2. gc[s].start \in Time
      BY <2>0, <2>4, RoundFields DEF GcCollect
    <3>3. [pc |-> "nodes", start |-> gc[s].start, valid |-> LiveIds(srv[s].st.tree)]
            \in RoundState
      BY <3>1, <3>2 DEF RoundState
    <3> QED  BY <1>4, <2>4, <3>3 DEF GcCollect
  <2>5. CASE GcNodes(s)
    <3>1. srv[s].st.nodes \in Seq(Addrs)
      BY <2>0 DEF Server, State
    <3>2. gc[s].start \in Time /\ gc[s].valid \subseteq FileIds
      BY <2>0, <2>5, RoundFields DEF GcNodes
    <3>3. ScanOf(s, srv[s].st.nodes) \in RoundState
      BY <3>1, <3>2, ScanOfType
    <3> QED  BY <1>4, <2>5, <3>3 DEF GcNodes
  <2>6. CASE GcList(s)
    <3> DEFINE old == {f \in disk[Head(gc[s].todo)] : f.mtime <= gc[s].start - Window}
               doomed == {f.id : f \in old} \ gc[s].valid
               x == [pc |-> "sweep", start |-> gc[s].start, valid |-> gc[s].valid,
                     todo |-> gc[s].todo, doomed |-> doomed]
    <3>1. /\ gc[s].start \in Time /\ gc[s].valid \subseteq FileIds
          /\ gc[s].todo \in Seq(Addrs) /\ gc[s].todo # <<>>
      BY <2>0, <2>6, RoundFields DEF GcList
    <3>2. Head(gc[s].todo) \in Addrs
      BY <3>1
    <3>3. disk[Head(gc[s].todo)] \subseteq NodeFile
      BY <1>0, <3>2
    <3>4. doomed \subseteq FileIds
      BY <3>3 DEF NodeFile
    <3> HIDE DEF doomed
    <3>5. x \in RoundState
      BY <3>1, <3>4 DEF RoundState
    <3> QED  BY <1>4, <2>6, <3>5 DEF GcList, doomed
  <2>7. ASSUME NEW id \in FileIds, GcDelete(s, id) PROVE CTyped'
    <3>1. [gc[s] EXCEPT !.doomed = @ \ {id}] \in RoundState
      BY <2>0, <2>7 DEF GcDelete, RoundState, Off
    <3>2. gc' \in [Servers -> RoundState]
      BY <1>0, <2>7, <3>1 DEF GcDelete
    <3>3. disk' \in [Addrs -> SUBSET NodeFile]
      BY <1>0, <2>7 DEF GcDelete
    <3> QED  BY <1>2, <3>2, <3>3
  <2>8. CASE GcNextNode(s)
    <3>1. /\ gc[s].start \in Time /\ gc[s].valid \subseteq FileIds
          /\ gc[s].todo \in Seq(Addrs) /\ gc[s].todo # <<>>
      BY <2>0, <2>8, RoundFields DEF GcNextNode
    <3>2. Tail(gc[s].todo) \in Seq(Addrs)
      BY <3>1
    <3>3. ScanOf(s, Tail(gc[s].todo)) \in RoundState
      BY <3>1, <3>2, ScanOfType
    <3> QED  BY <1>4, <2>8, <3>3 DEF GcNextNode
  <2> QED
    BY <1>7, <2>1, <2>2, <2>3, <2>4, <2>5, <2>6, <2>7, <2>8 DEF GcNext
<1> QED  BY <1>3, <1>5, <1>6, <1>7, QuietOrGc

\* At the beginning.
LEMMA InitTyped == Init => CTyped
<1> SUFFICES ASSUME Init PROVE CTyped
  OBVIOUS
<1>1. TypedInv /\ RTypeOK
  BY RInitTyped DEF Init, TypedInv
<1> QED  BY <1>1 DEF Init, CTyped, TypeOK, RoundState

\* Every reachable state is well typed.
THEOREM ClusterTypeCorrect == Spec => []TypeOK
<1>1. CTyped => TypeOK
  BY DEF CTyped
<1> QED  BY <1>1, InitTyped, StepTyped, PTL DEF Spec

-----------------------------------------------------------------------------
(* What holds of the service holds with rounds going on                    *)

\* The invariants of Replicated.
LEMMA ServiceInvHolds == Spec => []ServiceInv
<1>1. Init => ServiceInv
  BY RInitService DEF Init
<1>2. ServiceInv /\ [Next]_vars => ServiceInv'
  BY StepReplicated, RStepService
<1> QED  BY <1>1, <1>2, PTL DEF Spec

\* Removals submitted by rounds of deposed leaders, twice or late, leave the
\* servers agreed, like any other command.
THEOREM ClusterServersAgree == Spec => []ServersFollowLog
<1>1. ServiceInv => ServersFollowLog
  BY DEF ServiceInv, HistoryInv, ServersFollowLog
<1> QED  BY <1>1, ServiceInvHolds, PTL

\* And they leave the two fields of the membership consistent.
THEOREM ClusterMembershipConsistent == Spec => []MembershipConsistent
<1>1. ServiceInv => MembershipConsistent
  BY ServersConsistent DEF ServiceInv
<1> QED  BY <1>1, ServiceInvHolds, PTL

-----------------------------------------------------------------------------
(* What the history says                                                   *)

\* A command brings an identity into the tree only if it creates it.
LEMMA AppliedLiveIds ==
  ASSUME NEW st \in State, NEW cmd \in Command, NEW time
  PROVE  \A id \in LiveIds(Applied(st, cmd, time).tree) :
           id \in LiveIds(st.tree) \/ Creates(cmd, id)
<1>0. st.tree \in [Locations -> Entry] /\ Paths \subseteq Locations
  BY DEF State, Locations
<1>1. CASE ~Accepts(st, cmd)
  BY <1>1 DEF Applied
<1>2. CASE Accepts(st, cmd)
  <2>1. Applied(st, cmd, time).tree = NewTree(st.tree, cmd)
    BY <1>2 DEF Applied
  <2>2. CASE cmd.op = "create_file"
    <3>1. NewTree(st.tree, cmd)
            = applyCreateFile(st.tree, cmd.path, cmd.id, cmd.size, cmd.replicas)
      BY <2>2 DEF NewTree
    <3>2. cmd.path \in Locations
      BY <1>0, <2>2, CommandFields
    <3>3. LiveIds(NewTree(st.tree, cmd)) \subseteq LiveIds(st.tree) \cup {cmd.id}
      BY <1>0, <3>1, <3>2, CreateFileLiveIds
    <3> QED  BY <2>1, <2>2, <3>3 DEF Creates
  <2>3. CASE cmd.op # "create_file"
    <3> SUFFICES FilesFrom(NewTree(st.tree, cmd), st.tree)
      BY <2>1, FilesFromLiveIds
    <3>1. CASE cmd.op \in {"heartbeat", "remove_dn"}
      BY <3>1 DEF NewTree, FilesFrom
    <3>2. CASE cmd.op = "mkdir"
      BY <1>0, <3>2, MkdirFiles DEF NewTree
    <3>3. CASE cmd.op = "complete_file"
      <4>1. cmd.path \in Locations /\ CanCompleteFile(st.tree, cmd.path)
        BY <1>0, <1>2, <3>3, CommandFields DEF Accepts
      <4> QED  BY <1>0, <3>3, <4>1, CompleteFileFiles DEF NewTree
    <3>4. CASE cmd.op = "update_size"
      <4>1. cmd.path \in Locations /\ CanUpdateSize(st.tree, cmd.path)
        BY <1>0, <1>2, <3>4, CommandFields DEF Accepts
      <4> QED  BY <1>0, <3>4, <4>1, UpdateSizeFiles DEF NewTree
    <3>5. CASE cmd.op = "delete"
      BY <1>0, <3>5, DeleteFiles DEF NewTree
    <3>6. CASE cmd.op = "rename"
      BY <1>0, <3>6, RenameFiles DEF NewTree
    <3> QED  BY <2>3, <3>1, <3>2, <3>3, <3>4, <3>5, <3>6, CommandFields
  <2> QED  BY <2>2, <2>3
<1> QED  BY <1>1, <1>2

\* What a commit does to the log and its history, position by position.
Appends(e) ==
  /\ Len(ref) = Len(log) + 1 /\ Len(ref) \in Nat
  /\ DOMAIN log = 1..Len(log) /\ DOMAIN ref = 1..Len(ref)
  /\ DOMAIN log' = DOMAIN log \cup {Len(ref)}
  /\ \A i \in DOMAIN log : log'[i] = log[i]
  /\ log'[Len(ref)].cmd = e.cmd /\ log'[Len(ref)].at = now
  /\ DOMAIN ref' = DOMAIN ref \cup {Len(ref) + 1}
  /\ \A i \in DOMAIN ref : ref'[i] = ref[i]
  /\ ref'[Len(ref) + 1] = Applied(ref[Len(ref)], e.cmd, now)
  /\ ref[Len(ref)] \in State /\ e.cmd \in Command
  /\ Last(ref) = ref[Len(ref)] /\ Last(ref)' = ref'[Len(ref) + 1]
  /\ UNCHANGED <<now, srv>>

LEMMA CommitAppends ==
  ASSUME TypedInv, NEW e \in queue, Commit(e)
  PROVE  Appends(e)
<1>1. /\ ref \in Seq(State) /\ Len(ref) = Len(log) + 1 /\ log \in Seq(LogEntry)
      /\ e.cmd \in Command
  BY DEF TypedInv, RTypeOK, InLog, Submission
<1> DEFINE r == Applied(Last(ref), e.cmd, now)
           x == [from |-> e.from, cmd |-> e.cmd, at |-> now]
<1>2. /\ ref' = Append(ref, r) /\ log' = Append(log, x)
      /\ x.cmd = e.cmd /\ x.at = now /\ UNCHANGED <<now, srv>>
  BY DEF Commit
<1>3. Last(ref) = ref[Len(ref)] /\ ref[Len(ref)] \in State
  BY <1>1 DEF Last
<1> HIDE DEF r, x
<1>4. /\ DOMAIN log' = DOMAIN log \cup {Len(log) + 1}
      /\ \A i \in DOMAIN log : log'[i] = log[i]
      /\ log'[Len(log) + 1] = x
  BY <1>1, <1>2
<1>5. /\ DOMAIN ref' = DOMAIN ref \cup {Len(ref) + 1}
      /\ \A i \in DOMAIN ref : ref'[i] = ref[i]
      /\ ref'[Len(ref) + 1] = r
      /\ Last(ref)' = r
  BY <1>1, <1>2 DEF Last
<1> QED  BY <1>1, <1>2, <1>3, <1>4, <1>5 DEF Appends, r

\* An identity that is in the tree, and was not before, was created in between.
Births ==
  \A k \in DOMAIN ref, j \in DOMAIN ref :
    j <= k => \A id \in LiveIds(ref[k].tree) :
                \/ id \in LiveIds(ref[j].tree)
                \/ \E m \in DOMAIN log : j <= m /\ m < k /\ Creates(log[m].cmd, id)

\* A registered node's heartbeat is the last one that was committed.
BeatsCover ==
  \A k \in DOMAIN ref, i \in DOMAIN log :
    i < k /\ log[i].cmd.op = "heartbeat" /\ log[i].cmd.addr \in DOMAIN ref[k].beats
      => log[i].at <= ref[k].beats[log[i].cmd.addr]

\* A step keeps the first.
LEMMA StepBirths == TypedInv /\ Births /\ RStep => Births'
<1> SUFFICES ASSUME TypedInv, Births, RStep PROVE Births'
  OBVIOUS
<1>1. CASE UNCHANGED <<log, ref>>
  BY <1>1 DEF Births
<1>2. ASSUME NEW e \in queue, Commit(e) PROVE Births'
  <2> DEFINE n == Len(ref)
  <2>1. /\ n = Len(log) + 1 /\ n \in Nat
        /\ DOMAIN log = 1..Len(log) /\ DOMAIN ref = 1..n
        /\ DOMAIN log' = DOMAIN log \cup {n}
        /\ \A i \in DOMAIN log : log'[i] = log[i]
        /\ log'[n].cmd = e.cmd
        /\ DOMAIN ref' = DOMAIN ref \cup {n + 1}
        /\ \A i \in DOMAIN ref : ref'[i] = ref[i]
        /\ ref'[n + 1] = Applied(ref[n], e.cmd, now)
        /\ ref[n] \in State /\ e.cmd \in Command
    BY <1>2, CommitAppends DEF Appends
  <2>2. \A id \in LiveIds(ref'[n + 1].tree) :
          id \in LiveIds(ref[n].tree) \/ Creates(e.cmd, id)
    BY <2>1, AppliedLiveIds
  <2> HIDE DEF n
  <2> SUFFICES ASSUME NEW k \in DOMAIN ref', NEW j \in DOMAIN ref', j <= k,
                      NEW id \in LiveIds(ref'[k].tree)
               PROVE  \/ id \in LiveIds(ref'[j].tree)
                      \/ \E m \in DOMAIN log' : j <= m /\ m < k /\ Creates(log'[m].cmd, id)
    BY DEF Births
  <2>3. CASE k \in DOMAIN ref
    <3>1. j \in DOMAIN ref
      BY <2>1, <2>3
    <3>2. \/ id \in LiveIds(ref[j].tree)
          \/ \E m \in DOMAIN log : j <= m /\ m < k /\ Creates(log[m].cmd, id)
      BY <2>1, <2>3, <3>1 DEF Births
    <3> QED  BY <2>1, <3>1, <3>2
  <2>4. CASE k = n + 1 /\ j \in DOMAIN ref
    <3>1. CASE Creates(e.cmd, id)
      <4>1. n \in DOMAIN log' /\ j <= n /\ n < k /\ Creates(log'[n].cmd, id)
        BY <2>1, <2>4, <3>1
      <4> QED  BY <4>1
    <3>2. CASE id \in LiveIds(ref[n].tree)
      <4>1. n \in DOMAIN ref /\ j <= n
        BY <2>1, <2>4
      <4>2. \/ id \in LiveIds(ref[j].tree)
            \/ \E m \in DOMAIN log : j <= m /\ m < n /\ Creates(log[m].cmd, id)
        BY <2>4, <3>2, <4>1 DEF Births
      <4>3. \A m \in DOMAIN log : m < n => m < k
        BY <2>1, <2>4
      <4> QED  BY <2>1, <2>4, <4>2, <4>3
    <3> QED  BY <2>2, <2>4, <3>1, <3>2
  <2>5. CASE k = n + 1 /\ j = n + 1
    BY <2>5
  <2> QED  BY <2>1, <2>3, <2>4, <2>5
<1> QED  BY <1>1, <1>2, RStepRef

\* And the second.
LEMMA StepBeats == TypedInv /\ HistoryInv /\ BeatsCover /\ RStep => BeatsCover'
<1> SUFFICES ASSUME TypedInv, HistoryInv, BeatsCover, RStep PROVE BeatsCover'
  OBVIOUS
<1>1. CASE UNCHANGED <<log, ref>>
  BY <1>1 DEF BeatsCover
<1>2. ASSUME NEW e \in queue, Commit(e) PROVE BeatsCover'
  <2> DEFINE n == Len(ref)
             old == ref[n].beats
             new == ref'[n + 1].beats
  <2>1. /\ n = Len(log) + 1 /\ n \in Nat
        /\ DOMAIN log = 1..Len(log) /\ DOMAIN ref = 1..n
        /\ DOMAIN log' = DOMAIN log \cup {n}
        /\ \A i \in DOMAIN log : log'[i] = log[i]
        /\ log'[n].cmd = e.cmd /\ log'[n].at = now
        /\ DOMAIN ref' = DOMAIN ref \cup {n + 1}
        /\ \A i \in DOMAIN ref : ref'[i] = ref[i]
        /\ ref'[n + 1] = Applied(ref[n], e.cmd, now)
        /\ ref[n] \in State /\ e.cmd \in Command
    BY <1>2, CommitAppends DEF Appends
  <2>2. now \in Nat
    BY DEF TypedInv, RTypeOK, Time
  <2>3. \A i \in DOMAIN log : log[i].at <= now
    BY DEF HistoryInv
  <2>4. /\ \A a \in DOMAIN new : (e.cmd.op = "heartbeat" /\ a = e.cmd.addr /\ new[a] = now)
                                 \/ (a \in DOMAIN old /\ new[a] = old[a])
        /\ e.cmd.op = "heartbeat" => new[e.cmd.addr] = now
    <3>1. CASE Accepts(ref[n], e.cmd)
      <4>1. new = NewBeats(old, e.cmd, now)
        BY <2>1, <3>1 DEF Applied
      <4> HIDE DEF new, old
      <4> QED  BY <4>1 DEF NewBeats
    <3>2. CASE ~Accepts(ref[n], e.cmd)
      <4>1. e.cmd.op # "heartbeat"
        BY <3>2 DEF Accepts
      <4>2. new = old
        BY <2>1, <3>2 DEF Applied
      <4> QED  BY <4>1, <4>2
    <3> QED  BY <3>1, <3>2
  <2> HIDE DEF n
  <2> SUFFICES ASSUME NEW k \in DOMAIN ref', NEW i \in DOMAIN log', i < k,
                      log'[i].cmd.op = "heartbeat",
                      log'[i].cmd.addr \in DOMAIN ref'[k].beats
               PROVE  log'[i].at <= ref'[k].beats[log'[i].cmd.addr]
    BY DEF BeatsCover
  <2>5. CASE k \in DOMAIN ref
    <3>1. i \in DOMAIN log
      BY <2>1, <2>5
    <3> QED  BY <2>1, <2>5, <3>1 DEF BeatsCover
  <2>6. CASE k = n + 1 /\ i = n
    BY <2>1, <2>2, <2>4, <2>6
  <2>7. CASE k = n + 1 /\ i \in DOMAIN log
    <3> DEFINE a == log[i].cmd.addr
    <3>1. a \in DOMAIN new /\ log'[i] = log[i]
      BY <2>1, <2>7
    <3>2. CASE new[a] = now
      BY <2>3, <2>7, <3>1, <3>2
    <3>3. CASE a \in DOMAIN old /\ new[a] = old[a]
      <4>1. n \in DOMAIN ref /\ i < n
        BY <2>1, <2>7
      <4>2. log[i].at <= old[a]
        BY <2>7, <3>1, <3>3, <4>1 DEF BeatsCover
      <4> QED  BY <2>7, <3>1, <3>3, <4>2
    <3> QED  BY <2>4, <3>1, <3>2, <3>3
  <2> QED  BY <2>1, <2>5, <2>6, <2>7
<1> QED  BY <1>1, <1>2, RStepRef

-----------------------------------------------------------------------------
(* Rounds                                                                  *)

\* What a server's round was bound to know when it started.
Known(s, i) == log[i].at + MaxLag < gc[s].start

\* A round is that of a running server.  Before it collects identities the
\* server has applied all it was bound to know, of the nodes it found dead none
\* was heard of within the timeout; and the identities it has collected are
\* those of a tree in the history behind all it was bound to know.
RoundOK(s) ==
  /\ gc[s].pc # "off" => srv[s].up /\ gc[s].start <= now
  /\ gc[s].pc \in {"health", "remove"} =>
       \A i \in DOMAIN log : Known(s, i) => i <= srv[s].idx
  /\ gc[s].pc = "remove" =>
       \A i \in DOMAIN log :
         /\ log[i].cmd.op = "heartbeat"
         /\ gc[s].checked - Timeout <= log[i].at
         /\ Known(s, i)
         => log[i].cmd.addr \notin gc[s].dead
  /\ gc[s].pc \in {"nodes", "scan", "sweep"} =>
       \E j \in DOMAIN ref : /\ gc[s].valid = LiveIds(ref[j].tree)
                             /\ \A i \in DOMAIN log : Known(s, i) => i < j

RoundsInv == \A s \in Servers : RoundOK(s)

\* The invariant but for what is doomed.
ClusterInv == CTyped /\ ServiceInv /\ Births /\ BeatsCover /\ RoundsInv

\* The server of a round under way does not go back, and the clock neither.
LEMMA ServerForward ==
  ASSUME CTyped, NEW s \in Servers, srv[s].up, QuietNext \/ UNCHANGED rvars
  PROVE  srv'[s].up /\ srv'[s].idx >= srv[s].idx /\ now' >= now
<1>0. /\ srv \in [Servers -> Server] /\ srv[s].idx \in Nat /\ now \in Nat
  BY DEF CTyped, TypedInv, RTypeOK, Server, Time
<1>1. ASSUME NEW t \in Servers, ApplyNext(t)
      PROVE  srv'[s].up /\ srv'[s].idx >= srv[s].idx /\ now' >= now
  BY <1>0, <1>1 DEF ApplyNext
<1>2. ASSUME NEW t \in Servers, Restart(t)
      PROVE  srv'[s].up /\ srv'[s].idx >= srv[s].idx /\ now' >= now
  <2>1. t # s
    BY <1>2 DEF Restart
  <2> QED  BY <1>0, <1>2, <2>1 DEF Restart
<1>3. ASSUME UNCHANGED srv, now' = now \/ now' = now + 1
      PROVE  srv'[s].up /\ srv'[s].idx >= srv[s].idx /\ now' >= now
  BY <1>0, <1>3
<1>4. ASSUME NEW c \in Calls, CallNext(c)
      PROVE  srv'[s].up /\ srv'[s].idx >= srv[s].idx /\ now' >= now
  BY <1>3, <1>4
  DEF CallNext, CallStep, Ask, Redirect, Refuse, Handle, HandleCreate, Submits, Return,
      Fail
<1>5. ASSUME NEW e \in queue, Commit(e)
      PROVE  srv'[s].up /\ srv'[s].idx >= srv[s].idx /\ now' >= now
  BY <1>3, <1>5 DEF Commit
<1>6. CASE Tick \/ UNCHANGED rvars
  BY <1>3, <1>6 DEF Tick, rvars
<1>7. ASSUME NEW t \in Servers, TakeSnapshot(t)
      PROVE  srv'[s].up /\ srv'[s].idx >= srv[s].idx /\ now' >= now
  BY <1>3, <1>7 DEF TakeSnapshot
<1> QED
  BY <1>1, <1>2, <1>4, <1>5, <1>6, <1>7 DEF QuietNext, ServerNext

\* A round that does not move is all right while its server goes forward: what
\* is committed meanwhile is committed after the round's start.
LEMMA RoundKept ==
  ASSUME CTyped, RStep, NEW s \in Servers, RoundOK(s), gc'[s] = gc[s],
         gc[s].pc # "off" =>
           srv'[s].up /\ srv'[s].idx >= srv[s].idx /\ now' >= now
  PROVE  RoundOK(s)'
<1>0. /\ gc[s] \in RoundState /\ now \in Nat /\ MaxLag \in Nat
      /\ srv[s].idx \in Nat /\ TypedInv
  BY TimesAssumption DEF CTyped, TypeOK, TypedInv, RTypeOK, Server, Time
<1>1. srv'[s].idx \in Nat /\ now' \in Nat
  BY RStepTyped DEF CTyped, TypedInv, RTypeOK, Server, Time
<1>2. CASE gc[s].pc = "off"
  BY <1>2 DEF RoundOK
<1>3. CASE gc[s].pc # "off"
  <2>1. /\ gc[s].start \in Nat /\ gc[s].start <= now /\ srv[s].up
        /\ srv'[s].up /\ srv'[s].idx >= srv[s].idx /\ now' >= now
    BY <1>0, <1>3, RoundFields DEF RoundOK, Time
  <2>2. gc[s].start <= now'
    BY <1>0, <1>1, <2>1
  <2>3. CASE UNCHANGED <<log, ref>>
    <3>1. \A i \in DOMAIN log : Known(s, i)' <=> Known(s, i)
      BY <2>3 DEF Known
    <3>2. \A i \in DOMAIN log : i <= srv[s].idx => i <= srv'[s].idx
      <4>1. DOMAIN log \subseteq Nat
        BY <1>0 DEF TypedInv, RTypeOK
      <4> QED  BY <1>0, <1>1, <2>1, <4>1
    <3> QED  BY <2>1, <2>2, <2>3, <3>1, <3>2 DEF RoundOK
  <2>4. ASSUME NEW e \in queue, Commit(e) PROVE RoundOK(s)'
    <3> DEFINE n == Len(ref)
    <3>1. Appends(e)
      BY <1>0, <2>4, CommitAppends
    <3>2. ~(log'[n].at + MaxLag < gc[s].start)
      BY <1>0, <2>1, <3>1 DEF Appends
    <3>3. /\ DOMAIN log' = DOMAIN log \cup {n}
          /\ \A i \in DOMAIN log : log'[i] = log[i]
          /\ DOMAIN ref \subseteq DOMAIN ref'
          /\ \A j \in DOMAIN ref : ref'[j] = ref[j]
          /\ srv' = srv
      BY <3>1 DEF Appends
    <3> HIDE DEF n
    <3>4. \A i \in DOMAIN log' : Known(s, i)' <=> i \in DOMAIN log /\ Known(s, i)
      BY <3>2, <3>3 DEF Known
    <3>5. gc[s].pc \in {"health", "remove"} =>
            \A i \in DOMAIN log' : Known(s, i)' => i <= srv'[s].idx
      BY <3>3, <3>4 DEF RoundOK
    <3>6. gc[s].pc = "remove" =>
            \A i \in DOMAIN log' :
              /\ log'[i].cmd.op = "heartbeat"
              /\ gc[s].checked - Timeout <= log'[i].at
              /\ Known(s, i)'
              => log'[i].cmd.addr \notin gc[s].dead
      BY <3>3, <3>4 DEF RoundOK
    <3>7. gc[s].pc \in {"nodes", "scan", "sweep"} =>
            \E j \in DOMAIN ref' : /\ gc[s].valid = LiveIds(ref'[j].tree)
                                   /\ \A i \in DOMAIN log' : Known(s, i)' => i < j
      BY <3>3, <3>4 DEF RoundOK
    <3> QED  BY <2>1, <2>2, <3>5, <3>6, <3>7 DEF RoundOK
  <2> QED  BY <1>0, <2>3, <2>4, RStepRef
<1> QED  BY <1>2, <1>3

\* A round that moves by itself.
LEMMA RoundMoves ==
  ASSUME ClusterInv, NEW s \in Servers, GcNext(s)
  PROVE  RoundOK(s)'
<1>0. /\ CTyped /\ RoundOK(s) /\ gc \in [Servers -> RoundState]
      /\ gc[s] \in RoundState /\ TypedInv
      /\ log \in Seq(LogEntry) /\ ref \in Seq(State)
      /\ srv[s] \in Server /\ srv[s].idx \in Nat /\ now \in Nat
      /\ MaxLag \in Nat /\ Timeout \in Nat
  BY TimesAssumption
  DEF ClusterInv, RoundsInv, CTyped, TypeOK, TypedInv, RTypeOK, Server, Time
<1>1. ASSUME NEW i \in DOMAIN log PROVE log[i].at \in Nat /\ i \in Nat
  <2>1. i \in 1..Len(log) /\ i \in Nat
    BY <1>0
  <2>2. log[i].at \in Time
    BY <1>0, <2>1, LogEntryAt DEF TypedInv
  <2> QED  BY <2>1, <2>2 DEF Time
<1>2. /\ srv[s].idx + 1 \in DOMAIN ref
      /\ Matches(srv[s].st, ref[srv[s].idx + 1])
  <2>1. Follows(srv[s])
    BY DEF ClusterInv, ServiceInv, HistoryInv
  <2> QED  BY <1>0, <2>1, FollowsMatches
<1>3. CASE GcStart(s)
  <2>1. gc'[s] = [pc |-> "health", start |-> now] /\ UNCHANGED rvars /\ srv[s].up
    BY <1>0, <1>3 DEF GcStart
  <2>2. \A i \in DOMAIN log : log[i].at + MaxLag < now => i <= srv[s].idx
    BY <1>3 DEF GcStart
  <2>3. now <= now
    BY <1>0
  <2> QED  BY <2>1, <2>2, <2>3 DEF RoundOK, Known, rvars
<1>4. CASE GcHealth(s)
  <2> DEFINE beats == srv[s].st.beats
             dead == {a \in DOMAIN beats : beats[a] + Timeout < now}
  <2>1. /\ gc'[s] = [pc |-> "remove", start |-> gc[s].start, checked |-> now,
                     dead |-> dead]
        /\ UNCHANGED rvars /\ gc[s].pc = "health"
    BY <1>0, <1>4 DEF GcHealth
  <2>3. ASSUME NEW i \in DOMAIN log, log[i].cmd.op = "heartbeat",
               now - Timeout <= log[i].at, Known(s, i)
        PROVE  log[i].cmd.addr \notin dead
    <3> DEFINE a == log[i].cmd.addr
    <3> SUFFICES ASSUME a \in DOMAIN beats PROVE ~(beats[a] + Timeout < now)
      OBVIOUS
    <3>1. i < srv[s].idx + 1
      BY <1>0, <1>1, <2>1, <2>3 DEF RoundOK
    <3>2. a \in DOMAIN ref[srv[s].idx + 1].beats
          /\ beats[a] >= ref[srv[s].idx + 1].beats[a]
      BY <1>2 DEF Matches
    <3>3. log[i].at <= ref[srv[s].idx + 1].beats[a]
      BY <1>2, <2>3, <3>1, <3>2 DEF ClusterInv, BeatsCover
    <3>4. beats[a] \in Nat /\ ref[srv[s].idx + 1].beats[a] \in Nat
      <4>1. \A st \in State : \A b \in DOMAIN st.beats : st.beats[b] \in Nat
        BY BeatsType DEF State, Beats, Time
      <4>2. srv[s].st \in State /\ ref[srv[s].idx + 1] \in State
        BY <1>0, <1>2 DEF Server
      <4> QED  BY <3>2, <4>1, <4>2
    <3>5. \A h, t, b, r, l \in Nat :
            h - t <= l /\ l <= r /\ b >= r => ~(b + t < h)
      OBVIOUS
    <3> QED  BY <1>0, <1>1, <2>3, <3>2, <3>3, <3>4, <3>5
  <2> HIDE DEF dead
  <2>4. \A i \in DOMAIN log : Known(s, i)' <=> Known(s, i)
    BY <2>1 DEF Known, rvars
  <2> QED  BY <1>0, <2>1, <2>3, <2>4 DEF RoundOK, rvars
<1>5. ASSUME NEW a \in Addrs, GcRemove(s, a) PROVE RoundOK(s)'
  <2>1. /\ gc[s].pc = "remove"
        /\ gc' = [gc EXCEPT ![s] = [gc[s] EXCEPT !.dead = @ \ {a}]]
        /\ UNCHANGED <<now, log, srv, ref>>
    BY <1>5 DEF GcRemove
  <2>2. /\ gc'[s].pc = "remove" /\ gc'[s].start = gc[s].start
        /\ gc'[s].checked = gc[s].checked
        /\ gc'[s].dead \subseteq gc[s].dead
    BY <1>0, <2>1 DEF RoundState, Off
  <2>3. \A i \in DOMAIN log : Known(s, i)' <=> Known(s, i)
    BY <2>1, <2>2 DEF Known
  <2> QED  BY <1>0, <2>1, <2>2, <2>3 DEF RoundOK
<1>6. CASE GcCollect(s)
  <2> DEFINE j == srv[s].idx + 1
  <2>1. /\ gc'[s] = [pc |-> "nodes", start |-> gc[s].start,
                     valid |-> LiveIds(srv[s].st.tree)]
        /\ UNCHANGED rvars /\ gc[s].pc = "remove"
    BY <1>0, <1>6 DEF GcCollect
  <2>2. srv[s].st.tree = ref[j].tree
    BY <1>2 DEF Matches
  <2>3. \A i \in DOMAIN log : Known(s, i) => i < j
    BY <1>0, <1>1, <2>1 DEF RoundOK
  <2>4. \A i \in DOMAIN log : Known(s, i)' <=> Known(s, i)
    BY <2>1 DEF Known, rvars
  <2>5. j \in DOMAIN ref
    BY <1>2
  <2> HIDE DEF j
  <2> QED  BY <1>0, <2>1, <2>2, <2>3, <2>4, <2>5 DEF RoundOK, rvars
<1>7. ASSUME gc[s].pc \in {"nodes", "scan", "sweep"}, UNCHANGED rvars,
             \/ gc'[s] = Off
             \/ /\ gc'[s].pc \in {"nodes", "scan", "sweep"}
                /\ gc'[s].start = gc[s].start /\ gc'[s].valid = gc[s].valid
      PROVE  RoundOK(s)'
  <2>1. CASE gc'[s] = Off
    BY <2>1 DEF RoundOK, Off
  <2>2. CASE /\ gc'[s].pc \in {"nodes", "scan", "sweep"}
             /\ gc'[s].start = gc[s].start /\ gc'[s].valid = gc[s].valid
    <3>1. \A i \in DOMAIN log : Known(s, i)' <=> Known(s, i)
      BY <1>7, <2>2 DEF Known, rvars
    <3>2. gc[s].pc # "off" /\ gc[s].pc \notin {"health", "remove"}
      BY <1>7
    <3> QED  BY <1>0, <1>7, <2>2, <3>1, <3>2 DEF RoundOK, rvars
  <2> QED  BY <1>7, <2>1, <2>2
<1>8. ASSUME NEW todo, gc'[s] = ScanOf(s, todo), UNCHANGED rvars,
             gc[s].pc \in {"nodes", "scan", "sweep"}
      PROVE  RoundOK(s)'
  BY <1>7, <1>8 DEF ScanOf
<1>9. CASE GcNodes(s)
  BY <1>0, <1>8, <1>9 DEF GcNodes
<1>10. CASE GcList(s)
  <2>1. /\ gc'[s].pc = "sweep" /\ gc'[s].start = gc[s].start
        /\ gc'[s].valid = gc[s].valid /\ UNCHANGED rvars /\ gc[s].pc = "scan"
    BY <1>0, <1>10 DEF GcList
  <2> QED  BY <1>7, <2>1
<1>11. ASSUME NEW id \in FileIds, GcDelete(s, id) PROVE RoundOK(s)'
  <2>1. /\ gc[s].pc = "sweep" /\ UNCHANGED rvars
        /\ gc' = [gc EXCEPT ![s] = [gc[s] EXCEPT !.doomed = @ \ {id}]]
    BY <1>11 DEF GcDelete
  <2>2. gc'[s].pc = "sweep" /\ gc'[s].start = gc[s].start /\ gc'[s].valid = gc[s].valid
    BY <1>0, <2>1 DEF RoundState, Off
  <2> QED  BY <1>7, <2>1, <2>2
<1>12. CASE GcNextNode(s)
  BY <1>0, <1>8, <1>12 DEF GcNextNode
<1> QED
  BY <1>3, <1>4, <1>5, <1>6, <1>9, <1>10, <1>11, <1>12 DEF GcNext

\* Every step keeps the rounds all right.
LEMMA StepRounds == ClusterInv /\ [Next]_vars => RoundsInv'
<1> SUFFICES ASSUME ClusterInv, Next \/ UNCHANGED vars, NEW s \in Servers
             PROVE  RoundOK(s)'
  BY DEF RoundsInv
<1>0. /\ CTyped /\ RoundOK(s) /\ RStep /\ gc \in [Servers -> RoundState]
      /\ srv \in [Servers -> Server] /\ now \in Nat /\ srv[s].idx \in Nat
  BY StepReplicated
  DEF ClusterInv, RoundsInv, CTyped, TypeOK, TypedInv, RTypeOK, Server, Time
<1>1. gc[s].pc # "off" => srv[s].up
  BY <1>0 DEF RoundOK
<1>2. srv[s].idx >= srv[s].idx /\ now >= now
  BY <1>0
<1>3. CASE UNCHANGED <<disk, gc>> /\ (QuietNext \/ UNCHANGED rvars)
  BY <1>0, <1>1, <1>3, ServerForward, RoundKept
<1>4. ASSUME NEW t \in Servers, CrashServer(t) PROVE RoundOK(s)'
  <2>1. CASE t = s
    <3>1. gc'[s] = Off
      BY <1>0, <1>4, <2>1 DEF CrashServer
    <3> QED  BY <3>1 DEF RoundOK, Off
  <2>2. CASE t # s
    <3>1. gc'[s] = gc[s] /\ srv'[s] = srv[s] /\ now' = now
      BY <1>0, <1>4, <2>2 DEF CrashServer, Crash
    <3> QED  BY <1>0, <1>1, <1>2, <3>1, RoundKept
  <2> QED  BY <2>1, <2>2
<1>5. ASSUME NEW t \in Servers, GcNext(t) PROVE RoundOK(s)'
  <2>1. CASE t = s
    BY <1>5, <2>1, RoundMoves
  <2>2. CASE t # s
    <3>1. gc'[s] = gc[s] /\ srv' = srv /\ now' = now
      BY <1>0, <1>5, <2>2
      DEF GcNext, GcStart, GcHealth, GcRemove, GcCollect, GcNodes, GcList, GcDelete,
          GcNextNode, rvars
    <3> QED  BY <1>0, <1>1, <1>2, <3>1, RoundKept
  <2> QED  BY <2>1, <2>2
<1>6. ASSUME NEW c \in Calls, NEW r \in Replica, Store(c, r) PROVE RoundOK(s)'
  <2>1. gc'[s] = gc[s] /\ srv' = srv /\ now' = now
    BY <1>6 DEF Store, rvars
  <2> QED  BY <1>0, <1>1, <1>2, <2>1, RoundKept
<1> QED  BY <1>3, <1>4, <1>5, <1>6, QuietOrGc

\* At the beginning.
LEMMA InitCluster == Init => ClusterInv
<1> SUFFICES ASSUME Init PROVE ClusterInv
  OBVIOUS
<1>1. CTyped /\ ServiceInv
  BY InitTyped, RInitService DEF Init
<1>2. log = <<>> /\ ref = <<InitState>> /\ \A s \in Servers : gc[s].pc = "off"
  BY DEF Init, RInit, Off
<1>3. Births /\ BeatsCover
  BY <1>2 DEF Births, BeatsCover
<1>4. RoundsInv
  BY <1>2 DEF RoundsInv, RoundOK
<1> QED  BY <1>1, <1>3, <1>4 DEF ClusterInv

\* The invariant holds.
LEMMA ClusterInvHolds == Spec => []ClusterInv
<1>1. ClusterInv /\ [Next]_vars => ClusterInv'
  <2> SUFFICES ASSUME ClusterInv, [Next]_vars PROVE ClusterInv'
    OBVIOUS
  <2>1. RStep /\ CTyped /\ TypedInv /\ HistoryInv
    BY StepReplicated DEF ClusterInv, ServiceInv
  <2>2. ServiceInv'
    BY <2>1, RStepService DEF ClusterInv
  <2>3. Births' /\ BeatsCover'
    BY <2>1, StepBirths, StepBeats DEF ClusterInv
  <2> QED  BY <2>2, <2>3, StepTyped, StepRounds DEF ClusterInv
<1> QED  BY <1>1, InitCluster, PTL DEF Spec

\* A round takes no node for dead whose heartbeats reach the log, on whichever
\* server and whatever restarts there were, but for what the server could not
\* know.
THEOREM FalseRemovalsNever == Spec => []NoFalseRemovals
<1>1. ClusterInv => NoFalseRemovals
  BY DEF ClusterInv, RoundsInv, RoundOK, NoFalseRemovals, Known
<1> QED  BY <1>1, ClusterInvHolds, PTL

-----------------------------------------------------------------------------
(* What rounds doom                                                        *)

\* A file is stored after its create was committed.
DiskInv ==
  \A a \in Addrs : \A f \in disk[a] :
    \E m \in DOMAIN log : /\ Creates(log[m].cmd, f.id)
                          /\ log[m].at + Skew[a] <= f.mtime

\* What a round deletes was in the log, and is not in the tree.
DoomedOK(s) ==
  gc[s].pc = "sweep" =>
    \A id \in gc[s].doomed :
      /\ \E m \in DOMAIN log : Creates(log[m].cmd, id)
      /\ id \notin LiveIds(Last(ref).tree)

DoomedInv == \A s \in Servers : DoomedOK(s)

\* What is stored stays younger than the commit, and is stored after it.
LEMMA StepDisk == ClusterInv /\ DiskInv /\ [Next]_vars => DiskInv'
<1> SUFFICES ASSUME ClusterInv, DiskInv, Next \/ UNCHANGED vars PROVE DiskInv'
  OBVIOUS
<1>0. /\ RTypeOK /\ TypedInv /\ RStep /\ log \in Seq(LogEntry)
      /\ disk \in [Addrs -> SUBSET NodeFile] /\ now \in Nat
      /\ OnceInv /\ IdsInv /\ HistoryInv
  BY StepReplicated
  DEF ClusterInv, ServiceInv, CTyped, TypeOK, TypedInv, RTypeOK, Time
<1>1. ASSUME NEW a \in Addrs, NEW f \in disk[a]
      PROVE  \E m \in DOMAIN log' : /\ Creates(log'[m].cmd, f.id)
                                    /\ log'[m].at + Skew[a] <= f.mtime
  <2>1. PICK m \in DOMAIN log : /\ Creates(log[m].cmd, f.id)
                                /\ log[m].at + Skew[a] <= f.mtime
    BY DEF DiskInv
  <2>2. m \in DOMAIN log' /\ log'[m] = log[m]
    <3>1. ASSUME NEW e \in queue, Commit(e) PROVE m \in DOMAIN log' /\ log'[m] = log[m]
      <4>1. Appends(e)
        BY <1>0, <3>1, CommitAppends
      <4> QED  BY <4>1 DEF Appends
    <3> QED  BY <1>0, <3>1, RStepRef
  <2> QED  BY <2>1, <2>2
<1>2. ASSUME \A a \in Addrs : disk'[a] \subseteq disk[a] PROVE DiskInv'
  BY <1>1, <1>2 DEF DiskInv
<1>3. ASSUME NEW c \in Calls, NEW r \in Replica, Store(c, r) PROVE DiskInv'
  <2> DEFINE cmd == call[c].cmd
             x == [id |-> r.remote, mtime |-> now + Skew[r.addr]]
  <2>1. /\ call[c].pc = "ok" /\ cmd.op = "create_file" /\ r \in ToSet(cmd.replicas)
        /\ disk' = [disk EXCEPT ![r.addr] = {f \in @ : f.id # r.remote} \cup {x}]
        /\ log' = log
    BY <1>3 DEF Store, rvars
  <2>2. PICK m \in DOMAIN log : log[m].cmd = cmd
    BY <1>0, <2>1 DEF OnceInv
  <2>3. cmd.replicas \in NS!ReplicaLists(cmd.id)
    BY <1>0, <2>1, <2>2 DEF IdsInv, WellPlaced
  <2>4. r.remote = cmd.id
    <3>1. PICK n \in 1..replicaCount :
            cmd.replicas \in [1..n -> [addr : Addrs, remote : {cmd.id}]]
      BY <2>3 DEF NS!ReplicaLists
    <3> QED  BY <2>1, <3>1 DEF ToSet
  <2>5. Creates(log[m].cmd, r.remote)
    BY <2>1, <2>2, <2>4 DEF Creates
  <2>6. log[m].at + Skew[r.addr] <= now + Skew[r.addr]
    <3>1. m \in 1..Len(log)
      BY <1>0
    <3>2. log[m].at \in Nat /\ log[m].at <= now
      BY <1>0, <3>1, LogEntryAt DEF Time, HistoryInv
    <3>3. Skew[r.addr] \in Int
      BY SkewAssumption DEF Replica
    <3> QED  BY <1>0, <3>2, <3>3
  <2>7. x.id = r.remote /\ x.mtime = now + Skew[r.addr]
    OBVIOUS
  <2> HIDE DEF x, cmd
  <2>8. ASSUME NEW a \in Addrs, NEW f \in disk'[a]
        PROVE  f \in disk[a] \/ (a = r.addr /\ f = x)
    BY <1>0, <2>1, <2>8 DEF Replica
  <2>9. ASSUME NEW a \in Addrs, NEW f \in disk'[a]
        PROVE  \E k \in DOMAIN log' : /\ Creates(log'[k].cmd, f.id)
                                      /\ log'[k].at + Skew[a] <= f.mtime
    <3>1. CASE f \in disk[a]
      BY <1>1, <3>1
    <3>2. CASE a = r.addr /\ f = x
      BY <2>1, <2>5, <2>6, <2>7, <3>2
    <3> QED  BY <2>8, <2>9, <3>1, <3>2
  <2> QED  BY <2>9 DEF DiskInv
<1>4. ASSUME NEW s \in Servers, GcNext(s) PROVE DiskInv'
  <2>1. ASSUME NEW id \in FileIds, GcDelete(s, id) PROVE DiskInv'
    BY <1>0, <1>2, <2>1 DEF GcDelete
  <2>2. CASE UNCHANGED disk
    BY <1>2, <2>2
  <2> QED
    BY <1>4, <2>1, <2>2
    DEF GcNext, GcStart, GcHealth, GcRemove, GcCollect, GcNodes, GcList, GcNextNode
<1>5. CASE UNCHANGED disk
  BY <1>2, <1>5
<1> QED  BY <1>3, <1>4, <1>5, QuietOrGc DEF CrashServer

\* What is doomed stays dead: only the command that created an identity can
\* bring it into the tree, and that is in the log.
LEMMA DoomedKept ==
  ASSUME ClusterInv, RStep, NEW s \in Servers, DoomedOK(s),
         gc'[s].pc = "sweep" => gc[s].pc = "sweep" /\ gc'[s].doomed \subseteq gc[s].doomed
  PROVE  DoomedOK(s)'
<1>0. TypedInv /\ IdsInv /\ gc[s] \in RoundState
  BY DEF ClusterInv, ServiceInv, CTyped, TypeOK
<1>1. CASE UNCHANGED <<log, ref>>
  <2>1. Last(ref)' = Last(ref)
    BY <1>1 DEF Last
  <2> QED  BY <1>1, <2>1 DEF DoomedOK
<1>2. ASSUME NEW e \in queue, Commit(e) PROVE DoomedOK(s)'
  <2>1. Appends(e)
    BY <1>0, <1>2, CommitAppends
  <2> SUFFICES ASSUME gc'[s].pc = "sweep", NEW id \in gc'[s].doomed
               PROVE  /\ \E m \in DOMAIN log' : Creates(log'[m].cmd, id)
                      /\ id \notin LiveIds(Last(ref)'.tree)
    BY DEF DoomedOK
  <2>2. gc[s].pc = "sweep" /\ id \in gc[s].doomed
    OBVIOUS
  <2>3. PICK m \in DOMAIN log : Creates(log[m].cmd, id)
    BY <2>2 DEF DoomedOK
  <2>4. id \notin LiveIds(Last(ref).tree) /\ id \in FileIds
    BY <1>0, <2>2, RoundFields DEF DoomedOK
  <2>5. ~Creates(e.cmd, id)
    BY <1>0, <2>3, <2>4 DEF IdsInv
  <2>6. \A k \in LiveIds(Applied(ref[Len(ref)], e.cmd, now).tree) :
          k \in LiveIds(ref[Len(ref)].tree) \/ Creates(e.cmd, k)
    BY <2>1, AppliedLiveIds DEF Appends
  <2>7. id \notin LiveIds(Last(ref)'.tree)
    BY <2>1, <2>4, <2>5, <2>6 DEF Appends
  <2>8. m \in DOMAIN log' /\ log'[m] = log[m]
    BY <2>1 DEF Appends
  <2> QED  BY <2>3, <2>7, <2>8
<1> QED  BY <1>0, <1>1, <1>2, RStepRef

\* What a round dooms is dead: it is older than the window, so its create was
\* bound to be known to the round's server, whose tree it was not in; and that
\* create is the only one.
LEMMA ListedAreDead ==
  ASSUME LagWithinWindow, ClusterInv, DiskInv, NEW s \in Servers, GcList(s)
  PROVE  DoomedOK(s)'
<1>0. /\ TypedInv /\ IdsInv /\ gc[s] \in RoundState /\ RoundOK(s)
      /\ gc \in [Servers -> RoundState] /\ disk \in [Addrs -> SUBSET NodeFile]
      /\ log \in Seq(LogEntry) /\ ref \in Seq(State)
      /\ MaxLag \in Nat /\ Window \in Nat
  BY TimesAssumption
  DEF ClusterInv, ServiceInv, CTyped, TypeOK, TypedInv, RTypeOK, RoundsInv
<1> DEFINE a == Head(gc[s].todo)
           old == {f \in disk[a] : f.mtime <= gc[s].start - Window}
<1>1. /\ gc[s].pc = "scan" /\ UNCHANGED rvars
      /\ gc'[s].doomed = {f.id : f \in old} \ gc[s].valid
  BY <1>0 DEF GcList
<1>2. a \in Addrs /\ gc[s].start \in Nat
  BY <1>0, <1>1, RoundFields DEF Time
<1> HIDE DEF a
<1>3. ASSUME NEW id \in gc'[s].doomed
      PROVE  /\ \E m \in DOMAIN log : Creates(log[m].cmd, id)
             /\ id \notin LiveIds(Last(ref).tree)
  <2>1. PICK f \in disk[a] : f.mtime <= gc[s].start - Window /\ f.id = id
    BY <1>1
  <2>2. id \notin gc[s].valid
    BY <1>1
  <2>3. PICK m \in DOMAIN log : /\ Creates(log[m].cmd, id)
                                /\ log[m].at + Skew[a] <= f.mtime
    BY <1>2, <2>1 DEF DiskInv
  <2>4. Known(s, m)
    <3>1. m \in 1..Len(log)
      BY <1>0
    <3>2. log[m].at \in Nat
      BY <1>0, <3>1, LogEntryAt DEF TypedInv, Time
    <3>3. Skew[a] \in Int /\ Skew[a] > MaxLag - Window
      BY <1>2, SkewAssumption DEF LagWithinWindow
    <3>4. f.mtime \in Int
      BY <1>0, <1>2, <2>1 DEF NodeFile
    <3>5. \A x, w, g, t, h \in Int :
            x + w <= t /\ t <= h - Window /\ w > g - Window => x + g < h
      BY <1>0
    <3> QED  BY <1>0, <1>2, <2>1, <2>3, <3>2, <3>3, <3>4, <3>5 DEF Known
  <2>5. PICK j \in DOMAIN ref : /\ gc[s].valid = LiveIds(ref[j].tree)
                                /\ \A i \in DOMAIN log : Known(s, i) => i < j
    BY <1>0, <1>1 DEF RoundOK
  <2>6. m < j
    BY <2>4, <2>5
  <2>7. /\ Len(ref) \in DOMAIN ref /\ Last(ref) = ref[Len(ref)]
        /\ j \in Nat /\ j <= Len(ref)
    BY <1>0 DEF Last, TypedInv, InLog
  <2>8. id \in FileIds
    BY <1>0, <1>2, <2>1 DEF NodeFile
  <2>9. \A k \in DOMAIN log : Creates(log[k].cmd, id) => k = m
    BY <1>0, <2>3, <2>8 DEF IdsInv
  <2>10. ASSUME id \in LiveIds(Last(ref).tree) PROVE FALSE
    <3>1. \/ id \in LiveIds(ref[j].tree)
          \/ \E k \in DOMAIN log : j <= k /\ k < Len(ref) /\ Creates(log[k].cmd, id)
      BY <2>7, <2>10 DEF ClusterInv, Births
    <3>2. PICK k \in DOMAIN log : j <= k /\ Creates(log[k].cmd, id)
      BY <2>2, <2>5, <3>1
    <3>3. k = m /\ m \in Nat
      BY <1>0, <2>9, <3>2
    <3> QED  BY <2>6, <2>7, <3>2, <3>3
  <2> QED  BY <2>3, <2>10
<1>4. log' = log /\ Last(ref)' = Last(ref)
  BY <1>1 DEF rvars, Last
<1> QED  BY <1>3, <1>4 DEF DoomedOK

\* Every step keeps what is doomed dead.
LEMMA StepDoomed ==
  ASSUME LagWithinWindow
  PROVE  ClusterInv /\ DiskInv /\ DoomedInv /\ [Next]_vars => DoomedInv'
<1> SUFFICES ASSUME ClusterInv, DiskInv, DoomedInv, Next \/ UNCHANGED vars,
                    NEW s \in Servers
             PROVE  DoomedOK(s)'
  BY DEF DoomedInv
<1>0. RStep /\ DoomedOK(s) /\ gc \in [Servers -> RoundState] /\ gc[s] \in RoundState
  BY StepReplicated DEF DoomedInv, ClusterInv, CTyped, TypeOK
<1>1. CASE gc'[s] = gc[s] \/ gc'[s].pc # "sweep"
  BY <1>0, <1>1, DoomedKept
<1>2. ASSUME NEW t \in Servers, GcNext(t) PROVE DoomedOK(s)'
  <2>1. CASE t # s
    <3>1. gc'[s] = gc[s]
      BY <1>0, <1>2, <2>1
      DEF GcNext, GcStart, GcHealth, GcRemove, GcCollect, GcNodes, GcList, GcDelete,
          GcNextNode
    <3> QED  BY <1>1, <3>1
  <2>2. CASE t = s /\ GcList(s)
    BY <2>2, ListedAreDead
  <2>3. ASSUME t = s, NEW id \in FileIds, GcDelete(s, id) PROVE DoomedOK(s)'
    <3>1. /\ gc[s].pc = "sweep"
          /\ gc' = [gc EXCEPT ![s] = [gc[s] EXCEPT !.doomed = @ \ {id}]]
      BY <2>3 DEF GcDelete
    <3>2. gc'[s].doomed \subseteq gc[s].doomed
      BY <1>0, <3>1 DEF RoundState, Off
    <3> QED  BY <1>0, <3>1, <3>2, DoomedKept
  <2>4. ASSUME NEW a \in Addrs, GcRemove(s, a) PROVE DoomedOK(s)'
    <3>1. /\ gc[s].pc = "remove"
          /\ gc' = [gc EXCEPT ![s] = [gc[s] EXCEPT !.dead = @ \ {a}]]
      BY <2>4 DEF GcRemove
    <3>2. gc'[s].pc = "remove"
      BY <1>0, <3>1 DEF RoundState, Off
    <3> QED  BY <1>1, <3>2
  <2>5. CASE GcStart(s) \/ GcHealth(s) \/ GcCollect(s)
    BY <1>0, <1>1, <2>5 DEF GcStart, GcHealth, GcCollect
  <2>6. CASE GcNodes(s) \/ GcNextNode(s)
    BY <1>0, <1>1, <2>6 DEF GcNodes, GcNextNode, ScanOf, Off
  <2> QED  BY <1>2, <2>1, <2>2, <2>3, <2>4, <2>5, <2>6 DEF GcNext
<1>3. ASSUME NEW t \in Servers, CrashServer(t) PROVE DoomedOK(s)'
  BY <1>0, <1>1, <1>3 DEF CrashServer, Off
<1>4. CASE UNCHANGED gc
  BY <1>1, <1>4
<1> QED  BY <1>2, <1>3, <1>4, QuietOrGc DEF Store

\* If the time for which a deposed leader may go on, and the lag of a node's
\* clock, fit together into the safety window, no round on any server deletes
\* a file whose identity is in the tree that the whole log makes.
THEOREM CollectorsSpareCommitted ==
  ASSUME LagWithinWindow
  PROVE  Spec => []GcSparesCommitted
<1>1. Init => DiskInv /\ DoomedInv
  BY DEF Init, DiskInv, DoomedInv, DoomedOK, Off
<1>2. DoomedInv => GcSparesCommitted
  BY DEF DoomedInv, DoomedOK, GcSparesCommitted
<1> QED  BY <1>1, <1>2, StepDisk, StepDoomed, ClusterInvHolds, PTL DEF Spec
=============================================================================
