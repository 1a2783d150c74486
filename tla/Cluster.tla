------------------------------ MODULE Cluster ------------------------------
(***************************************************************************)
(* The orphan collector on the servers of Replicated: every server runs    *)
(* its own ticker, starts a round if it takes itself for the leader, and   *)
(* decides from its own state, which may lag behind the log; another       *)
(* server may have become the leader long before the round ends.           *)
(***************************************************************************)
EXTENDS Replicated, Integers

CONSTANTS
  Window,     \* gcSafetyWindow, in ticks
  Timeout,    \* heartbeatTimeout
  MaxLag,     \* how much of the log a server that takes itself for the leader may miss
  Collectors, \* the servers that run rounds (a bound)
  Skew        \* Skew[a]: how far a data node's clock is ahead of the servers'

ASSUME TimesAssumption == Window \in Nat /\ Timeout \in Nat /\ MaxLag \in Nat
ASSUME CollectorsAssumption == Collectors \subseteq Servers
ASSUME SkewAssumption == Skew \in [Addrs -> Int]

\* A server takes itself for the leader so short a time after it was deposed,
\* and a data node's clock is so little behind, that both fit in the window.
LagWithinWindow == \A a \in Addrs : Skew[a] > MaxLag - Window

VARIABLES
  disk,    \* disk[a]: the files of data node a
  gc       \* gc[s]: the round of runGC under way on server s

vars == <<now, log, queue, issued, srv, snap, call, ref, disk, gc>>

-----------------------------------------------------------------------------
NodeFile == [id : FileIds, mtime : Int]

Off == [pc |-> "off"]
RoundState ==
  {Off} \cup [pc : {"health"}, start : Time]
    \cup [pc : {"remove"}, start : Time, checked : Time, dead : SUBSET Addrs]
    \cup [pc : {"nodes"}, start : Time, valid : SUBSET FileIds]
    \cup [pc : {"scan"}, start : Time, valid : SUBSET FileIds, todo : Seq(Addrs) \ {<<>>}]
    \cup [pc : {"sweep"}, start : Time, valid : SUBSET FileIds,
          todo : Seq(Addrs) \ {<<>>}, doomed : SUBSET FileIds]

TypeOK ==
  /\ RTypeOK
  /\ disk \in [Addrs -> SUBSET NodeFile]
  /\ gc \in [Servers -> RoundState]

Init ==
  /\ RInit
  /\ disk = [a \in Addrs |-> {}]
  /\ gc = [s \in Servers |-> Off]

\* A client whose CreateFile has returned stores the file on one of its replicas.
Store(c, r) ==
  /\ call[c].pc = "ok"
  /\ call[c].cmd.op = "create_file"
  /\ r \in ToSet(call[c].cmd.replicas)
  /\ disk' = [disk EXCEPT ![r.addr] =
       {f \in @ : f.id # r.remote} \cup {[id |-> r.remote, mtime |-> now + Skew[r.addr]]}]
  /\ UNCHANGED <<rvars, gc>>

-----------------------------------------------------------------------------
(* A round of runGC on server s                                            *)

\* Bug: every server's ticker starts rounds, leader or not.
GcStartAnywhere(s) ==
  /\ srv[s].up
  /\ gc[s] = Off
  /\ gc' = [gc EXCEPT ![s] = [pc |-> "health", start |-> now]]
  /\ UNCHANGED <<rvars, disk>>

\* The server takes itself for the leader: it may have been deposed, or be new
\* or restarted.  That it misses nothing that was committed more than MaxLag
\* ago is not in the code, which asks for IsLeader only: it is what the window
\* supposes of goraft.
GcStart(s) ==
  /\ srv[s].up
  /\ gc[s] = Off
  /\ \A i \in DOMAIN log : log[i].at + MaxLag < now => i <= srv[s].idx
  /\ gc' = [gc EXCEPT ![s] = [pc |-> "health", start |-> now]]
  /\ UNCHANGED <<rvars, disk>>

\* The nodes whose last heartbeat is older than the timeout by now.
GcHealth(s) ==
  /\ gc[s].pc = "health"
  /\ LET beats == srv[s].st.beats IN
       gc' = [gc EXCEPT ![s] =
         [pc |-> "remove", start |-> gc[s].start, checked |-> now,
          dead |-> {a \in DOMAIN beats : beats[a] + Timeout < now}]]
  /\ UNCHANGED <<rvars, disk>>

\* Submit the removal of a; the round goes on when Do returns, whatever it says.
GcRemove(s, a) ==
  /\ gc[s].pc = "remove"
  /\ a \in gc[s].dead
  /\ queue' = queue \cup {[from |-> s, cmd |-> [op |-> "remove_dn", addr |-> a]]}
  /\ gc' = [gc EXCEPT ![s].dead = @ \ {a}]
  /\ UNCHANGED <<now, log, issued, srv, snap, call, ref, disk>>

GcCollect(s) ==
  /\ gc[s].pc = "remove"
  /\ gc[s].dead = {}
  /\ gc' = [gc EXCEPT ![s] = [pc |-> "nodes", start |-> gc[s].start,
                              valid |-> LiveIds(srv[s].st.tree)]]
  /\ UNCHANGED <<rvars, disk>>

\* Bug: the list of nodes is not tested for its end.
ScanOfAny(s, todo) ==
  [pc |-> "scan", start |-> gc[s].start, valid |-> gc[s].valid, todo |-> todo]

\* On to the nodes of todo, or the round is over.
ScanOf(s, todo) ==
  IF todo = <<>> THEN Off
  ELSE [pc |-> "scan", start |-> gc[s].start, valid |-> gc[s].valid, todo |-> todo]

GcNodes(s) ==
  /\ gc[s].pc = "nodes"
  /\ gc' = [gc EXCEPT ![s] = ScanOf(s, srv[s].st.nodes)]
  /\ UNCHANGED <<rvars, disk>>

GcList(s) ==
  /\ gc[s].pc = "scan"
  /\ LET old == {f \in disk[Head(gc[s].todo)] : f.mtime <= gc[s].start - Window} IN
       gc' = [gc EXCEPT ![s] =
         [pc |-> "sweep", start |-> gc[s].start, valid |-> gc[s].valid,
          todo |-> gc[s].todo, doomed |-> {f.id : f \in old} \ gc[s].valid]]
  /\ UNCHANGED <<rvars, disk>>

\* DeleteData of one orphan.
GcDelete(s, id) ==
  /\ gc[s].pc = "sweep"
  /\ id \in gc[s].doomed
  /\ disk' = [disk EXCEPT ![Head(gc[s].todo)] = {f \in @ : f.id # id}]
  /\ gc' = [gc EXCEPT ![s].doomed = @ \ {id}]
  /\ UNCHANGED rvars

\* The node is done with, or it cannot be reached (any more).
GcNextNode(s) ==
  /\ gc[s].pc \in {"scan", "sweep"}
  /\ gc' = [gc EXCEPT ![s] = ScanOf(s, Tail(gc[s].todo))]
  /\ UNCHANGED <<rvars, disk>>

\* A crash ends the server's round.
CrashServer(s) ==
  /\ Crash(s)
  /\ gc' = [gc EXCEPT ![s] = Off]
  /\ UNCHANGED disk

-----------------------------------------------------------------------------
GcNext(s) ==
  \/ GcStart(s)
  \/ GcHealth(s)
  \/ \E a \in Addrs : GcRemove(s, a)
  \/ GcCollect(s)
  \/ GcNodes(s)
  \/ GcList(s)
  \/ \E id \in FileIds : GcDelete(s, id)
  \/ GcNextNode(s)

Next ==
  \/ QuietNext /\ UNCHANGED <<disk, gc>>
  \/ \E s \in Servers : CrashServer(s)
  \/ \E s \in Collectors : GcNext(s)
  \/ \E c \in Calls, r \in Replica : Store(c, r)

Spec == Init /\ [][Next]_vars

-----------------------------------------------------------------------------
(* Properties                                                              *)

\* No round, on whichever server and however long after it was deposed,
\* deletes a file whose identity is in the tree that the whole log makes
\* (internal/metadata/gc.go:26, "Only the leader should run GC").
GcSparesCommitted ==
  \A s \in Servers :
    gc[s].pc = "sweep" => gc[s].doomed \cap LiveIds(Last(ref).tree) = {}

\* Neither a failover nor a restart makes a round take a node for dead that
\* keeps sending heartbeats (README.md:335, "leader failover never causes
\* false removals"): of one found dead none was committed within the timeout
\* that the server was bound to have applied when the round started.
NoFalseRemovals ==
  \A s \in Servers, i \in DOMAIN log :
    gc[s].pc = "remove" /\ log[i].cmd.op = "heartbeat"
      /\ gc[s].checked - Timeout <= log[i].at /\ log[i].at + MaxLag < gc[s].start
      => log[i].cmd.addr \notin gc[s].dead
=============================================================================
