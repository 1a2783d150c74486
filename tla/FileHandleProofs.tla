--------------------------- MODULE FileHandleProofs ---------------------------
(***************************************************************************)
(* Proofs about FileHandle for every set of files, threads, handles and    *)
(* nodes, and all contents.                                                *)
(***************************************************************************)
EXTENDS FileHandle, MetaStateProofs, TreeProofs

-----------------------------------------------------------------------------
(* Types                                                                   *)

\* A thread's program counter tells which kind of state it is in.
LEMMA ThreadStates ==
  ASSUME NEW s \in ThreadState
  PROVE  /\ s.pc = "idle" => s = Idle
         /\ s.pc = "create" => s \in CreateState
         /\ s.pc = "empty" => s \in EmptyState
         /\ s.pc = "locate" => s \in LocateState
         /\ s.pc \in {"write", "trunc", "put"} => s \in ChangeState
         /\ s.pc \in {"complete", "undo"} => s \in PutState
         /\ s.pc \in {"size", "cut"} => s \in SizeState
         /\ s.pc = "close" => s \in CloseState
<1>1. /\ Idle.pc = "idle"
      /\ \A x \in CreateState : x.pc = "create"
      /\ \A x \in EmptyState : x.pc = "empty"
      /\ \A x \in LocateState : x.pc = "locate"
      /\ \A x \in ChangeState : x.pc \in {"write", "trunc", "put"}
      /\ \A x \in PutState : x.pc \in {"complete", "undo"}
      /\ \A x \in SizeState : x.pc \in {"size", "cut"}
      /\ \A x \in CloseState : x.pc = "close"
  BY DEF Idle, CreateState, EmptyState, LocateState, ChangeState, PutState, SizeState,
         CloseState
<1> QED  BY <1>1 DEF ThreadState

\* A handle is open, or there is none.
LEMMA HandleStates ==
  ASSUME NEW s \in {NoHandle} \cup OpenHandle
  PROVE  /\ s.open => s \in OpenHandle
         /\ ~s.open => s = NoHandle
<1>1. NoHandle.open = FALSE /\ \A x \in OpenHandle : x.open = TRUE
  BY DEF NoHandle, OpenHandle
<1> QED  BY <1>1

\* An update of a handle's size or status that has been closed in the meantime
\* changes nothing.
LEMMA UpdateHandle ==
  ASSUME NEW s \in {NoHandle} \cup OpenHandle, NEW n \in Sizes
  PROVE  /\ [s EXCEPT !.size = n] \in {NoHandle} \cup OpenHandle
         /\ [s EXCEPT !.status = "complete"] \in {NoHandle} \cup OpenHandle
         /\ \A s2 \in {[s EXCEPT !.size = n], [s EXCEPT !.status = "complete"]} :
              /\ s2.open <=> s.open
              /\ s.open => s2.path = s.path /\ s2.replicas = s.replicas
                           /\ s2.fileID = s.fileID
<1>1. CASE s = NoHandle
  <2>1. [s EXCEPT !.size = n] = NoHandle /\ [s EXCEPT !.status = "complete"] = NoHandle
    BY <1>1 DEF NoHandle
  <2> QED  BY <1>1, <2>1
<1>2. CASE s \in OpenHandle
  BY <1>2 DEF OpenHandle
<1> QED  BY <1>1, <1>2

\* What a change is, and what another thread's start of a change leaves of it.
SameChange(o, o2) ==
  /\ o \in ChangeState /\ o2 \in ChangeState
  /\ o2.pc = o.pc /\ o2.h = o.h /\ o2.path = o.path /\ o2.id = o.id /\ o2.val = o.val
  /\ o2.at = o.at /\ o2.length = o.length /\ o2.todo = o.todo /\ o2.failed = o.failed
  /\ o2.acked = o.acked

LEMMA SeeMore ==
  ASSUME NEW o \in ChangeState, NEW vals \in [Positions -> SUBSET Bytes]
  PROVE  /\ SameChange(o, [o EXCEPT !.seen = vals])
         /\ [o EXCEPT !.seen = vals].seen = vals
  BY DEF ChangeState, SameChange

\* What a change puts into a file are bytes, and what it is tells which.
LEMMA PutsBytes ==
  ASSUME NEW o \in ChangeState
  PROVE  /\ \A i \in Positions : PutsAt(o, i) \subseteq Bytes
         /\ \A o2 : SameChange(o, o2) =>
              \A i \in Positions : PutsAt(o2, i) = PutsAt(o, i)
  BY DEF ChangeState, PutsAt, Bytes, SameChange, Span

\* The histories of two changes that overlap.
Sees(o, o2) == \A i \in Positions : PutsAt(o2, i) \subseteq o.seen[i]
SeesMore(o, o2) == \A i \in Positions : o.seen[i] \subseteq o2.seen[i]

\* Threads that change one file get to know of each other.
LEMMA BeginFacts ==
  ASSUME NEW t \in Threads, NEW o \in ChangeState, Begin(t, o),
         op \in [Threads -> ThreadState], ~Changing(t)
  PROVE  /\ op' \in [Threads -> ThreadState]
         /\ SameChange(o, op'[t])
         /\ \A x \in Threads \ {t} :
              /\ ~Changing(x) => op'[x] = op[x]
              /\ Changing(x) => SameChange(op[x], op'[x]) /\ SeesMore(op[x], op'[x])
              /\ ChangingId(x, o.id) => Sees(op'[t], op[x]) /\ Sees(op'[x], o)
<1> DEFINE at(i) == UNION {PutsAt(op[y], i) : y \in {z \in Threads : ChangingId(z, o.id)}}
           vals == [i \in Positions |-> at(i)]
<1>1. ASSUME NEW x \in Threads, Changing(x) PROVE op[x] \in ChangeState
  BY <1>1, ThreadStates DEF Changing
<1>2. vals \in [Positions -> SUBSET Bytes]
  <2>1. ASSUME NEW i \in Positions PROVE at(i) \subseteq Bytes
    BY <1>1, PutsBytes DEF ChangingId
  <2> HIDE DEF at
  <2> QED  BY <2>1
<1>3. /\ op'[t] = [o EXCEPT !.seen = vals]
      /\ \A x \in Threads \ {t} :
           op'[x] = IF ChangingId(x, o.id)
                      THEN [op[x] EXCEPT !.seen = [i \in Positions |-> @[i] \cup PutsAt(o, i)]]
                    ELSE op[x]
      /\ op' = [x \in Threads |-> op'[x]]
  BY DEF Begin
<1>4. SameChange(o, op'[t]) /\ op'[t].seen = vals
  <2> HIDE DEF vals
  <2> QED  BY <1>2, <1>3, SeeMore
<1>5. ASSUME NEW x \in Threads \ {t}
      PROVE  /\ ~Changing(x) => op'[x] = op[x]
             /\ Changing(x) => SameChange(op[x], op'[x]) /\ SeesMore(op[x], op'[x])
             /\ ChangingId(x, o.id) => Sees(op'[t], op[x]) /\ Sees(op'[x], o)
  <2>1. CASE ChangingId(x, o.id)
    <3> DEFINE more == [i \in Positions |-> op[x].seen[i] \cup PutsAt(o, i)]
    <3>1. Changing(x) /\ op[x] \in ChangeState
      BY <1>1, <2>1 DEF ChangingId
    <3>2. \A i \in Positions : PutsAt(op[x], i) \subseteq vals[i]
      BY <2>1
    <3>3. more \in [Positions -> SUBSET Bytes]
      <4>1. op[x].seen \in [Positions -> SUBSET Bytes]
        BY <3>1 DEF ChangeState
      <4>2. \A i \in Positions : PutsAt(o, i) \subseteq Bytes
        BY PutsBytes
      <4> QED  BY <4>1, <4>2
    <3>4. op'[x] = [op[x] EXCEPT !.seen = more]
      BY <1>3, <2>1
    <3>5. \A i \in Positions : op[x].seen[i] \subseteq more[i] /\ PutsAt(o, i) \subseteq more[i]
      OBVIOUS
    <3> HIDE DEF more, vals
    <3>6. SameChange(op[x], op'[x]) /\ op'[x].seen = more
      BY <3>1, <3>3, <3>4, SeeMore
    <3> QED  BY <1>4, <3>1, <3>2, <3>5, <3>6 DEF Sees, SeesMore
  <2>2. CASE ~ChangingId(x, o.id)
    <3>1. op'[x] = op[x]
      BY <1>3, <2>2
    <3>2. Changing(x) => SameChange(op[x], op[x])
      BY <1>1 DEF SameChange
    <3> QED  BY <2>2, <3>1, <3>2 DEF SeesMore
  <2> QED  BY <2>1, <2>2
<1>6. ASSUME NEW x \in Threads PROVE op'[x] \in ThreadState
  BY <1>4, <1>5, <1>6 DEF SameChange, ThreadState
<1> QED  BY <1>3, <1>4, <1>5, <1>6

\* Candidates only come, and what the change puts is one where it goes.
LEMMA BeginCandidates ==
  ASSUME NEW t, NEW o \in ChangeState, Begin(t, o),
         cand \in [FileIds -> [Positions -> SUBSET Bytes]]
  PROVE  /\ cand' \in [FileIds -> [Positions -> SUBSET Bytes]]
         /\ \A id \in FileIds, i \in Positions :
              cand'[id][i] = cand[id][i] \cup (IF id = o.id THEN PutsAt(o, i) ELSE {})
<1>1. o.id \in FileIds /\ \A i \in Positions : PutsAt(o, i) \subseteq Bytes
  BY PutsBytes DEF ChangeState
<1>2. cand' = [cand EXCEPT ![o.id] = [i \in Positions |-> @[i] \cup PutsAt(o, i)]]
  BY DEF Begin
<1>3. cand' = [id \in FileIds |-> IF id = o.id
         THEN [i \in Positions |-> cand[id][i] \cup PutsAt(o, i)] ELSE cand[id]]
  BY <1>1, <1>2
<1>4. ASSUME NEW id \in FileIds
      PROVE  /\ cand'[id] \in [Positions -> SUBSET Bytes]
             /\ \A i \in Positions :
                  cand'[id][i] = cand[id][i] \cup (IF id = o.id THEN PutsAt(o, i) ELSE {})
  BY <1>1, <1>3
<1> QED  BY <1>3, <1>4

\* A confirmed change drops candidates.
LEMMA ConfirmedCandidates ==
  ASSUME NEW o \in ChangeState, cand \in [FileIds -> [Positions -> SUBSET Bytes]]
  PROVE  /\ Confirmed(o) \in [FileIds -> [Positions -> SUBSET Bytes]]
         /\ \A id \in FileIds, i \in Positions :
              Confirmed(o)[id][i] = IF id = o.id /\ i \in Span(o)
                                      THEN cand[id][i] \cap (PutsAt(o, i) \cup o.seen[i])
                                      ELSE cand[id][i]
<1>1. o.id \in FileIds
  BY DEF ChangeState
<1>3. Confirmed(o) = [id \in FileIds |-> IF id = o.id
         THEN [i \in Positions |-> IF i \in Span(o)
                THEN cand[id][i] \cap (PutsAt(o, i) \cup o.seen[i]) ELSE cand[id][i]]
         ELSE cand[id]]
  BY <1>1 DEF Confirmed
<1>4. ASSUME NEW id \in FileIds
      PROVE  /\ Confirmed(o)[id] \in [Positions -> SUBSET Bytes]
             /\ \A i \in Positions :
                  Confirmed(o)[id][i] = IF id = o.id /\ i \in Span(o)
                                          THEN cand[id][i] \cap (PutsAt(o, i) \cup o.seen[i])
                                          ELSE cand[id][i]
  BY <1>1, <1>3
<1> QED  BY <1>3, <1>4

-----------------------------------------------------------------------------
(* Contents                                                                *)

\* Contents are short sequences of bytes.
LEMMA ContentsFacts ==
  ASSUME NEW c \in Contents
  PROVE  /\ c \in Seq(Bytes) /\ Len(c) \in Sizes /\ DOMAIN c = 1..Len(c)
         /\ \A i \in 1..Len(c) : c[i] \in Bytes
<1>1. PICK n \in Sizes : c \in [1..n -> Bytes]
  BY DEF Contents
<1>2. n \in Nat
  BY SizesAssumption
<1>3. c \in Seq(Bytes) /\ Len(c) = n
  BY <1>1, <1>2
<1> QED  BY <1>1, <1>3

\* A function on the first few positions is such contents.
LEMMA MakeContents ==
  ASSUME NEW n \in Sizes, NEW f, f \in [1..n -> Bytes]
  PROVE  f \in Contents /\ Len(f) = n
<1>1. n \in Nat
  BY SizesAssumption
<1>2. Len(f) = n
  BY <1>1
<1> QED  BY <1>2 DEF Contents

\* What a physical file holds, if there is one or not.
LEMMA ContentType ==
  ASSUME TypeOK, NEW r
  PROVE  Content(r) \in Contents
<1>1. <<>> \in Contents
  <2>1. 0 \in Sizes /\ <<>> \in [1..0 -> Bytes]
    BY SizesAssumption
  <2> QED  BY <2>1, MakeContents
<1> QED  BY <1>1 DEF TypeOK, Content

\* PartialWrite puts its value into its range, extends the file if need be, and
\* changes nothing else.
LEMMA PartialWrittenFacts ==
  ASSUME NEW c \in Contents, NEW offset \in Sizes, NEW length \in Sizes,
         offset + length <= MaxLen, NEW v \in Bytes
  PROVE  LET d == PartialWritten(c, offset, length, v) IN
         /\ d \in Contents
         /\ Len(c) <= Len(d) /\ (length > 0 => offset + length <= Len(d))
         /\ \A i \in Positions : i <= Len(d) =>
              d[i] = IF i \in (offset + 1)..(offset + length) THEN v
                     ELSE IF i <= Len(c) THEN c[i] ELSE Zero
         /\ \A i \in Positions : i > Len(d) =>
              i > Len(c) /\ i \notin (offset + 1)..(offset + length)
<1> DEFINE d == PartialWritten(c, offset, length, v)
           n == IF length > 0 /\ offset + length > Len(c) THEN offset + length ELSE Len(c)
<1>1. /\ Len(c) \in Sizes /\ \A i \in 1..Len(c) : c[i] \in Bytes
      /\ MaxLen \in Nat /\ Sizes = 0..MaxLen /\ Zero \in Bytes
  BY ContentsFacts, SizesAssumption DEF Bytes
<1>2. n \in Sizes /\ Len(c) <= n /\ (length > 0 => offset + length <= n)
  BY <1>1
<1>3. d = [i \in 1..n |-> IF i \in (offset + 1)..(offset + length) THEN v
                          ELSE IF i <= Len(c) THEN c[i] ELSE Zero]
  BY DEF PartialWritten
<1> HIDE DEF d, n
<1>4. d \in [1..n -> Bytes]
  BY <1>1, <1>2, <1>3
<1>5. d \in Contents /\ Len(d) = n
  BY <1>2, <1>4, MakeContents
<1>6. ASSUME NEW i \in Positions, i <= Len(d)
      PROVE  d[i] = IF i \in (offset + 1)..(offset + length) THEN v
                    ELSE IF i <= Len(c) THEN c[i] ELSE Zero
  <2>1. i \in 1..n
    BY <1>1, <1>2, <1>5, <1>6 DEF Positions
  <2> QED  BY <1>3, <2>1
<1>7. ASSUME NEW i \in Positions, i > Len(d)
      PROVE  i > Len(c) /\ i \notin (offset + 1)..(offset + length)
  BY <1>1, <1>2, <1>5, <1>7 DEF Positions
<1> QED  BY <1>2, <1>5, <1>6, <1>7 DEF d

\* Truncate keeps what is in front of the cut, and the rest reads as zeros.
LEMMA TruncatedFacts ==
  ASSUME NEW c \in Contents, NEW size \in Sizes
  PROVE  LET d == Truncated(c, size) IN
         /\ d \in Contents /\ Len(d) = size
         /\ \A i \in Positions : i <= size =>
              d[i] = IF i <= Len(c) THEN c[i] ELSE Zero
<1> DEFINE d == Truncated(c, size)
<1>1. /\ Len(c) \in Sizes /\ \A i \in 1..Len(c) : c[i] \in Bytes
      /\ MaxLen \in Nat /\ Sizes = 0..MaxLen /\ Zero \in Bytes
  BY ContentsFacts, SizesAssumption DEF Bytes
<1>2. d = [i \in 1..size |-> IF i <= Len(c) THEN c[i] ELSE Zero]
  BY DEF Truncated
<1> HIDE DEF d
<1>3. d \in [1..size -> Bytes]
  BY <1>1, <1>2
<1>4. d \in Contents /\ Len(d) = size
  BY <1>3, MakeContents
<1>5. ASSUME NEW i \in Positions, i <= size
      PROVE  d[i] = IF i <= Len(c) THEN c[i] ELSE Zero
  BY <1>1, <1>2, <1>5 DEF Positions
<1> QED  BY <1>4, <1>5 DEF d

\* The part of a sequence that is one element long, and what lies beyond its end.
LEMMA OneElement ==
  ASSUME NEW c \in Seq(Bytes), NEW i \in Nat, i > 0
  PROVE  LET end == IF (i - 1) + 1 < Len(c) THEN (i - 1) + 1 ELSE Len(c)
             s == SubSeq(c, (i - 1) + 1, end)
         IN  IF i <= Len(c) THEN s # <<>> /\ s[1] = c[i] ELSE s = <<>>
<1>1. Len(c) \in Nat /\ (i - 1) + 1 = i
  BY LenProperties
<1>2. CASE i <= Len(c)
  <2>1. Len(SubSeq(c, i, i)) = 1 /\ SubSeq(c, i, i)[1] = c[i]
    BY <1>1, <1>2, SubSeqProperties
  <2>2. SubSeq(c, i, i) # <<>>
    <3>1. Len(<<>>) = 0
      OBVIOUS
    <3>2. Len(SubSeq(c, i, i)) # 0
      BY <2>1
    <3> QED  BY <3>1, <3>2, Zenon
  <2>3. (IF i < Len(c) THEN i ELSE Len(c)) = i
    BY <1>1, <1>2
  <2> QED  BY <1>1, <1>2, <2>1, <2>2, <2>3
<1>3. CASE Len(c) < i
  <2>1. (IF i < Len(c) THEN i ELSE Len(c)) = Len(c) /\ ~(i <= Len(c))
    BY <1>1, <1>3
  <2>2. SubSeq(c, i, Len(c)) = <<>>
    BY <1>1, <1>3, SubSeqEmpty
  <2> QED  BY <1>1, <2>1, <2>2
<1> QED  BY <1>1, <1>2, <1>3

\* What a read of one byte returns.
LEMMA ByteReadIs ==
  ASSUME TypeOK, NEW r, NEW i \in Positions
  PROVE  ByteRead(r, i) = IF i <= Len(Content(r)) THEN Content(r)[i] ELSE Zero
<1>1. Content(r) \in Seq(Bytes) /\ i \in Nat /\ i > 0
  BY ContentType, ContentsFacts, SizesAssumption DEF Positions
<1> QED  BY <1>1, OneElement DEF ByteRead, RangeRead

-----------------------------------------------------------------------------
(* Files and their replicas                                                *)

\* A file's entry is one.
LEMMA FileEntries ==
  ASSUME TypeOK, NEW p \in Locations, IsFile(tree, p)
  PROVE  tree[p] \in FileEntry
  BY DEF TypeOK, IsFile, Entry, NoEntry, Dir

\* A new file is placed on at least one node, under its own name.
LEMMA Selected ==
  ASSUME NEW p \in Paths, NEW id \in FileIds
  PROVE  /\ selectDataNodes(Nodes, p, id) \in Seq(Replica)
         /\ selectDataNodes(Nodes, p, id) # <<>>
         /\ \A r \in ToSet(selectDataNodes(Nodes, p, id)) : r.remote = id
<1> DEFINE s == selectDataNodes(Nodes, p, id)
<1>1. Nodes \in Seq(Addrs) /\ Nodes # <<>>
  BY NodesAssumption
<1>2. s \in Seq(Replica) /\ \A r \in ToSet(s) : r.remote = id
  BY <1>1, SelectDataNodesType
<1>3. Len(Nodes) \in Nat \ {0}
  BY <1>1, EmptySeq, LenProperties
<1>4. PICK n \in Nat \ {0} : DOMAIN s = 1..n
  BY <1>3, ReplicaAssumption DEF selectDataNodes
<1>5. s # <<>>
  <2>1. 1 \in DOMAIN s
    BY <1>4
  <2>2. 1 \notin DOMAIN <<>>
    OBVIOUS
  <2> QED  BY <2>1, <2>2, Zenon
<1> QED  BY <1>2, <1>5

\* The first of a list is in it.
LEMMA HeadElement ==
  ASSUME NEW S, NEW s \in Seq(S), s # <<>>
  PROVE  Head(s) \in ToSet(s)
<1>1. Len(s) \in Nat /\ Len(s) # 0 /\ DOMAIN s = 1..Len(s)
  BY EmptySeq, LenProperties
<1>2. Head(s) = s[1] /\ 1 \in DOMAIN s
  BY <1>1, HeadTailProperties
<1> QED  BY <1>2 DEF ToSet

IsPlaced(replicas) == \E id \in DOMAIN placed : replicas = placed[id]

\* What thread state s and the placement of files (on) have to do with each other.
\* Changes go to replicas of their file, those through a handle stay within the
\* bound on lengths, and truncations reach up to it.
Agrees(s, on) ==
  /\ s.pc = "locate" =>
       s.replicas = <<>> \/ \E id \in DOMAIN on : s.replicas = on[id]
  /\ s.pc \in {"write", "trunc", "put"} =>
       s.id \in DOMAIN on /\ s.todo \subseteq ToSet(on[s.id])
  /\ s.pc \in {"write", "trunc"} => s.h \in Handles /\ s.at + s.length <= MaxLen
  /\ s.pc = "trunc" => s.val = Zero /\ s.at + s.length = MaxLen

\* Replicas are those that CreateFile chose for their identity, in the tree and
\* in the hands of threads and handles.
Placement ==
  /\ \A id \in DOMAIN placed :
       placed[id] # <<>> /\ \A r \in ToSet(placed[id]) : r.remote = id
  /\ \A p \in Locations : IsFile(tree, p) =>
       tree[p].fileID \in DOMAIN placed /\ IsPlaced(tree[p].replicas)
  /\ \A h \in Handles : fh[h].open => IsPlaced(fh[h].replicas)
  /\ \A t \in Threads : Agrees(op[t], placed)
  /\ \A r \in DOMAIN data : r.remote \in DOMAIN placed

\* What has been placed tells whose it is.
LEMMA PlacedIds ==
  ASSUME TypeOK, Placement, NEW replicas, IsPlaced(replicas)
  PROVE  /\ IdOf(replicas) \in DOMAIN placed /\ placed[IdOf(replicas)] = replicas
         /\ IdOf(replicas) \in FileIds
         /\ replicas # <<>> /\ replicas \in Seq(Replica)
         /\ \A r \in ToSet(replicas) : r.remote = IdOf(replicas)
<1>1. PICK id \in DOMAIN placed : replicas = placed[id]
  BY DEF IsPlaced
<1>2. /\ replicas \in Seq(Replica) /\ replicas # <<>> /\ id \in FileIds
      /\ \A r \in ToSet(replicas) : r.remote = id
  BY <1>1 DEF TypeOK, Placement
<1>3. Head(replicas) \in ToSet(replicas)
  BY <1>2, HeadElement
<1>4. IdOf(replicas) = id
  BY <1>2, <1>3 DEF IdOf
<1> QED  BY <1>1, <1>2, <1>4

\* The file at a location and its replicas: as long as no upload has overwritten
\* it, those are its own.
LEMMA FileIsPlaced ==
  ASSUME TypeOK, Placement, NEW p \in Locations, IsFile(tree, p)
  PROVE  /\ IsPlaced(tree[p].replicas) /\ IdOf(tree[p].replicas) \in DOMAIN placed
         /\ tree[p].replicas = placed[IdOf(tree[p].replicas)]
         /\ tree[p].fileID \in LiveIds(tree) /\ tree[p].fileID \in DOMAIN placed
         /\ IdOf(tree[p].replicas) \in FileIds
<1>1. IsPlaced(tree[p].replicas)
  BY DEF Placement
<1> QED  BY <1>1, PlacedIds DEF Placement, LiveIds

-----------------------------------------------------------------------------
(* What a step does to the tree, to handles and to threads                 *)

NoNewFiles == placed' = placed /\ FilesFrom(tree', tree)

\* CreateFile places replicas named id for the file at p: a new one, or one that
\* is overwritten, which keeps its FileID.
NewReplicasAt(p, id) ==
  /\ p \in Paths /\ id \in FileIds /\ id \notin DOMAIN placed
  /\ ~IsDir(tree, p)
  /\ placed' = Placed(id, selectDataNodes(Nodes, p, id))
  /\ IsFile(tree', p)
  /\ tree'[p].fileID = IF IsFile(tree, p) THEN tree[p].fileID ELSE id
  /\ tree'[p].replicas = selectDataNodes(Nodes, p, id)
  /\ IsFile(tree, p) => p \in touched'
  /\ \A q \in Locations \ {p} : tree'[q] = tree[q]

LEMMA CreatesFile ==
  ASSUME TypeOK, NEW p \in Paths, NEW id \in FileIds, id \notin DOMAIN placed,
         NEW size \in Sizes, NEW mode, CanCreateFile(tree, p, mode),
         placed' = Placed(id, selectDataNodes(Nodes, p, id)),
         tree' = applyCreateFile(tree, p, id, size, selectDataNodes(Nodes, p, id)),
         IsFile(tree, p) => p \in touched'
  PROVE  /\ tree' \in [Locations -> Entry] /\ NewReplicasAt(p, id)
         /\ tree'[p].size = size
<1> DEFINE replicas == selectDataNodes(Nodes, p, id)
           x == IF IsFile(tree, p) THEN tree[p].fileID ELSE id
<1>1. p \in Locations /\ tree \in [Locations -> Entry] /\ replicas \in Seq(Replica)
  BY Selected DEF Locations, TypeOK
<1>2. tree' = [tree EXCEPT ![p] = NewFile(x, size, replicas)]
  BY DEF applyCreateFile
<1>3. tree' \in [Locations -> Entry]
  BY <1>1, CreateFileType
<1>4. ~IsDir(tree, p)
  BY DEF CanCreateFile
<1> HIDE DEF replicas, x
<1>5. tree'[p] = NewFile(x, size, replicas) /\ \A q \in Locations \ {p} : tree'[q] = tree[q]
  BY <1>1, <1>2
<1>6. /\ IsFile(tree', p) /\ tree'[p].fileID = x /\ tree'[p].replicas = replicas
      /\ tree'[p].size = size
  BY <1>5 DEF NewFile, IsFile
<1> QED  BY <1>3, <1>4, <1>5, <1>6 DEF NewReplicasAt, replicas, x

\* Both ways to call CreateFile are such steps.
LEMMA OpenCreates ==
  ASSUME TypeOK, NEW t \in Threads, NEW id \in FileIds, NEW answered, OpenCreate(t, id, answered)
  PROVE  LET p == op[t].path IN
         /\ tree' \in [Locations -> Entry] /\ NewReplicasAt(p, id) /\ ~IsFile(tree, p)
         /\ tree'[p].size = 0
<1>1. op[t].path \in Paths
  BY ThreadStates DEF OpenCreate, TypeOK, CreateState
<1>2. 0 \in Sizes
  BY SizesAssumption
<1>3. ~IsFile(tree, op[t].path)
  BY DEF OpenCreate, CanCreateFile
<1> QED  BY <1>1, <1>2, <1>3, CreatesFile DEF OpenCreate

LEMMA PutCreates ==
  ASSUME TypeOK, NEW t \in Threads, NEW p \in Paths, NEW id \in FileIds, NEW mode,
         NEW length \in Lengths, NEW mark, NEW answered,
         PutStart(t, p, id, mode, length, mark, answered)
  PROVE  /\ tree' \in [Locations -> Entry] /\ NewReplicasAt(p, id)
         /\ tree'[p].size = length
<1>1. length \in Sizes
  BY LengthsAssumption
<1>2. IsFile(tree, p) => p \in touched'
  BY DEF PutStart
<1> QED  BY <1>1, <1>2, CreatesFile DEF PutStart

\* What other steps do to the tree leaves the files what they are.
LEMMA TreeSteps ==
  ASSUME TypeOK, [Next]_vars
  PROVE  /\ tree' \in [Locations -> Entry]
         /\ NoNewFiles \/ \E p \in Paths, id \in FileIds : NewReplicasAt(p, id)
<1> DEFINE Goal == /\ tree' \in [Locations -> Entry]
                   /\ NoNewFiles \/ \E p \in Paths, id \in FileIds : NewReplicasAt(p, id)
<1>0. tree \in [Locations -> Entry] /\ Paths \subseteq Locations
  BY DEF TypeOK, Locations
<1>a. ASSUME tree' = tree, placed' = placed PROVE Goal
  BY <1>0, <1>a DEF NoNewFiles, FilesFrom
<1>b. ASSUME tree' \in [Locations -> Entry], placed' = placed, FilesFrom(tree', tree)
      PROVE  Goal
  BY <1>b DEF NoNewFiles
<1>c. ASSUME NEW p \in Paths, NEW id \in FileIds, tree' \in [Locations -> Entry],
             NewReplicasAt(p, id)
      PROVE  Goal
  BY <1>c
<1>d. ASSUME NEW p, CanCompleteFile(tree, p), tree' = applyCompleteFile(tree, p),
             placed' = placed
      PROVE  Goal
  <2>1. CASE p \in Locations
    BY <1>0, <1>b, <1>d, <2>1, CompleteFileFiles, CompleteFileType
  <2>2. CASE p \notin Locations
    BY <1>0, <1>a, <1>d, <2>2 DEF applyCompleteFile
  <2> QED  BY <2>1, <2>2
<1>1. ASSUME NEW t \in Threads, OpenNext(t) \/ ChangeNext(t) \/ CloseNext(t) PROVE Goal
  <2>1. ASSUME NEW id \in FileIds, NEW answered \in BOOLEAN, OpenCreate(t, id, answered)
        PROVE  Goal
    <3>1. op[t].path \in Paths
      BY <2>1, ThreadStates DEF OpenCreate, TypeOK, CreateState
    <3> QED  BY <1>c, <2>1, <3>1, OpenCreates
  <2>2. CASE WriteSize(t) \/ \E answered \in BOOLEAN : TruncateSize(t, answered)
    <3>1. /\ op[t].pc \in {"size", "cut"}
          /\ CanUpdateSize(tree, op[t].path) /\ placed' = placed
          /\ tree' = applyUpdateSize(tree, op[t].path, op[t].size)
      BY <2>2 DEF WriteSize, TruncateSize
    <3>2. op[t].path \in Paths /\ op[t].size \in Sizes
      BY <3>1, ThreadStates DEF TypeOK, SizeState
    <3> QED  BY <1>0, <1>b, <3>1, <3>2, UpdateSizeFiles, UpdateSizeType
  <2>3. ASSUME NEW answered \in BOOLEAN, CloseComplete(t, answered) PROVE Goal
    BY <1>d, <2>3 DEF CloseComplete
  <2>4. CASE UNCHANGED <<tree, placed>>
    BY <1>a, <2>4
  <2> QED
    BY <1>1, <2>1, <2>2, <2>3, <2>4
       DEF OpenNext, ChangeNext, CloseNext, OpenStat, OpenTruncate, TruncateFile, OpenLocate,
           WriteStart, Truncate, NodeChanges, NodeFails, WriteSettle, TruncateSettle,
           ChangeAborts, Close, CallFails
<1>2. CASE Crash \/ (\E r \in DOMAIN data : Reclaim(r)) \/ UNCHANGED vars
  BY <1>a, <1>2 DEF Crash, Reclaim, vars
<1>3. ASSUME NEW src \in Paths, NEW dst \in Paths, Rename(src, dst) PROVE Goal
  BY <1>0, <1>b, <1>3, RenameFiles, RenameType DEF Rename
<1>4. ASSUME NEW p \in Paths, Unlink(p) PROVE Goal
  BY <1>0, <1>b, <1>4, DeleteFiles, DeleteType DEF Unlink
<1>5. ASSUME NEW t \in Threads, PutNext(t) PROVE Goal
  <2>1. ASSUME NEW p \in Paths, NEW id \in FileIds, NEW mode \in Modes, NEW length \in Lengths,
               NEW mark \in Marks, NEW answered \in BOOLEAN,
               PutStart(t, p, id, mode, length, mark, answered)
        PROVE  Goal
    BY <1>c, <2>1, PutCreates
  <2>2. CASE PutComplete(t)
    BY <1>d, <2>2 DEF PutComplete
  <2>3. CASE PutUndo(t)
    BY <1>0, <1>b, <2>3, DeleteFiles, DeleteType DEF PutUndo
  <2>4. CASE PutSettle(t) \/ PutStops(t)
    BY <1>a, <2>4 DEF PutSettle, PutStops
  <2> QED  BY <1>5, <2>1, <2>2, <2>3, <2>4 DEF PutNext
<1> QED
  BY <1>1, <1>2, <1>3, <1>4, <1>5 DEF Next, OthersNext

\* Placements are made once.
LEMMA PlacementsStay ==
  ASSUME TypeOK, [Next]_vars
  PROVE  /\ DOMAIN placed' \subseteq FileIds
         /\ \A id \in DOMAIN placed' : placed'[id] \in Seq(Replica)
         /\ \A id \in DOMAIN placed : id \in DOMAIN placed' /\ placed'[id] = placed[id]
         /\ \A id \in DOMAIN placed' \ DOMAIN placed :
              placed'[id] # <<>> /\ \A r \in ToSet(placed'[id]) : r.remote = id
<1>1. CASE placed' = placed
  BY <1>1 DEF TypeOK
<1>2. ASSUME NEW p \in Paths, NEW id \in FileIds, NewReplicasAt(p, id)
      PROVE  /\ DOMAIN placed' = DOMAIN placed \cup {id}
             /\ placed'[id] = selectDataNodes(Nodes, p, id)
             /\ \A x \in DOMAIN placed : placed'[x] = placed[x]
  BY <1>2 DEF NewReplicasAt, Placed
<1>3. CASE \E p \in Paths, id \in FileIds : NewReplicasAt(p, id)
  <2>1. PICK p \in Paths, id \in FileIds : NewReplicasAt(p, id)
    BY <1>3
  <2>2. /\ DOMAIN placed' = DOMAIN placed \cup {id}
        /\ placed'[id] = selectDataNodes(Nodes, p, id)
        /\ \A x \in DOMAIN placed : placed'[x] = placed[x]
        /\ id \notin DOMAIN placed
    BY <1>2, <2>1 DEF NewReplicasAt
  <2> QED  BY <2>2, Selected DEF TypeOK
<1> QED  BY <1>1, <1>3, TreeSteps DEF NoNewFiles

\* A thread agrees with a placement also when more files have been placed.
LEMMA AgreesMore ==
  ASSUME NEW s \in ThreadState, NEW on, NEW on2, Agrees(s, on),
         \A id \in DOMAIN on : id \in DOMAIN on2 /\ on2[id] = on[id]
  PROVE  Agrees(s, on2)
<1>1. \A id \in DOMAIN on : id \in DOMAIN on2 /\ on2[id] = on[id]
  OBVIOUS
<1> QED  BY <1>1 DEF Agrees

\* States that have to do with no placement agree with all.
LEMMA AgreesAnyway ==
  ASSUME NEW s, s.pc \notin {"locate", "write", "trunc", "put"}, NEW on
  PROVE  Agrees(s, on)
  BY DEF Agrees

\* A change that goes on, with fewer replicas to do or more changes seen, agrees.
LEMMA AgreesOnward ==
  ASSUME NEW o \in ChangeState, NEW on, Agrees(o, on), NEW o2,
         o2.pc = o.pc, o2.h = o.h, o2.id = o.id, o2.val = o.val, o2.at = o.at,
         o2.length = o.length, o2.todo \subseteq o.todo
  PROVE  Agrees(o2, on)
<1>1. o.pc \in {"write", "trunc", "put"}
  BY DEF ChangeState
<1> QED  BY <1>1 DEF Agrees

\* A change after the answer of a node, or the lack of it.
Answered(o, o2, r) ==
  /\ o2 \in ChangeState /\ o2.todo = o.todo \ {r}
  /\ o2.pc = o.pc /\ o2.h = o.h /\ o2.path = o.path /\ o2.id = o.id /\ o2.val = o.val
  /\ o2.at = o.at /\ o2.length = o.length /\ o2.seen = o.seen

\* The calls to the nodes leave a change what it is.
LEMMA NodeAnswers ==
  ASSUME TypeOK, NEW t \in Threads, NEW r,
         NodeFails(t, r) \/ \E acknowledged \in BOOLEAN : NodeChanges(t, r, acknowledged)
  PROVE  /\ Changing(t) /\ op[t] \in ChangeState /\ Answered(op[t], op'[t], r)
         /\ r \in op[t].todo
         /\ ~op'[t].failed => ~op[t].failed /\ ~NodeFails(t, r)
         /\ op' \in [Threads -> ThreadState]
         /\ \A x \in Threads \ {t} : op'[x] = op[x]
         /\ touched \subseteq touched'
<1>1. Changing(t) /\ op[t] \in ChangeState /\ r \in op[t].todo
  BY ThreadStates DEF NodeChanges, NodeFails, Changing, TypeOK
<1>0. op[t].failed \in BOOLEAN /\ op[t].acked \in BOOLEAN
  BY <1>1 DEF ChangeState
<1>2. CASE NodeFails(t, r)
  <2>1. op' = [op EXCEPT ![t].todo = @ \ {r}, ![t].failed = TRUE]
    BY <1>2 DEF NodeFails
  <2>2. /\ op'[t] = [op[t] EXCEPT !.todo = op[t].todo \ {r}, !.failed = TRUE]
        /\ \A x \in Threads \ {t} : op'[x] = op[x]
        /\ op' = [x \in Threads |-> op'[x]]
    BY <2>1 DEF TypeOK
  <2> DEFINE o == op[t]
             o2 == op'[t]
  <2>6. o \in ChangeState /\ o2 = [o EXCEPT !.todo = o.todo \ {r}, !.failed = TRUE]
    BY <1>1, <2>2
  <2> HIDE DEF o, o2
  <2>7. Answered(o, o2, r) /\ o2.failed = TRUE
    <3>1. o.todo \ {r} \in SUBSET Replica
      BY <2>6 DEF ChangeState
    <3> QED  BY <2>6, <3>1 DEF ChangeState, Answered
  <2>3. Answered(op[t], op'[t], r) /\ op'[t].failed = TRUE
    BY <2>7 DEF o, o2
  <2>4. op' \in [Threads -> ThreadState]
    BY <2>2, <2>3 DEF Answered, TypeOK, ThreadState
  <2>5. touched' = touched
    BY <1>2 DEF NodeFails
  <2> QED  BY <1>1, <2>2, <2>3, <2>4, <2>5
<1>3. ASSUME NEW acknowledged \in BOOLEAN, NodeChanges(t, r, acknowledged), ~NodeFails(t, r)
      PROVE  /\ Answered(op[t], op'[t], r)
             /\ ~op'[t].failed => ~op[t].failed /\ ~NodeFails(t, r)
             /\ op' \in [Threads -> ThreadState]
             /\ \A x \in Threads \ {t} : op'[x] = op[x]
             /\ touched \subseteq touched'
  <2> DEFINE f == op[t].failed \/ ~acknowledged
             a == op[t].acked \/ (acknowledged /\ op[t].pc = "put")
  <2>1. op' = [op EXCEPT ![t].todo = @ \ {r}, ![t].failed = @ \/ ~acknowledged,
                         ![t].acked = @ \/ (acknowledged /\ op[t].pc = "put")]
    BY <1>3 DEF NodeChanges
  <2>2. /\ op'[t] = [op[t] EXCEPT !.todo = op[t].todo \ {r}, !.failed = f, !.acked = a]
        /\ \A x \in Threads \ {t} : op'[x] = op[x]
        /\ op' = [x \in Threads |-> op'[x]]
    BY <2>1 DEF TypeOK
  <2>3. f \in BOOLEAN /\ a \in BOOLEAN /\ (~f => ~op[t].failed)
    BY <1>0
  <2> HIDE DEF f, a
  <2> DEFINE o == op[t]
             o2 == op'[t]
  <2>7. /\ o \in ChangeState
        /\ o2 = [o EXCEPT !.todo = o.todo \ {r}, !.failed = f, !.acked = a]
    BY <1>1, <2>2
  <2> HIDE DEF o, o2
  <2>8. Answered(o, o2, r) /\ o2.failed = f
    <3>1. o.todo \ {r} \in SUBSET Replica
      BY <2>7 DEF ChangeState
    <3> QED  BY <2>3, <2>7, <3>1 DEF ChangeState, Answered
  <2>4. Answered(op[t], op'[t], r) /\ op'[t].failed = f
    BY <2>8 DEF o, o2
  <2>5. op' \in [Threads -> ThreadState]
    BY <2>2, <2>4 DEF Answered, TypeOK, ThreadState
  <2>6. touched \subseteq touched'
    BY <1>3 DEF NodeChanges
  <2> QED  BY <1>3, <2>2, <2>3, <2>4, <2>5, <2>6
<1> QED  BY <1>1, <1>2, <1>3

\* The change that a WriteAt starts, a truncation, and an upload.
WriteOp(h, offset, length, mark) ==
  [pc |-> "write", h |-> h, path |-> fh[h].path, id |-> IdOf(fh[h].replicas),
   val |-> mark, at |-> offset, length |-> length,
   todo |-> ToSet(fh[h].replicas), failed |-> FALSE, acked |-> FALSE,
   seen |-> NothingSeen]

TruncOp(h, p, size) ==
  [pc |-> "trunc", h |-> h, path |-> p, id |-> IdOf(tree[p].replicas),
   val |-> Zero, at |-> size, length |-> MaxLen - size,
   todo |-> ToSet(tree[p].replicas), failed |-> FALSE, acked |-> FALSE,
   seen |-> NothingSeen]

PutOp(p, id, length, mark) ==
  [pc |-> "put", h |-> NoHandle, path |-> p, id |-> id,
   val |-> mark, at |-> 0, length |-> length,
   todo |-> ToSet(selectDataNodes(Nodes, p, id)), failed |-> FALSE, acked |-> FALSE,
   seen |-> NothingSeen]

LEMMA NothingSeenType == NothingSeen \in [Positions -> SUBSET Bytes]
BY DEF NothingSeen

\* They start on all replicas of one file.
LEMMA WriteOpFacts ==
  ASSUME TypeOK, Placement, NEW h \in Handles, fh[h].open, NEW offset \in Sizes,
         NEW length \in Lengths, NEW mark \in Marks, offset + length <= MaxLen
  PROVE  LET o == WriteOp(h, offset, length, mark) IN
         /\ o \in ChangeState /\ Agrees(o, placed)
         /\ o.id \in DOMAIN placed /\ o.todo = ToSet(placed[o.id])
<1> DEFINE rs == fh[h].replicas
<1>1. fh[h] \in OpenHandle /\ IsPlaced(rs)
  BY HandleStates DEF TypeOK, Placement
<1>2. /\ fh[h].path \in Paths /\ IdOf(rs) \in FileIds /\ rs \in Seq(Replica)
      /\ IdOf(rs) \in DOMAIN placed /\ placed[IdOf(rs)] = rs
  BY <1>1, PlacedIds DEF OpenHandle
<1>3. ToSet(rs) \subseteq Replica
  BY <1>2 DEF ToSet
<1>4. length \in Sizes /\ mark \in Bytes
  BY LengthsAssumption, SizesAssumption DEF Bytes
<1>5. NothingSeen \in [Positions -> SUBSET Bytes]
  BY NothingSeenType
<1> HIDE DEF rs
<1> QED  BY <1>2, <1>3, <1>4, <1>5 DEF WriteOp, ChangeState, Agrees, rs

LEMMA TruncOpFacts ==
  ASSUME TypeOK, Placement, NEW h \in Handles, NEW p \in Paths, IsFile(tree, p),
         NEW size \in Sizes
  PROVE  LET o == TruncOp(h, p, size) IN
         /\ o \in ChangeState /\ Agrees(o, placed)
         /\ o.id = IdOf(tree[p].replicas)
         /\ o.id \in DOMAIN placed /\ o.todo = ToSet(placed[o.id])
<1> DEFINE rs == tree[p].replicas
<1>1. p \in Locations
  BY DEF Locations
<1>2. IsPlaced(rs)
  BY <1>1, FileIsPlaced
<1>3. /\ IdOf(rs) \in FileIds /\ rs \in Seq(Replica)
      /\ IdOf(rs) \in DOMAIN placed /\ placed[IdOf(rs)] = rs
  BY <1>2, PlacedIds
<1>4. ToSet(rs) \subseteq Replica
  BY <1>3 DEF ToSet
<1>5. MaxLen - size \in Sizes /\ size + (MaxLen - size) = MaxLen /\ Zero \in Bytes
      /\ MaxLen <= MaxLen
  BY SizesAssumption DEF Bytes
<1>6. NothingSeen \in [Positions -> SUBSET Bytes]
  BY NothingSeenType
<1> HIDE DEF rs
<1> QED  BY <1>2, <1>3, <1>4, <1>5, <1>6 DEF TruncOp, ChangeState, Agrees, rs

LEMMA PutOpFacts ==
  ASSUME NEW p \in Paths, NEW id \in FileIds, NEW length \in Lengths, NEW mark \in Marks,
         placed' = Placed(id, selectDataNodes(Nodes, p, id))
  PROVE  LET o == PutOp(p, id, length, mark) IN
         o \in ChangeState /\ Agrees(o, placed') /\ o.todo = ToSet(placed'[o.id])
<1> DEFINE rs == selectDataNodes(Nodes, p, id)
           S == ToSet(rs)
<1>1. id \in DOMAIN placed' /\ placed'[id] = rs
  BY DEF Placed
<1>2. S \subseteq Replica
  BY Selected DEF ToSet
<1>3. length \in Sizes /\ mark \in Bytes /\ 0 \in Sizes
  BY LengthsAssumption, SizesAssumption DEF Bytes
<1>4. NothingSeen \in [Positions -> SUBSET Bytes]
  BY NothingSeenType
<1>5. S = ToSet(placed'[id])
  BY <1>1
<1> HIDE DEF S
<1> DEFINE o == PutOp(p, id, length, mark)
<1>6. /\ o.pc = "put" /\ o.id = id /\ o.todo = S
      /\ o.at = 0 /\ o.length = length
  BY DEF PutOp, S
<1>7. o \in ChangeState
  BY <1>2, <1>3, <1>4 DEF PutOp, ChangeState, S
<1> QED  BY <1>1, <1>5, <1>6, <1>7 DEF Agrees

\* The steps that start a change.
Starts(t, o) ==
  /\ o \in ChangeState /\ Agrees(o, placed') /\ o.todo = ToSet(placed'[o.id])
  /\ ~o.failed /\ o.seen = NothingSeen
  /\ ~Changing(t) /\ Begin(t, o)
  /\ UNCHANGED <<data, fh>>
  /\ o.pc # "put" => UNCHANGED <<tree, placed>>
  /\ o.pc = "write" => \E h \in Handles :
       fh[h].open /\ o.path = fh[h].path /\ o.id = IdOf(fh[h].replicas)
  /\ o.pc = "trunc" =>
       IsFile(tree, o.path) /\ o.id = IdOf(tree[o.path].replicas) /\ o.path \in touched'
  /\ o.pc = "put" =>
       NewReplicasAt(o.path, o.id) /\ tree'[o.path].size = o.length /\ o.at = 0
  /\ o.pc = "write" /\ o.length = 0 => o.path \in touched'
  /\ touched \subseteq touched'

LEMMA Truncates ==
  ASSUME TypeOK, Placement, NEW t \in Threads, ~Changing(t), NEW h \in Handles,
         NEW p \in Paths, NEW size \in Sizes, TruncateFile(t, h, p, size)
  PROVE  \E o \in ChangeState : Starts(t, o)
<1> DEFINE o == TruncOp(h, p, size)
<1>1. /\ IsFile(tree, p) /\ Begin(t, o) /\ touched' = touched \cup {p}
      /\ UNCHANGED <<tree, placed, data, fh>>
  BY DEF TruncateFile, TruncOp
<1>2. /\ o \in ChangeState /\ Agrees(o, placed) /\ o.id = IdOf(tree[p].replicas)
      /\ o.todo = ToSet(placed[o.id])
  BY <1>1, TruncOpFacts
<1>3. o.pc = "trunc" /\ o.path = p /\ ~o.failed /\ o.seen = NothingSeen
  BY DEF TruncOp
<1> HIDE DEF o
<1> QED  BY <1>1, <1>2, <1>3 DEF Starts

LEMMA WriteStarts ==
  ASSUME TypeOK, Placement, NEW t \in Threads, NEW h \in Handles, NEW offset \in Sizes,
         NEW length \in Lengths, NEW mark \in Marks, WriteStart(t, h, offset, length, mark)
  PROVE  \E o \in ChangeState : Starts(t, o)
<1> DEFINE o == WriteOp(h, offset, length, mark)
<1>1. /\ op[t] = Idle /\ fh[h].open /\ offset + length <= MaxLen /\ Begin(t, o)
      /\ UNCHANGED <<tree, placed, data, fh>>
      /\ touched' = IF length = 0 THEN touched \cup {fh[h].path} ELSE touched
  BY DEF WriteStart, Usable, WriteOp
<1>2. o \in ChangeState /\ Agrees(o, placed) /\ o.todo = ToSet(placed[o.id])
  BY <1>1, WriteOpFacts
<1>3. /\ o.pc = "write" /\ o.path = fh[h].path /\ o.id = IdOf(fh[h].replicas)
      /\ ~o.failed /\ o.seen = NothingSeen /\ o.length = length
  BY DEF WriteOp
<1>4. ~Changing(t)
  BY <1>1 DEF Changing, Idle
<1> HIDE DEF o
<1> QED  BY <1>1, <1>2, <1>3, <1>4 DEF Starts

LEMMA PutStarts ==
  ASSUME TypeOK, NEW t \in Threads, NEW p \in Paths, NEW id \in FileIds, NEW mode,
         NEW length \in Lengths, NEW mark \in Marks, NEW answered \in BOOLEAN,
         PutStart(t, p, id, mode, length, mark, answered)
  PROVE  \/ \E o \in ChangeState : Starts(t, o)
         \/ UNCHANGED <<op, cand, data, fh>>
<1> DEFINE o == PutOp(p, id, length, mark)
<1>1. /\ NewReplicasAt(p, id) /\ tree'[p].size = length
      /\ placed' = Placed(id, selectDataNodes(Nodes, p, id))
      /\ UNCHANGED <<data, fh>> /\ op[t] = Idle /\ touched \subseteq touched'
  BY PutCreates DEF PutStart
<1>2. o \in ChangeState /\ Agrees(o, placed') /\ o.todo = ToSet(placed'[o.id])
  BY <1>1, PutOpFacts
<1>3. /\ o.pc = "put" /\ o.path = p /\ o.id = id /\ ~o.failed /\ o.seen = NothingSeen
      /\ o.at = 0 /\ o.length = length
  BY DEF PutOp
<1>4. Begin(t, o) \/ UNCHANGED <<op, cand>>
  BY DEF PutStart, PutOp
<1>5. ~Changing(t)
  BY <1>1 DEF Changing, Idle
<1> HIDE DEF o
<1>6. CASE Begin(t, o)
  BY <1>1, <1>2, <1>3, <1>5, <1>6 DEF Starts
<1> QED  BY <1>1, <1>4, <1>6

\* Which steps start a change.
LEMMA StartSteps ==
  ASSUME TypeOK, Placement, NEW t \in Threads,
         \/ OpenTruncate(t)
         \/ \E h \in Handles, offset \in Sizes, length \in Lengths, mark \in Marks :
              WriteStart(t, h, offset, length, mark)
         \/ \E h \in Handles, size \in Cuts : Truncate(t, h, size)
  PROVE  \E o \in ChangeState : Starts(t, o)
<1>1. CASE OpenTruncate(t)
  <2>1. op[t].pc = "empty" /\ op[t] \in EmptyState
    BY <1>1, ThreadStates DEF OpenTruncate, TypeOK
  <2>2. ~Changing(t) /\ op[t].h \in Handles /\ op[t].path \in Paths /\ 0 \in Sizes
    BY <2>1, SizesAssumption DEF EmptyState, Changing
  <2> QED  BY <1>1, <2>2, Truncates DEF OpenTruncate
<1>2. ASSUME NEW h \in Handles, NEW size \in Cuts, Truncate(t, h, size)
      PROVE  \E o \in ChangeState : Starts(t, o)
  <2>1. op[t] = Idle /\ fh[h].open /\ TruncateFile(t, h, fh[h].path, size)
    BY <1>2 DEF Truncate, Usable
  <2>2. fh[h] \in OpenHandle
    BY <2>1, HandleStates DEF TypeOK
  <2>3. fh[h].path \in Paths /\ size \in Sizes
    BY <2>2, CutsAssumption DEF OpenHandle
  <2>4. ~Changing(t)
    BY <2>1 DEF Changing, Idle
  <2> QED  BY <2>1, <2>3, <2>4, Truncates
<1> QED  BY <1>1, <1>2, WriteStarts

\* What else a thread may do: go on to a state that is not a change.
Proceeds(t, s) ==
  /\ s \in ThreadState /\ s.pc \notin {"write", "trunc", "put"}
  /\ Agrees(s, placed')
  /\ op' = [op EXCEPT ![t] = s]

LEMMA ProceedSteps ==
  ASSUME TypeOK, Placement, [Next]_vars, NEW t \in Threads,
         \/ \E h \in Handles, p \in Paths, flags \in Flags : OpenStat(t, h, p, flags)
         \/ \E id \in FileIds, answered \in BOOLEAN : OpenCreate(t, id, answered)
         \/ OpenLocate(t) \/ WriteSettle(t) \/ TruncateSettle(t) \/ ChangeAborts(t)
         \/ WriteSize(t) \/ (\E answered \in BOOLEAN : TruncateSize(t, answered))
         \/ (\E h \in Handles : Close(t, h) /\ fh[h].status = "pending")
         \/ (\E answered \in BOOLEAN : CloseComplete(t, answered))
         \/ CallFails(t)
         \/ PutSettle(t) \/ PutComplete(t) \/ PutUndo(t) \/ PutStops(t)
  PROVE  \E s \in ThreadState : Proceeds(t, s)
<1>0. op[t] \in ThreadState
  BY DEF TypeOK
<1>a. ASSUME NEW s \in ThreadState, s.pc \notin {"locate", "write", "trunc", "put"},
             op' = [op EXCEPT ![t] = s]
      PROVE  \E x \in ThreadState : Proceeds(t, x)
  BY <1>a, AgreesAnyway DEF Proceeds
<1>b. Idle \in ThreadState /\ Idle.pc = "idle"
  BY DEF ThreadState, Idle
<1>c. ASSUME NEW s \in LocateState, op' = [op EXCEPT ![t] = s],
             s.replicas = <<>> \/ \E id \in DOMAIN placed' : s.replicas = placed'[id]
      PROVE  \E x \in ThreadState : Proceeds(t, x)
  <2>1. s \in ThreadState /\ s.pc = "locate"
    BY DEF ThreadState, LocateState
  <2> QED  BY <1>c, <2>1 DEF Proceeds, Agrees
<1>1. ASSUME NEW h \in Handles, NEW p \in Paths, NEW flags \in Flags,
             OpenStat(t, h, p, flags)
      PROVE  \E x \in ThreadState : Proceeds(t, x)
  <2>1. CASE op' = [op EXCEPT ![t] = [pc |-> "create", h |-> h, path |-> p]]
    <3>1. [pc |-> "create", h |-> h, path |-> p] \in CreateState
      BY DEF CreateState
    <3> QED  BY <1>a, <2>1, <3>1 DEF ThreadState
  <2>2. CASE op' = [op EXCEPT ![t] = [pc |-> "empty", h |-> h, path |-> p]]
    <3>1. [pc |-> "empty", h |-> h, path |-> p] \in EmptyState
      BY DEF EmptyState
    <3> QED  BY <1>a, <2>2, <3>1 DEF ThreadState
  <2>3. CASE /\ IsFile(tree, p)
             /\ op' = [op EXCEPT ![t] =
                  [pc |-> "locate", h |-> h, path |-> p, size |-> tree[p].size,
                   replicas |-> <<>>, status |-> ""]]
    <3>1. tree[p] \in FileEntry
      BY <2>3, FileEntries DEF Locations
    <3>2. tree[p].size \in Sizes /\ <<>> \in Seq(Replica)
      BY <3>1, EmptySeq DEF FileEntry
    <3>3. [pc |-> "locate", h |-> h, path |-> p, size |-> tree[p].size,
           replicas |-> <<>>, status |-> ""] \in LocateState
      BY <3>2 DEF LocateState
    <3> QED  BY <1>c, <2>3, <3>3
  <2> QED  BY <1>1, <2>1, <2>2, <2>3 DEF OpenStat
<1>2. ASSUME NEW id \in FileIds, NEW answered \in BOOLEAN, OpenCreate(t, id, answered)
      PROVE  \E x \in ThreadState : Proceeds(t, x)
  <2> DEFINE rs == selectDataNodes(Nodes, op[t].path, id)
             s == [pc |-> "locate", h |-> op[t].h, path |-> op[t].path, size |-> 0,
                   replicas |-> rs, status |-> "pending"]
  <2>1. op[t] \in CreateState
    BY <1>0, <1>2, ThreadStates DEF OpenCreate
  <2>2. rs \in Seq(Replica) /\ 0 \in Sizes
    BY <2>1, Selected, SizesAssumption DEF CreateState
  <2>3. placed' = Placed(id, rs) /\ op' = [op EXCEPT ![t] = IF answered THEN s ELSE Idle]
    BY <1>2 DEF OpenCreate
  <2>4. id \in DOMAIN placed' /\ placed'[id] = rs
    BY <2>3 DEF Placed
  <2>5. CASE answered
    <3> HIDE DEF rs
    <3>1. s \in LocateState
      BY <2>1, <2>2 DEF LocateState, CreateState
    <3> QED  BY <1>c, <2>3, <2>4, <2>5, <3>1
  <2>6. CASE ~answered
    BY <1>a, <1>b, <2>3, <2>6
  <2> QED  BY <2>5, <2>6
<1>3. CASE \/ OpenLocate(t) \/ ChangeAborts(t) \/ WriteSize(t) \/ CallFails(t)
           \/ PutComplete(t) \/ PutUndo(t) \/ PutStops(t)
           \/ \E answered \in BOOLEAN : CloseComplete(t, answered)
  <2>1. op' = [op EXCEPT ![t] = Idle]
    BY <1>3 DEF OpenLocate, ChangeAborts, WriteSize, CallFails, CloseComplete, PutComplete,
                PutUndo, PutStops
  <2> QED  BY <1>a, <1>b, <2>1
<1>4. CASE WriteSettle(t) \/ TruncateSettle(t)
  <2>1. op[t].pc \in {"write", "trunc"} /\ op[t] \in ChangeState
    BY <1>0, <1>4, ThreadStates DEF WriteSettle, TruncateSettle
  <2>2. op[t].at + op[t].length <= MaxLen /\ op[t].h \in Handles
    BY <2>1 DEF Placement, Agrees
  <2>3. op[t].at + op[t].length \in Sizes
    BY <2>1, <2>2, SizesAssumption DEF ChangeState
  <2>4. ASSUME NEW n \in Sizes, NEW pc \in {"size", "cut"}
        PROVE  [pc |-> pc, h |-> op[t].h, path |-> op[t].path, id |-> op[t].id,
                size |-> n] \in SizeState
    BY <2>1, <2>2, <2>4 DEF SizeState, ChangeState
  <2>5. \/ op' = [op EXCEPT ![t] = Idle]
        \/ \E n \in Sizes, pc \in {"size", "cut"} :
             op' = [op EXCEPT ![t] = [pc |-> pc, h |-> op[t].h, path |-> op[t].path,
                                      id |-> op[t].id, size |-> n]]
    <3>1. CASE WriteSettle(t)
      BY <2>3, <3>1 DEF WriteSettle
    <3>2. CASE TruncateSettle(t)
      <4>1. op[t].at \in Sizes
        BY <2>1 DEF ChangeState
      <4> QED  BY <3>2, <4>1 DEF TruncateSettle
    <3> QED  BY <1>4, <3>1, <3>2
  <2>6. ASSUME NEW n \in Sizes, NEW pc \in {"size", "cut"},
               op' = [op EXCEPT ![t] = [pc |-> pc, h |-> op[t].h, path |-> op[t].path,
                                        id |-> op[t].id, size |-> n]]
        PROVE  \E x \in ThreadState : Proceeds(t, x)
    BY <1>a, <2>4, <2>6 DEF ThreadState
  <2> QED  BY <1>a, <1>b, <2>5, <2>6
<1>5. ASSUME NEW answered \in BOOLEAN, TruncateSize(t, answered)
      PROVE  \E x \in ThreadState : Proceeds(t, x)
  <2> DEFINE s == [pc |-> "locate", h |-> op[t].h, path |-> op[t].path, size |-> 0,
                   replicas |-> <<>>, status |-> ""]
  <2>1. op[t] \in SizeState
    BY <1>0, <1>5, ThreadStates DEF TruncateSize
  <2>2. s \in LocateState
    BY <2>1, SizesAssumption, EmptySeq DEF LocateState, SizeState
  <2>3. op' = [op EXCEPT ![t] = s] \/ op' = [op EXCEPT ![t] = Idle]
    BY <1>5 DEF TruncateSize
  <2> QED  BY <1>a, <1>b, <1>c, <2>2, <2>3
<1>6. ASSUME NEW h \in Handles, Close(t, h), fh[h].status = "pending"
      PROVE  \E x \in ThreadState : Proceeds(t, x)
  <2>1. op' = [op EXCEPT ![t] = [pc |-> "close", h |-> h]]
    BY <1>6 DEF Close
  <2>2. [pc |-> "close", h |-> h] \in CloseState
    BY DEF CloseState
  <2> QED  BY <1>a, <2>1, <2>2 DEF ThreadState
<1>7. CASE PutSettle(t)
  <2> DEFINE s == [pc |-> IF op[t].acked THEN "complete" ELSE "undo", h |-> NoHandle,
                   path |-> op[t].path]
  <2>1. op' = [op EXCEPT ![t] = s]
    BY <1>7 DEF PutSettle
  <2>2. op[t] \in ChangeState
    BY <1>0, <1>7, ThreadStates DEF PutSettle
  <2>3. s \in PutState
    BY <2>2 DEF PutState, ChangeState
  <2>4. s.pc \in {"complete", "undo"}
    OBVIOUS
  <2> QED  BY <1>a, <2>1, <2>3, <2>4 DEF ThreadState
<1> QED  BY <1>1, <1>2, <1>3, <1>4, <1>5, <1>6, <1>7

\* Other clients have no part in handles.
LEMMA OthersApart ==
  ASSUME OthersNext \/ UNCHANGED vars
  PROVE  UNCHANGED <<fh, op>>
<1>1. ASSUME NEW src, NEW dst, Rename(src, dst) PROVE UNCHANGED <<fh, op>>
  BY <1>1 DEF Rename
<1>2. ASSUME NEW p, Unlink(p) PROVE UNCHANGED <<fh, op>>
  BY <1>2 DEF Unlink
<1>3. ASSUME NEW r, Reclaim(r) PROVE UNCHANGED <<fh, op>>
  BY <1>3 DEF Reclaim
<1>4. CASE UNCHANGED vars
  BY <1>4 DEF vars
<1> QED  BY <1>1, <1>2, <1>3, <1>4 DEF OthersNext

\* What one step does to the threads.
ThreadStep ==
  \/ UNCHANGED op
  \/ Crash
  \/ \E t \in Threads, o \in ChangeState : Starts(t, o)
  \/ \E t \in Threads, s \in ThreadState : Proceeds(t, s)
  \/ \E t \in Threads, r \in Replica :
       NodeFails(t, r) \/ \E acknowledged \in BOOLEAN : NodeChanges(t, r, acknowledged)

LEMMA ThreadSteps ==
  ASSUME TypeOK, Placement, [Next]_vars
  PROVE  ThreadStep
<1>1. ASSUME NEW t \in Threads, NEW h \in Handles, Close(t, h) PROVE ThreadStep
  <2>1. CASE fh[h].status = "pending"
    BY <1>1, <2>1, ProceedSteps DEF ThreadStep
  <2>2. CASE fh[h].status # "pending"
    BY <1>1, <2>2 DEF Close, ThreadStep
  <2> QED  BY <2>1, <2>2
<1>2. ASSUME NEW t \in Threads, OpenNext(t) PROVE ThreadStep
  BY <1>2, ProceedSteps, StartSteps DEF OpenNext, ThreadStep
<1>3. ASSUME NEW t \in Threads, ChangeNext(t) PROVE ThreadStep
  BY <1>3, ProceedSteps, StartSteps DEF ChangeNext, ThreadStep
<1>4. ASSUME NEW t \in Threads, CloseNext(t) PROVE ThreadStep
  <2>1. CASE \E h \in Handles : Close(t, h)
    BY <1>1, <2>1
  <2>2. CASE CallFails(t) \/ \E answered \in BOOLEAN : CloseComplete(t, answered)
    BY <2>2, ProceedSteps DEF ThreadStep
  <2> QED  BY <1>4, <2>1, <2>2 DEF CloseNext
<1>5. CASE OthersNext \/ UNCHANGED vars
  BY <1>5, OthersApart DEF ThreadStep
<1>6. CASE Crash
  BY <1>6 DEF ThreadStep
<1>7. ASSUME NEW t \in Threads, PutNext(t) PROVE ThreadStep
  <2>1. CASE PutSettle(t) \/ PutComplete(t) \/ PutUndo(t) \/ PutStops(t)
    BY <2>1, ProceedSteps DEF ThreadStep
  <2>2. ASSUME NEW p \in Paths, NEW id \in FileIds, NEW mode \in Modes, NEW length \in Lengths,
               NEW mark \in Marks, NEW answered \in BOOLEAN,
               PutStart(t, p, id, mode, length, mark, answered)
        PROVE  ThreadStep
    BY <2>2, PutStarts DEF ThreadStep
  <2> QED  BY <1>7, <2>1, <2>2 DEF PutNext
<1> QED  BY <1>2, <1>3, <1>4, <1>5, <1>6, <1>7 DEF Next

\* What starts, or goes on, agrees with the placement of files.
LEMMA NextThreads ==
  ASSUME TypeOK, Placement, [Next]_vars
  PROVE  op' \in [Threads -> ThreadState] /\ \A t \in Threads : Agrees(op'[t], placed')
<1>0. op \in [Threads -> ThreadState] /\ \A t \in Threads : Agrees(op[t], placed)
  BY DEF TypeOK, Placement
<1>a. ASSUME NEW s \in ThreadState, Agrees(s, placed) PROVE Agrees(s, placed')
  BY <1>a, AgreesMore, PlacementsStay
<1>1. CASE UNCHANGED op
  BY <1>0, <1>1, <1>a
<1>2. CASE Crash
  <2>1. /\ \A t \in Threads : op'[t] = op[t] \/ op'[t] = Idle
        /\ op' = [t \in Threads |-> op'[t]]
    BY <1>2 DEF Crash
  <2>2. Idle \in ThreadState /\ Idle.pc = "idle"
    BY DEF ThreadState, Idle
  <2>3. Agrees(Idle, placed')
    BY <2>2, AgreesAnyway
  <2> QED  BY <1>0, <1>a, <2>1, <2>2, <2>3
<1>3. ASSUME NEW t \in Threads, NEW o \in ChangeState, Starts(t, o)
      PROVE  op' \in [Threads -> ThreadState] /\ \A x \in Threads : Agrees(op'[x], placed')
  <2>1. Begin(t, o) /\ ~Changing(t) /\ Agrees(o, placed')
    BY <1>3 DEF Starts
  <2>2. op' \in [Threads -> ThreadState]
    BY <1>0, <2>1, BeginFacts
  <2>3. Agrees(op'[t], placed')
    <3>1. SameChange(o, op'[t])
      BY <1>0, <2>1, BeginFacts
    <3> QED  BY <2>1, <3>1, AgreesOnward DEF SameChange
  <2>4. ASSUME NEW x \in Threads \ {t} PROVE Agrees(op'[x], placed')
    <3>0. Agrees(op[x], placed')
      BY <1>0, <1>a
    <3>1. CASE Changing(x)
      <4>1. SameChange(op[x], op'[x])
        BY <1>0, <2>1, <3>1, BeginFacts
      <4> QED  BY <3>0, <4>1, AgreesOnward DEF SameChange
    <3>2. CASE ~Changing(x)
      BY <1>0, <2>1, <3>0, <3>2, BeginFacts
    <3> QED  BY <3>1, <3>2
  <2> QED  BY <2>2, <2>3, <2>4
<1>4. ASSUME NEW t \in Threads, NEW s \in ThreadState, Proceeds(t, s)
      PROVE  op' \in [Threads -> ThreadState] /\ \A x \in Threads : Agrees(op'[x], placed')
  BY <1>0, <1>4, <1>a DEF Proceeds
<1>5. ASSUME NEW t \in Threads, NEW r \in Replica,
             NodeFails(t, r) \/ \E acknowledged \in BOOLEAN : NodeChanges(t, r, acknowledged)
      PROVE  op' \in [Threads -> ThreadState] /\ \A x \in Threads : Agrees(op'[x], placed')
  <2>1. /\ op[t] \in ChangeState /\ Answered(op[t], op'[t], r)
        /\ op' \in [Threads -> ThreadState]
        /\ \A x \in Threads \ {t} : op'[x] = op[x]
    BY <1>5, NodeAnswers
  <2>2. Agrees(op'[t], placed)
    BY <1>0, <2>1, AgreesOnward DEF Answered
  <2> QED  BY <1>0, <1>a, <2>1, <2>2
<1> QED  BY <1>1, <1>2, <1>3, <1>4, <1>5, ThreadSteps DEF ThreadStep

\* What one step does to a handle.
Located(t, h) ==
  LET p == op[t].path IN
  /\ op[t].pc = "locate" /\ IsFile(tree, p)
  /\ fh'[h].path = p
  /\ fh'[h].replicas = IF op[t].replicas = <<>> THEN tree[p].replicas
                       ELSE op[t].replicas

HandleStep ==
  /\ fh' \in [Handles -> {NoHandle} \cup OpenHandle]
  /\ \A h \in Handles : fh'[h].open =>
       \/ fh[h].open /\ fh'[h].path = fh[h].path /\ fh'[h].replicas = fh[h].replicas
       \/ \E t \in Threads : Located(t, h)

LEMMA HandleSteps ==
  ASSUME TypeOK, Placement, [Next]_vars
  PROVE  HandleStep
<1>0. fh \in [Handles -> {NoHandle} \cup OpenHandle]
  BY DEF TypeOK
<1>1. ASSUME UNCHANGED fh PROVE HandleStep
  BY <1>0, <1>1 DEF HandleStep
<1>2. ASSUME \A h \in Handles : fh'[h] = fh[h] \/ fh'[h] = NoHandle,
             fh' = [h \in Handles |-> fh'[h]]
      PROVE  HandleStep
  BY <1>0, <1>2 DEF NoHandle, HandleStep
<1>3. ASSUME NEW t \in Threads, OpenLocate(t) PROVE HandleStep
  <2> DEFINE o == op[t]
             e == tree[o.path]
             s == [open |-> TRUE, path |-> o.path, fileID |-> e.fileID, size |-> o.size,
                   replicas |-> IF o.replicas = <<>> THEN e.replicas ELSE o.replicas,
                   status |-> IF o.status = "" THEN e.status ELSE o.status]
  <2>1. o \in LocateState /\ IsFile(tree, o.path) /\ o.pc = "locate"
    BY <1>3, ThreadStates DEF OpenLocate, TypeOK
  <2>2. e \in FileEntry
    BY <2>1, FileEntries DEF LocateState, Locations
  <2>3. fh' = [fh EXCEPT ![o.h] = s] /\ o.h \in Handles
    BY <1>3, <2>1 DEF OpenLocate, LocateState
  <2>4. s \in OpenHandle
    <3> HIDE DEF o, e
    <3> QED  BY <2>1, <2>2 DEF LocateState, FileEntry, OpenHandle
  <2>5. Located(t, o.h)
    BY <1>0, <2>1, <2>3 DEF Located
  <2> HIDE DEF s, e, o
  <2>6. ASSUME NEW h \in Handles, fh'[h].open
        PROVE  \/ fh[h].open /\ fh'[h].path = fh[h].path /\ fh'[h].replicas = fh[h].replicas
               \/ \E x \in Threads : Located(x, h)
    BY <1>0, <2>3, <2>5, <2>6
  <2> QED  BY <1>0, <2>3, <2>4, <2>6 DEF HandleStep
<1>4. ASSUME NEW h \in Handles, NEW s, fh' = [fh EXCEPT ![h] = s],
             s \in {NoHandle} \cup OpenHandle,
             s.open => fh[h].open /\ s.path = fh[h].path /\ s.replicas = fh[h].replicas
      PROVE  HandleStep
  <2> QED  BY <1>0, <1>4 DEF HandleStep
<1>5. ASSUME NEW t \in Threads, WriteSettle(t) PROVE HandleStep
  <2> DEFINE h == op[t].h
             end == op[t].at + op[t].length
             n == IF end > fh[h].size THEN end ELSE fh[h].size
             s == [[fh[h] EXCEPT !.size = n] EXCEPT !.status = "complete"]
  <2>1. op[t].pc = "write" /\ op[t] \in ChangeState
    BY <1>5, ThreadStates DEF WriteSettle, TypeOK
  <2>2. h \in Handles /\ end \in Sizes
    <3>1. end <= MaxLen /\ h \in Handles
      BY <2>1 DEF Placement, Agrees
    <3> QED  BY <2>1, <3>1, SizesAssumption DEF ChangeState
  <2>3. fh' = [fh EXCEPT ![h] = s]
    BY <1>5 DEF WriteSettle
  <2>4. CASE fh[h].open
    <3>1. fh[h] \in OpenHandle
      BY <1>0, <2>2, <2>4, HandleStates
    <3>2. n \in Sizes
      BY <2>2, <3>1 DEF OpenHandle
    <3> HIDE DEF n, h
    <3>3. s \in OpenHandle /\ s.path = fh[h].path /\ s.replicas = fh[h].replicas
      BY <3>1, <3>2 DEF OpenHandle
    <3> QED  BY <1>4, <2>2, <2>3, <2>4, <3>3 DEF h
  <2>5. CASE ~fh[h].open
    <3>1. fh[h] = NoHandle
      BY <1>0, <2>2, <2>5, HandleStates
    <3>2. s = NoHandle
      BY <3>1 DEF NoHandle
    <3> QED  BY <1>0, <1>2, <2>2, <2>3, <3>2
  <2> QED  BY <2>4, <2>5
<1>6. ASSUME NEW t \in Threads, NEW answered \in BOOLEAN, TruncateSize(t, answered)
      PROVE  HandleStep
  <2> DEFINE h == op[t].h
             s == [fh[h] EXCEPT !.size = op[t].size]
  <2>1. op[t] \in SizeState
    BY <1>6, ThreadStates DEF TruncateSize, TypeOK
  <2>2. h \in Handles /\ op[t].size \in Sizes
    BY <2>1 DEF SizeState
  <2>3. CASE fh' = fh
    BY <1>1, <2>3
  <2>4. CASE fh' = [fh EXCEPT ![h].size = op[t].size]
    <3>1. fh' = [fh EXCEPT ![h] = s]
      BY <2>4
    <3>2. /\ s \in {NoHandle} \cup OpenHandle
          /\ s.open => fh[h].open /\ s.path = fh[h].path /\ s.replicas = fh[h].replicas
      BY <1>0, <2>2, UpdateHandle
    <3> QED  BY <1>4, <2>2, <3>1, <3>2
  <2> QED  BY <1>6, <2>3, <2>4 DEF TruncateSize
<1>7. ASSUME NEW t \in Threads, CloseNext(t) PROVE HandleStep
  <2>1. \/ fh' = fh
        \/ \E h \in Handles : fh' = [fh EXCEPT ![h] = NoHandle]
    <3>1. ASSUME NEW answered \in BOOLEAN, CloseComplete(t, answered)
          PROVE  fh' = fh \/ \E h \in Handles : fh' = [fh EXCEPT ![h] = NoHandle]
      <4>1. op[t] \in CloseState
        BY <3>1, ThreadStates DEF CloseComplete, TypeOK
      <4> QED  BY <3>1, <4>1 DEF CloseComplete, CloseState
    <3> QED  BY <1>7, <3>1 DEF CloseNext, Close, CallFails
  <2>2. ASSUME NEW h \in Handles, fh' = [fh EXCEPT ![h] = NoHandle]
        PROVE  /\ \A x \in Handles : fh'[x] = fh[x] \/ fh'[x] = NoHandle
               /\ fh' = [x \in Handles |-> fh'[x]]
    BY <1>0, <2>2
  <2> QED  BY <1>1, <1>2, <2>1, <2>2
<1>8. CASE Crash
  <2>1. \A h \in Handles : fh'[h] = NoHandle
    BY <1>8 DEF Crash
  <2>2. fh' = [h \in Handles |-> fh'[h]]
    BY <1>8 DEF Crash
  <2> QED  BY <1>2, <2>1, <2>2
<1>9. ASSUME NEW t \in Threads, OpenNext(t) \/ ChangeNext(t) PROVE HandleStep
  BY <1>1, <1>3, <1>5, <1>6, <1>9
     DEF OpenNext, ChangeNext, OpenStat, OpenCreate, OpenTruncate, TruncateFile, WriteStart,
         Truncate, NodeChanges, NodeFails, TruncateSettle, ChangeAborts, WriteSize
<1>10. CASE OthersNext \/ UNCHANGED vars
  BY <1>1, <1>10, OthersApart
<1>11. ASSUME NEW t \in Threads, PutNext(t) PROVE HandleStep
  <2>1. ASSUME NEW p, NEW id, NEW mode, NEW length, NEW mark, NEW answered,
               PutStart(t, p, id, mode, length, mark, answered)
        PROVE  UNCHANGED fh
    BY <2>1 DEF PutStart
  <2>2. ASSUME PutSettle(t) \/ PutComplete(t) \/ PutUndo(t) \/ PutStops(t)
        PROVE  UNCHANGED fh
    BY <2>2 DEF PutSettle, PutComplete, PutUndo, PutStops
  <2> QED  BY <1>1, <1>11, <2>1, <2>2 DEF PutNext
<1> QED  BY <1>7, <1>8, <1>9, <1>10, <1>11 DEF Next

-----------------------------------------------------------------------------
(* What a step does to contents, and to what reads may return              *)

\* A change has succeeded on all replicas and is reported as done.
Settles(t) ==
  /\ Changing(t) /\ op[t].todo = {} /\ ~op[t].failed
  /\ cand' = Confirmed(op[t])
  /\ \E s \in ThreadState : Proceeds(t, s)
  /\ UNCHANGED <<tree, placed, data>>

\* Nothing that a thread reads or writes at a data node changes.
Quiet ==
  /\ UNCHANGED cand
  /\ UNCHANGED data \/ \E r \in DOMAIN data : Reclaim(r)
  /\ \A t \in Threads : op'[t] = op[t] \/ op'[t].pc \notin {"write", "trunc", "put"}

ContentStep ==
  \/ Quiet
  \/ \E t \in Threads : Settles(t)
  \/ \E t \in Threads, o \in ChangeState : Starts(t, o)
  \/ \E t \in Threads, r \in Replica :
       NodeFails(t, r) \/ \E acknowledged \in BOOLEAN : NodeChanges(t, r, acknowledged)

LEMMA ContentSteps ==
  ASSUME TypeOK, Placement, [Next]_vars
  PROVE  ContentStep
<1>a. ASSUME NEW t \in Threads, \E s \in ThreadState : Proceeds(t, s),
             UNCHANGED <<data, cand>>
      PROVE  ContentStep
  BY <1>a DEF Proceeds, Quiet, ContentStep, TypeOK
<1>b. ASSUME UNCHANGED <<data, cand, op>> PROVE ContentStep
  BY <1>b DEF Quiet, ContentStep
<1>1. ASSUME NEW t \in Threads, OpenNext(t) PROVE ContentStep
  <2>1. CASE OpenTruncate(t)
    BY <2>1, StartSteps DEF ContentStep
  <2>2. ASSUME NEW h \in Handles, NEW p \in Paths, NEW flags \in Flags,
               OpenStat(t, h, p, flags)
        PROVE  ContentStep
    BY <1>a, <2>2, ProceedSteps DEF OpenStat
  <2>3. ASSUME NEW id \in FileIds, NEW answered \in BOOLEAN, OpenCreate(t, id, answered)
        PROVE  ContentStep
    BY <1>a, <2>3, ProceedSteps DEF OpenCreate
  <2>4. CASE OpenLocate(t)
    BY <1>a, <2>4, ProceedSteps DEF OpenLocate
  <2> QED  BY <1>1, <2>1, <2>2, <2>3, <2>4 DEF OpenNext
<1>2. ASSUME NEW t \in Threads, ChangeNext(t) PROVE ContentStep
  <2>1. CASE \/ \E h \in Handles, offset \in Sizes, length \in Lengths, mark \in Marks :
                  WriteStart(t, h, offset, length, mark)
             \/ \E h \in Handles, size \in Cuts : Truncate(t, h, size)
    BY <2>1, StartSteps DEF ContentStep
  <2>2. CASE \E r \in Replica : \/ \E acknowledged \in BOOLEAN : NodeChanges(t, r, acknowledged)
                              \/ NodeFails(t, r)
    BY <2>2 DEF ContentStep
  <2>3. CASE WriteSettle(t) \/ TruncateSettle(t)
    <3>1. \E s \in ThreadState : Proceeds(t, s)
      BY <2>3, ProceedSteps
    <3>2. Settles(t)
      BY <2>3, <3>1 DEF WriteSettle, TruncateSettle, Settles, Changing
    <3> QED  BY <3>2 DEF ContentStep
  <2>4. CASE ChangeAborts(t) \/ WriteSize(t)
    BY <1>a, <2>4, ProceedSteps DEF ChangeAborts, WriteSize
  <2>5. ASSUME NEW answered \in BOOLEAN, TruncateSize(t, answered) PROVE ContentStep
    BY <1>a, <2>5, ProceedSteps DEF TruncateSize
  <2> QED  BY <1>2, <2>1, <2>2, <2>3, <2>4, <2>5 DEF ChangeNext
<1>3. ASSUME NEW t \in Threads, CloseNext(t) PROVE ContentStep
  <2>1. ASSUME NEW h \in Handles, Close(t, h) PROVE ContentStep
    <3>1. UNCHANGED <<data, cand>>
      BY <2>1 DEF Close
    <3>2. CASE fh[h].status = "pending"
      BY <1>a, <2>1, <3>1, <3>2, ProceedSteps
    <3>3. CASE fh[h].status # "pending"
      BY <1>b, <2>1, <3>1, <3>3 DEF Close
    <3> QED  BY <3>2, <3>3
  <2>2. ASSUME NEW answered \in BOOLEAN, CloseComplete(t, answered) PROVE ContentStep
    BY <1>a, <2>2, ProceedSteps DEF CloseComplete
  <2>3. CASE CallFails(t)
    BY <1>a, <2>3, ProceedSteps DEF CallFails
  <2> QED  BY <1>3, <2>1, <2>2, <2>3 DEF CloseNext
<1>4. CASE Crash
  <2>1. \A t \in Threads : op'[t] = op[t] \/ op'[t] = Idle
    BY <1>4 DEF Crash
  <2>2. Idle.pc = "idle"
    BY DEF Idle
  <2>3. UNCHANGED <<data, cand>>
    BY <1>4 DEF Crash
  <2> QED  BY <2>1, <2>2, <2>3 DEF Quiet, ContentStep
<1>5. ASSUME NEW src \in Paths, NEW dst \in Paths, Rename(src, dst) PROVE ContentStep
  BY <1>b, <1>5 DEF Rename
<1>6. ASSUME NEW p \in Paths, Unlink(p) PROVE ContentStep
  BY <1>b, <1>6 DEF Unlink
<1>7. ASSUME NEW r \in DOMAIN data, Reclaim(r) PROVE ContentStep
  BY <1>7 DEF Reclaim, Quiet, ContentStep
<1>8. ASSUME NEW t \in Threads, PutNext(t) PROVE ContentStep
  <2>1. ASSUME NEW p \in Paths, NEW id \in FileIds, NEW mode \in Modes, NEW length \in Lengths,
               NEW mark \in Marks, NEW answered \in BOOLEAN,
               PutStart(t, p, id, mode, length, mark, answered)
        PROVE  ContentStep
    BY <1>b, <2>1, PutStarts DEF ContentStep
  <2>2. CASE PutSettle(t)
    <3>1. \E s \in ThreadState : Proceeds(t, s)
      BY <2>2, ProceedSteps
    <3>2. CASE op[t].failed
      BY <1>a, <2>2, <3>1, <3>2 DEF PutSettle
    <3>3. CASE ~op[t].failed
      <4>1. Settles(t)
        BY <2>2, <3>1, <3>3 DEF PutSettle, Settles, Changing
      <4> QED  BY <4>1 DEF ContentStep
    <3> QED  BY <3>2, <3>3
  <2>3. CASE PutComplete(t) \/ PutUndo(t) \/ PutStops(t)
    <3>1. \E s \in ThreadState : Proceeds(t, s)
      BY <2>3, ProceedSteps
    <3> QED  BY <1>a, <2>3, <3>1 DEF PutComplete, PutUndo, PutStops
  <2> QED  BY <1>8, <2>1, <2>2, <2>3 DEF PutNext
<1>9. CASE UNCHANGED vars
  BY <1>b, <1>9 DEF vars
<1>10. CASE OthersNext
  BY <1>5, <1>6, <1>7, <1>10 DEF OthersNext
<1> QED  BY <1>1, <1>2, <1>3, <1>4, <1>8, <1>9, <1>10 DEF Next

\* What a call to a data node leaves there.
NodeChanged(t, r) ==
  /\ op[t] \in ChangeState /\ r \in Replica /\ r.remote = op[t].id
  /\ op[t].id \in DOMAIN placed
  /\ DOMAIN data' = DOMAIN data \cup {r} /\ data'[r] \in Contents
  /\ \A x \in DOMAIN data \ {r} : data'[x] = data[x]
  /\ op[t].pc = "write" =>
       /\ Len(Content(r)) <= Len(data'[r])
       /\ op[t].length > 0 => op[t].at + op[t].length <= Len(data'[r])
  /\ op[t].pc = "put" =>
       /\ Len(data'[r]) = op[t].length
       /\ Len(Content(r)) > op[t].length => op[t].path \in touched'
  /\ \A i \in Positions :
       LET byte == IF i <= Len(data'[r]) THEN data'[r][i] ELSE Zero
           old == IF i <= Len(Content(r)) THEN Content(r)[i] ELSE Zero
       IN  IF i \in Span(op[t]) THEN byte \in PutsAt(op[t], i) ELSE byte = old

LEMMA NodeChangesContent ==
  ASSUME TypeOK, Placement, NEW t \in Threads, NEW r, NEW acknowledged \in BOOLEAN,
         NodeChanges(t, r, acknowledged)
  PROVE  NodeChanged(t, r)
<1> DEFINE o == op[t]
           c == Content(r)
           d == Changed(o, c)
<1>1. o \in ChangeState /\ r \in o.todo
  <2>1. \E b \in BOOLEAN : NodeChanges(t, r, b)
    OBVIOUS
  <2> QED  BY <2>1, NodeAnswers
<1>2. Agrees(o, placed) /\ o.pc \in {"write", "trunc", "put"}
  BY <1>1 DEF Placement, ChangeState
<1>3. /\ o.id \in DOMAIN placed /\ r \in ToSet(placed[o.id])
      /\ o.pc # "put" => o.at + o.length <= MaxLen
      /\ o.pc = "trunc" => o.val = Zero /\ o.at + o.length = MaxLen
  BY <1>1, <1>2 DEF Agrees
<1>4. r.remote = o.id /\ r \in Replica
  BY <1>1, <1>3 DEF Placement, ChangeState
<1>5. /\ o.at \in Sizes /\ o.length \in Sizes /\ o.val \in Bytes
      /\ o.at \in Nat /\ o.length \in Nat /\ MaxLen \in Nat
  BY <1>1, SizesAssumption DEF ChangeState
<1>6. c \in Contents /\ Len(c) \in Nat
  BY ContentType, ContentsFacts, SizesAssumption
<1>7. /\ data' = Stored(r, d)
      /\ o.pc = "put" /\ Len(c) > o.length => o.path \in touched'
  BY DEF NodeChanges
<1>8. DOMAIN data' = DOMAIN data \cup {r} /\ data'[r] = d
      /\ \A x \in DOMAIN data \ {r} : data'[x] = data[x]
  BY <1>7 DEF Stored
<1>9. /\ d \in Contents
      /\ o.pc = "write" => /\ Len(c) <= Len(d)
                           /\ o.length > 0 => o.at + o.length <= Len(d)
      /\ o.pc = "put" => Len(d) = o.length
      /\ \A i \in Positions :
           IF i \in Span(o) THEN (IF i <= Len(d) THEN d[i] ELSE Zero) \in PutsAt(o, i)
           ELSE (IF i <= Len(d) THEN d[i] ELSE Zero) = IF i <= Len(c) THEN c[i] ELSE Zero
  <2>a. o.pc # "put" => Span(o) = (o.at + 1)..(o.at + o.length)
                        /\ \A i \in Span(o) : PutsAt(o, i) = {o.val}
    BY DEF Span, PutsAt
  <2> DEFINE Goal == \A i \in Positions :
           IF i \in Span(o) THEN (IF i <= Len(d) THEN d[i] ELSE Zero) \in PutsAt(o, i)
           ELSE (IF i <= Len(d) THEN d[i] ELSE Zero) = IF i <= Len(c) THEN c[i] ELSE Zero
  <2>1. CASE o.pc = "write"
    <3> DEFINE w == PartialWritten(c, o.at, o.length, o.val)
    <3>1. /\ w \in Contents
          /\ Len(c) <= Len(w) /\ (o.length > 0 => o.at + o.length <= Len(w))
          /\ \A i \in Positions : i <= Len(w) =>
               w[i] = IF i \in (o.at + 1)..(o.at + o.length) THEN o.val
                      ELSE IF i <= Len(c) THEN c[i] ELSE Zero
          /\ \A i \in Positions : i > Len(w) =>
               i > Len(c) /\ i \notin (o.at + 1)..(o.at + o.length)
      BY <1>3, <1>5, <1>6, <2>1, PartialWrittenFacts
    <3>2. Len(w) \in Nat
      BY <3>1, ContentsFacts, SizesAssumption
    <3>3. d = w /\ o.pc # "put"
      BY <2>1 DEF Changed
    <3> HIDE DEF w, d, c, o
    <3>4. ASSUME NEW i \in Positions
          PROVE  (IF i <= Len(w) THEN w[i] ELSE Zero) =
                   IF i \in Span(o) THEN o.val ELSE IF i <= Len(c) THEN c[i] ELSE Zero
      <4>1. i \in Nat
        BY <1>5 DEF Positions
      <4>2. CASE i <= Len(w)
        BY <2>a, <3>1, <3>3, <4>2
      <4>3. CASE i > Len(w)
        <5>2. ~(i <= Len(w)) /\ ~(i <= Len(c)) /\ i \notin (o.at + 1)..(o.at + o.length)
          BY <1>6, <3>1, <3>2, <4>1, <4>3
        <5>1. ~(i <= Len(w)) /\ ~(i <= Len(c)) /\ i \notin Span(o)
          BY <2>a, <3>3, <5>2
        <5> QED  BY <5>1
      <4> QED  BY <3>2, <4>1, <4>2, <4>3
    <3>5. Goal
      BY <2>a, <3>3, <3>4
    <3> QED  BY <2>1, <3>1, <3>3, <3>5
  <2>2. CASE o.pc = "trunc"
    <3> DEFINE w == Truncated(c, o.at)
    <3>1. /\ w \in Contents /\ Len(w) = o.at
          /\ \A i \in Positions : i <= o.at =>
               w[i] = IF i <= Len(c) THEN c[i] ELSE Zero
      BY <1>5, <1>6, TruncatedFacts
    <3>2. d = w /\ o.pc # "write" /\ o.pc # "put"
      BY <2>2 DEF Changed
    <3>3. o.val = Zero /\ o.at + o.length = MaxLen
      BY <1>3, <2>2
    <3> HIDE DEF w, d, c, o
    <3>4. ASSUME NEW i \in Positions
          PROVE  (IF i <= Len(w) THEN w[i] ELSE Zero) =
                   IF i \in Span(o) THEN o.val ELSE IF i <= Len(c) THEN c[i] ELSE Zero
      <4>1. i \in Nat /\ i <= MaxLen
        BY <1>5 DEF Positions
      <4>2. CASE i <= o.at
        <5>1. i \notin Span(o)
          BY <1>5, <2>a, <3>2, <4>1, <4>2
        <5> QED  BY <3>1, <4>2, <5>1
      <4>3. CASE ~(i <= o.at)
        <5>1. i \in Span(o)
          BY <1>5, <2>a, <3>2, <3>3, <4>1, <4>3
        <5> QED  BY <3>1, <3>3, <4>3, <5>1
      <4> QED  BY <4>2, <4>3
    <3>5. Goal
      BY <2>a, <3>2, <3>4
    <3> QED  BY <3>1, <3>2, <3>5
  <2>3. CASE o.pc = "put"
    <3> DEFINE w == [i \in 1..o.length |-> o.val]
    <3>1. w \in Contents /\ Len(w) = o.length /\ \A i \in 1..o.length : w[i] = o.val
      BY <1>5, MakeContents
    <3>2. d = w /\ o.pc # "write"
      BY <2>3 DEF Changed
    <3>3. \A i \in Positions : i \in Span(o)
                               /\ PutsAt(o, i) = IF i > o.length THEN {Zero} ELSE {o.val}
      BY <2>3 DEF Span, PutsAt
    <3> HIDE DEF w, d, c, o
    <3>4. ASSUME NEW i \in Positions
          PROVE  (IF i <= Len(w) THEN w[i] ELSE Zero) \in PutsAt(o, i)
      <4>1. i \in Nat /\ i > 0
        BY <1>5 DEF Positions
      <4>2. CASE i <= o.length
        <5>1. i \in 1..o.length /\ ~(i > o.length) /\ i <= Len(w)
          BY <1>5, <3>1, <4>1, <4>2
        <5> QED  BY <3>1, <3>3, <5>1
      <4>3. CASE ~(i <= o.length)
        <5>1. i > o.length /\ ~(i <= Len(w))
          BY <1>5, <3>1, <4>1, <4>3
        <5> QED  BY <3>3, <5>1
      <4> QED  BY <4>2, <4>3
    <3>5. Goal
      BY <3>2, <3>3, <3>4
    <3> QED  BY <2>3, <3>1, <3>2, <3>5
  <2> QED  BY <1>2, <2>1, <2>2, <2>3
<1> HIDE DEF d
<1> QED  BY <1>1, <1>3, <1>4, <1>7, <1>8, <1>9 DEF NodeChanged

\* All physical files are of placed files, and their contents are bytes.
LEMMA NextData ==
  ASSUME TypeOK, Placement, [Next]_vars
  PROVE  \A r \in DOMAIN data' :
           r \in Replica /\ data'[r] \in Contents /\ r.remote \in DOMAIN placed'
<1>0. /\ \A r \in DOMAIN data :
           r \in Replica /\ data[r] \in Contents /\ r.remote \in DOMAIN placed'
      /\ \A id \in DOMAIN placed : id \in DOMAIN placed'
  BY PlacementsStay DEF TypeOK, Placement
<1>1. CASE UNCHANGED data
  BY <1>0, <1>1
<1>2. ASSUME NEW r \in DOMAIN data, Reclaim(r)
      PROVE  \A x \in DOMAIN data' :
               x \in Replica /\ data'[x] \in Contents /\ x.remote \in DOMAIN placed'
  BY <1>0, <1>2 DEF Reclaim
<1>4. ASSUME NEW t \in Threads, NEW r \in Replica, NEW acknowledged \in BOOLEAN,
             NodeChanges(t, r, acknowledged)
      PROVE  \A x \in DOMAIN data' :
               x \in Replica /\ data'[x] \in Contents /\ x.remote \in DOMAIN placed'
  <2>1. /\ r.remote = op[t].id /\ op[t].id \in DOMAIN placed
        /\ DOMAIN data' = DOMAIN data \cup {r} /\ data'[r] \in Contents
        /\ \A x \in DOMAIN data \ {r} : data'[x] = data[x]
    <3>1. NodeChanged(t, r)
      BY <1>4, NodeChangesContent
    <3> QED  BY <3>1 DEF NodeChanged
  <2> QED  BY <1>0, <2>1
<1>5. ASSUME NEW t \in Threads, NEW r \in Replica, NodeFails(t, r) PROVE UNCHANGED data
  BY <1>5 DEF NodeFails
<1> QED
  BY <1>1, <1>2, <1>4, <1>5, ContentSteps DEF ContentStep, Quiet, Settles, Starts

\* The histories of candidates, of marks and of paths.
LEMMA NextHistory ==
  ASSUME TypeOK, Placement, [Next]_vars
  PROVE  /\ cand' \in [FileIds -> [Positions -> SUBSET Bytes]]
         /\ used' \subseteq Marks /\ touched' \subseteq Paths
<1>0. /\ cand \in [FileIds -> [Positions -> SUBSET Bytes]]
      /\ used \subseteq Marks /\ touched \subseteq Paths
  BY DEF TypeOK
<1>1. cand' \in [FileIds -> [Positions -> SUBSET Bytes]]
  <2>1. CASE UNCHANGED cand
    BY <1>0, <2>1
  <2>2. ASSUME NEW t \in Threads, Settles(t)
        PROVE  cand' \in [FileIds -> [Positions -> SUBSET Bytes]]
    <3>1. op[t] \in ChangeState
      BY <2>2, ThreadStates DEF Settles, Changing, TypeOK
    <3> QED  BY <1>0, <2>2, <3>1, ConfirmedCandidates DEF Settles
  <2>3. ASSUME NEW t \in Threads, NEW o \in ChangeState, Starts(t, o)
        PROVE  cand' \in [FileIds -> [Positions -> SUBSET Bytes]]
    BY <1>0, <2>3, BeginCandidates DEF Starts
  <2>5. CASE \E t \in Threads, r \in Replica :
               NodeFails(t, r) \/ \E acknowledged \in BOOLEAN : NodeChanges(t, r, acknowledged)
    BY <1>0, <2>5 DEF NodeFails, NodeChanges
  <2> QED  BY <2>1, <2>2, <2>3, <2>5, ContentSteps DEF ContentStep, Quiet
<1>2. used' \subseteq Marks /\ touched' \subseteq Paths
  <2>a. CASE UNCHANGED <<used, touched>>
    BY <1>0, <2>a
  <2>1. ASSUME NEW t \in Threads, NEW h \in Handles, NEW offset, NEW length,
               NEW mark \in Marks, WriteStart(t, h, offset, length, mark)
        PROVE  used' \subseteq Marks /\ touched' \subseteq Paths
    <3>1. fh[h].path \in Paths
      BY <2>1, HandleStates DEF WriteStart, Usable, TypeOK, OpenHandle
    <3> QED  BY <1>0, <2>1, <3>1 DEF WriteStart
  <2>2. ASSUME NEW t \in Threads, NEW h \in Handles, NEW p \in Paths, NEW size,
               TruncateFile(t, h, p, size)
        PROVE  used' \subseteq Marks /\ touched' \subseteq Paths
    BY <1>0, <2>2 DEF TruncateFile
  <2>3. ASSUME NEW t \in Threads, OpenTruncate(t)
        PROVE  used' \subseteq Marks /\ touched' \subseteq Paths
    <3>1. op[t] \in EmptyState
      BY <2>3, ThreadStates DEF OpenTruncate, TypeOK
    <3> QED  BY <2>2, <2>3, <3>1 DEF OpenTruncate, EmptyState
  <2>4. ASSUME NEW t \in Threads, NEW h \in Handles, NEW size, Truncate(t, h, size)
        PROVE  used' \subseteq Marks /\ touched' \subseteq Paths
    <3>1. fh[h] \in OpenHandle
      BY <2>4, HandleStates DEF Truncate, Usable, TypeOK
    <3> QED  BY <2>2, <2>4, <3>1 DEF Truncate, OpenHandle
  <2>5. ASSUME NEW t \in Threads, OpenNext(t)
        PROVE  used' \subseteq Marks /\ touched' \subseteq Paths
    BY <2>a, <2>3, <2>5 DEF OpenNext, OpenStat, OpenCreate, OpenLocate
  <2>13. ASSUME NEW t \in Threads, NEW r, NEW acknowledged \in BOOLEAN,
                NodeChanges(t, r, acknowledged)
         PROVE  used' \subseteq Marks /\ touched' \subseteq Paths
    <3>1. op[t].path \in Paths
      <4>1. op[t] \in ChangeState
        BY <2>13, NodeAnswers
      <4> QED  BY <4>1 DEF ChangeState
    <3> QED  BY <1>0, <2>13, <3>1 DEF NodeChanges
  <2>6. ASSUME NEW t \in Threads, ChangeNext(t)
        PROVE  used' \subseteq Marks /\ touched' \subseteq Paths
    BY <2>a, <2>1, <2>4, <2>6, <2>13
       DEF ChangeNext, NodeFails, WriteSettle, TruncateSettle,
           ChangeAborts, WriteSize, TruncateSize
  <2>7. ASSUME NEW t \in Threads, CloseNext(t)
        PROVE  used' \subseteq Marks /\ touched' \subseteq Paths
    BY <2>a, <2>7 DEF CloseNext, Close, CloseComplete, CallFails
  <2>8. CASE Crash \/ UNCHANGED vars
    BY <2>a, <2>8 DEF Crash, vars
  <2>9. ASSUME NEW src \in Paths, NEW dst \in Paths, Rename(src, dst)
        PROVE  used' \subseteq Marks /\ touched' \subseteq Paths
    BY <1>0, <2>9 DEF Rename, Below
  <2>10. ASSUME NEW p \in Paths, Unlink(p)
         PROVE  used' \subseteq Marks /\ touched' \subseteq Paths
    BY <1>0, <2>10 DEF Unlink, Below
  <2>11. ASSUME NEW r \in DOMAIN data, Reclaim(r)
         PROVE  used' \subseteq Marks /\ touched' \subseteq Paths
    BY <2>a, <2>11 DEF Reclaim
  <2>12. ASSUME NEW t \in Threads, PutNext(t)
         PROVE  used' \subseteq Marks /\ touched' \subseteq Paths
    <3>1. ASSUME NEW p \in Paths, NEW id \in FileIds, NEW mode \in Modes,
                 NEW length \in Lengths, NEW mark \in Marks, NEW answered \in BOOLEAN,
                 PutStart(t, p, id, mode, length, mark, answered)
          PROVE  used' \subseteq Marks /\ touched' \subseteq Paths
      BY <1>0, <3>1 DEF PutStart
    <3>2. CASE PutSettle(t) \/ PutStops(t)
      <4>1. op[t].path \in Paths
        BY <3>2, ThreadStates DEF PutSettle, PutStops, TypeOK, ChangeState
      <4> QED  BY <1>0, <3>2, <4>1 DEF PutSettle, PutStops
    <3>3. CASE PutComplete(t)
      BY <2>a, <3>3 DEF PutComplete
    <3>4. CASE PutUndo(t)
      BY <1>0, <3>4 DEF PutUndo, Below
    <3> QED  BY <2>12, <3>1, <3>2, <3>3, <3>4 DEF PutNext
  <2> QED
    BY <2>5, <2>6, <2>7, <2>8, <2>9, <2>10, <2>11, <2>12 DEF Next, OthersNext
<1> QED  BY <1>1, <1>2

-----------------------------------------------------------------------------
(* Type correctness, with the placement of files                           *)

\* Types are kept only because replicas are those that were placed: where a
\* change ends, for one, is within bounds because it started there.
LEMMA NextTyped ==
  ASSUME TypeOK, Placement, [Next]_vars
  PROVE  TypeOK' /\ Placement'
<1>1. /\ tree' \in [Locations -> Entry]
      /\ NoNewFiles \/ \E p \in Paths, id \in FileIds : NewReplicasAt(p, id)
  BY TreeSteps
<1>2. /\ DOMAIN placed' \subseteq FileIds
      /\ \A id \in DOMAIN placed' : placed'[id] \in Seq(Replica)
      /\ \A id \in DOMAIN placed : id \in DOMAIN placed' /\ placed'[id] = placed[id]
      /\ \A id \in DOMAIN placed' \ DOMAIN placed :
           placed'[id] # <<>> /\ \A r \in ToSet(placed'[id]) : r.remote = id
  BY PlacementsStay
<1>3. op' \in [Threads -> ThreadState] /\ \A t \in Threads : Agrees(op'[t], placed')
  BY NextThreads
<1>4. /\ fh' \in [Handles -> {NoHandle} \cup OpenHandle]
      /\ \A h \in Handles : fh'[h].open =>
           \/ fh[h].open /\ fh'[h].path = fh[h].path /\ fh'[h].replicas = fh[h].replicas
           \/ \E t \in Threads : Located(t, h)
  BY HandleSteps DEF HandleStep
<1>5. \A r \in DOMAIN data' :
        r \in Replica /\ data'[r] \in Contents /\ r.remote \in DOMAIN placed'
  BY NextData
<1>6. /\ cand' \in [FileIds -> [Positions -> SUBSET Bytes]]
      /\ used' \subseteq Marks /\ touched' \subseteq Paths
  BY NextHistory
<1>7. TypeOK'
  BY <1>1, <1>2, <1>3, <1>4, <1>5, <1>6 DEF TypeOK
<1>8. \A id \in DOMAIN placed' :
        placed'[id] # <<>> /\ \A r \in ToSet(placed'[id]) : r.remote = id
  BY <1>2 DEF Placement
<1>9. ASSUME NEW p \in Locations, IsFile(tree', p)
      PROVE  /\ tree'[p].fileID \in DOMAIN placed'
             /\ \E id \in DOMAIN placed' : tree'[p].replicas = placed'[id]
  <2>a. ASSUME NEW q \in Locations, IsFile(tree, q), tree'[p].fileID = tree[q].fileID,
               tree'[p].replicas = tree[q].replicas
        PROVE  /\ tree'[p].fileID \in DOMAIN placed'
               /\ \E id \in DOMAIN placed' : tree'[p].replicas = placed'[id]
    BY <1>2, <2>a DEF Placement, IsPlaced
  <2>1. CASE NoNewFiles
    BY <1>9, <2>1, <2>a DEF NoNewFiles, FilesFrom
  <2>2. ASSUME NEW q \in Paths, NEW id \in FileIds, NewReplicasAt(q, id)
        PROVE  /\ tree'[p].fileID \in DOMAIN placed'
               /\ \E x \in DOMAIN placed' : tree'[p].replicas = placed'[x]
    <3>1. id \in DOMAIN placed' /\ placed'[id] = selectDataNodes(Nodes, q, id)
      BY <2>2 DEF NewReplicasAt, Placed
    <3>2. CASE p = q
      <4>1. tree'[p].fileID = id \/ (IsFile(tree, p) /\ tree'[p].fileID = tree[p].fileID)
        BY <2>2, <3>2 DEF NewReplicasAt
      <4>2. tree'[p].fileID \in DOMAIN placed'
        BY <1>2, <3>1, <4>1 DEF Placement
      <4> QED  BY <2>2, <3>1, <3>2, <4>2 DEF NewReplicasAt
    <3>3. CASE p # q
      <4>1. tree'[p] = tree[p] /\ IsFile(tree, p)
        BY <1>9, <2>2, <3>3 DEF NewReplicasAt, IsFile
      <4> QED  BY <2>a, <4>1
    <3> QED  BY <3>2, <3>3
  <2> QED  BY <1>1, <2>1, <2>2
<1>10. ASSUME NEW h \in Handles, fh'[h].open
       PROVE  \E id \in DOMAIN placed' : fh'[h].replicas = placed'[id]
  <2>1. \E id \in DOMAIN placed : fh'[h].replicas = placed[id]
    <3>1. CASE fh[h].open /\ fh'[h].replicas = fh[h].replicas
      BY <3>1 DEF Placement, IsPlaced
    <3>2. ASSUME NEW t \in Threads, Located(t, h)
          PROVE  \E id \in DOMAIN placed : fh'[h].replicas = placed[id]
      <4>1. op[t].pc = "locate" /\ op[t] \in LocateState /\ IsFile(tree, op[t].path)
        BY <3>2, ThreadStates DEF Located, TypeOK
      <4>2. op[t].path \in Locations
        BY <4>1 DEF LocateState, Locations
      <4>3. IsPlaced(tree[op[t].path].replicas)
        BY <4>1, <4>2, FileIsPlaced
      <4>4. op[t].replicas = <<>> \/ \E id \in DOMAIN placed : op[t].replicas = placed[id]
        BY <4>1 DEF Placement, Agrees
      <4> QED  BY <3>2, <4>3, <4>4 DEF Located, IsPlaced
    <3> QED  BY <1>4, <1>10, <3>1, <3>2
  <2> QED  BY <1>2, <2>1
<1>11. Placement'
  BY <1>3, <1>5, <1>8, <1>9, <1>10 DEF Placement, IsPlaced
<1> QED  BY <1>7, <1>11

\* Nothing is placed, open or under way at first.
LEMMA InitTyped ==
  ASSUME Init
  PROVE  TypeOK /\ Placement
<1>1. tree \in [Locations -> Entry] /\ \A p \in Locations : ~IsFile(tree, p)
  BY DEF Init, EmptyTree, Entry, NoEntry, Dir, IsFile
<1>2. DOMAIN placed = {} /\ DOMAIN data = {}
  BY DEF Init
<1>3. /\ \A h \in Handles : ~fh[h].open
      /\ \A t \in Threads : Agrees(op[t], placed)
  BY AgreesAnyway DEF Init, NoHandle, Idle
<1>4. /\ fh \in [Handles -> {NoHandle} \cup OpenHandle]
      /\ op \in [Threads -> ThreadState]
      /\ cand \in [FileIds -> [Positions -> SUBSET Bytes]]
      /\ used \subseteq Marks /\ touched \subseteq Paths
  BY DEF Init, ThreadState, Bytes
<1> QED  BY <1>1, <1>2, <1>3, <1>4 DEF TypeOK, Placement

\* States, contents, handles and what threads do stay well-typed.
THEOREM FileHandleTypeCorrect == Spec => []TypeOK
<1>1. Init => TypeOK /\ Placement
  BY InitTyped
<1>2. TypeOK /\ Placement /\ [Next]_vars => TypeOK' /\ Placement'
  BY NextTyped
<1> QED  BY <1>1, <1>2, PTL DEF Spec

-----------------------------------------------------------------------------
(* What reads return                                                       *)

\* Nothing has been written to a file that does not exist yet.
UnplacedIsZero ==
  \A id \in FileIds \ DOMAIN placed, i \in Positions : Zero \in cand[id][i]

\* Reads of live files return candidates, from every replica.
LiveReads ==
  \A id \in LiveIds(tree) : \A r \in ToSet(placed[id]), i \in Positions :
    ByteRead(r, i) \in cand[id][i]

\* What a change puts into the file may be read from the start.
ChangesAreCandidates ==
  \A t \in Threads : Changing(t) =>
    \A i \in Positions : PutsAt(op[t], i) \subseteq cand[op[t].id][i]

\* Of two changes of one file each has seen the other.
ChangesSeeEachOther ==
  \A t \in Threads : \A u \in Threads \ {t} :
    Changing(t) /\ Changing(u) /\ op[t].id = op[u].id => Sees(op[u], op[t])

\* Where a change has gone through, there is its value, or that of a change that
\* it has seen.
ChangesArrive ==
  \A t \in Threads : Changing(t) /\ ~op[t].failed /\ op[t].id \in LiveIds(tree) =>
    \A r \in ToSet(placed[op[t].id]) \ op[t].todo, i \in Span(op[t]) :
      ByteRead(r, i) \in PutsAt(op[t], i) \cup op[t].seen[i]

RegularInv ==
  /\ UnplacedIsZero
  /\ LiveReads
  /\ ChangesAreCandidates
  /\ ChangesSeeEachOther
  /\ ChangesArrive

\* What a change reaches.
LEMMA ChangeFacts ==
  ASSUME TypeOK, Placement, NEW t \in Threads, Changing(t)
  PROVE  /\ op[t] \in ChangeState /\ op[t].id \in FileIds
         /\ op[t].id \in DOMAIN placed
         /\ op[t].todo \subseteq ToSet(placed[op[t].id])
         /\ \A r \in ToSet(placed[op[t].id]) : r.remote = op[t].id
         /\ Span(op[t]) \subseteq Positions
<1>1. op[t] \in ChangeState /\ op[t].pc \in {"write", "trunc", "put"}
  BY ThreadStates DEF Changing, TypeOK
<1>2. /\ op[t].id \in DOMAIN placed /\ op[t].todo \subseteq ToSet(placed[op[t].id])
      /\ op[t].pc # "put" => op[t].at + op[t].length <= MaxLen
  BY <1>1 DEF Placement, Agrees
<1>3. op[t].at \in Nat /\ op[t].length \in Nat /\ MaxLen \in Nat /\ op[t].id \in FileIds
  BY <1>1, SizesAssumption DEF ChangeState
<1>4. Span(op[t]) \subseteq Positions
  BY <1>2, <1>3 DEF Span, Positions
<1> QED  BY <1>1, <1>2, <1>3, <1>4 DEF Placement

\* A file that is there after a step was there before it, or is new.
LEMMA LiveFacts ==
  ASSUME TypeOK, Placement, [Next]_vars, NEW id \in LiveIds(tree')
  PROVE  /\ id \in FileIds /\ id \in DOMAIN placed'
         /\ \/ id \in LiveIds(tree) /\ id \in DOMAIN placed /\ placed'[id] = placed[id]
            \/ id \notin DOMAIN placed
<1>1. TypeOK' /\ Placement'
  BY NextTyped
<1>2. PICK p \in Locations : IsFile(tree', p) /\ id = tree'[p].fileID
  BY DEF LiveIds
<1>3. id \in DOMAIN placed' /\ DOMAIN placed' \subseteq FileIds
  BY <1>1, <1>2 DEF TypeOK, Placement
<1>4. CASE NoNewFiles
  <2>1. PICK q \in Locations : IsFile(tree, q) /\ tree[q].fileID = id
    BY <1>2, <1>4 DEF NoNewFiles, FilesFrom
  <2>2. id \in LiveIds(tree) /\ id \in DOMAIN placed
    BY <2>1, FileIsPlaced
  <2> QED  BY <1>3, <1>4, <2>2 DEF NoNewFiles
<1>5. ASSUME NEW q \in Paths, NEW x \in FileIds, NewReplicasAt(q, x)
      PROVE  \/ id \in LiveIds(tree) /\ id \in DOMAIN placed /\ placed'[id] = placed[id]
             \/ id \notin DOMAIN placed
  <2>1. CASE p = q
    <3>1. CASE IsFile(tree, p)
      <4>1. id \in LiveIds(tree) /\ id \in DOMAIN placed
        BY <1>2, <1>5, <2>1, <3>1, FileIsPlaced DEF NewReplicasAt
      <4> QED  BY <4>1, PlacementsStay
    <3>2. CASE ~IsFile(tree, p)
      BY <1>2, <1>5, <2>1, <3>2 DEF NewReplicasAt
    <3> QED  BY <3>1, <3>2
  <2>2. CASE p # q
    <3>1. IsFile(tree, p) /\ tree[p].fileID = id
      BY <1>2, <1>5, <2>2 DEF NewReplicasAt, IsFile
    <3>2. id \in LiveIds(tree) /\ id \in DOMAIN placed
      BY <3>1, FileIsPlaced
    <3> QED  BY <3>2, PlacementsStay
  <2> QED  BY <2>1, <2>2
<1> QED  BY <1>3, <1>4, <1>5, TreeSteps

\* What a read of one byte returns after a step.
LEMMA ByteReadNext ==
  ASSUME NEW r, NEW i \in Positions, Content(r)' \in Contents
  PROVE  ByteRead(r, i)' = IF i <= Len(Content(r)') THEN Content(r)'[i] ELSE Zero
<1>1. Content(r)' \in Seq(Bytes) /\ i \in Nat /\ i > 0
  BY ContentsFacts, SizesAssumption DEF Positions
<1> QED  BY <1>1, OneElement DEF ByteRead, RangeRead

LEMMA ReadsStay ==
  ASSUME NEW r, NEW i, Content(r)' = Content(r)
  PROVE  ByteRead(r, i)' = ByteRead(r, i)
BY DEF ByteRead, RangeRead

\* A call to a data node changes what is read in the range of the change, there.
LEMMA NodeReads ==
  ASSUME TypeOK, Placement, [Next]_vars, NEW t \in Threads, NEW r,
         NEW acknowledged \in BOOLEAN, NodeChanges(t, r, acknowledged), NEW i \in Positions
  PROVE  /\ IF i \in Span(op[t]) THEN ByteRead(r, i)' \in PutsAt(op[t], i)
            ELSE ByteRead(r, i)' = ByteRead(r, i)
         /\ \A x : x # r => ByteRead(x, i)' = ByteRead(x, i)
<1>1. NodeChanged(t, r)
  BY NodeChangesContent
<1>2. Content(r)' = data'[r] /\ \A x : x # r => Content(x)' = Content(x)
  BY <1>1 DEF NodeChanged, Content
<1>3. Content(r)' \in Contents
  BY <1>1, <1>2 DEF NodeChanged
<1>4. ByteRead(r, i)' = IF i <= Len(data'[r]) THEN data'[r][i] ELSE Zero
  BY <1>2, <1>3, ByteReadNext
<1>5. ByteRead(r, i) = IF i <= Len(Content(r)) THEN Content(r)[i] ELSE Zero
  BY ByteReadIs
<1>6. IF i \in Span(op[t])
        THEN (IF i <= Len(data'[r]) THEN data'[r][i] ELSE Zero) \in PutsAt(op[t], i)
      ELSE (IF i <= Len(data'[r]) THEN data'[r][i] ELSE Zero) =
             IF i <= Len(Content(r)) THEN Content(r)[i] ELSE Zero
  BY <1>1 DEF NodeChanged
<1> QED  BY <1>2, <1>4, <1>5, <1>6, ReadsStay

\* What nobody has stored reads as zeros.
LEMMA NothingReadsZero ==
  ASSUME NEW r, r \notin DOMAIN data', NEW i \in Positions
  PROVE  ByteRead(r, i)' = Zero
<1>1. Content(r)' = <<>>
  BY DEF Content
<1>2. <<>> \in Contents /\ Len(<<>>) = 0
  <2>1. 0 \in Sizes /\ <<>> \in [1..0 -> Bytes]
    BY SizesAssumption
  <2> QED  BY <2>1, MakeContents
<1>3. ~(i <= 0)
  BY SizesAssumption DEF Positions
<1>4. Content(r)' \in Contents /\ Len(Content(r)') = 0
  BY <1>1, <1>2
<1> QED  BY <1>3, <1>4, ByteReadNext

\* A live file keeps its contents where nothing is written.
LEMMA QuietReads ==
  ASSUME TypeOK, Placement, Quiet, NEW id \in LiveIds(tree),
         NEW r, r.remote = id, NEW i \in Positions
  PROVE  ByteRead(r, i)' = ByteRead(r, i)
<1>1. Content(r)' = Content(r)
  <2>1. CASE UNCHANGED data
    BY <2>1 DEF Content
  <2>2. ASSUME NEW x \in DOMAIN data, Reclaim(x) PROVE Content(r)' = Content(r)
    <3>1. x # r /\ data' = [y \in DOMAIN data \ {x} |-> data[y]]
      BY <2>2 DEF Reclaim
    <3> QED  BY <3>1 DEF Content
  <2> QED  BY <2>1, <2>2 DEF Quiet
<1> QED  BY <1>1, ReadsStay

LEMMA QuietRegular ==
  ASSUME TypeOK, Placement, RegularInv, [Next]_vars, Quiet
  PROVE  RegularInv'
<1>1. cand' = cand /\ \A id \in DOMAIN placed : id \in DOMAIN placed'
  BY PlacementsStay DEF Quiet
<1>2. ASSUME NEW t \in Threads, op'[t].pc \in {"write", "trunc", "put"}
      PROVE  op'[t] = op[t] /\ Changing(t)
  BY <1>2 DEF Quiet, Changing
<1>3. UnplacedIsZero'
  BY <1>1 DEF UnplacedIsZero, RegularInv
<1>4. LiveReads'
  <2> SUFFICES ASSUME NEW id \in LiveIds(tree'), NEW r \in ToSet(placed'[id]),
                      NEW i \in Positions
               PROVE  ByteRead(r, i)' \in cand'[id][i]
    BY DEF LiveReads
  <2>1. CASE id \in LiveIds(tree) /\ id \in DOMAIN placed /\ placed'[id] = placed[id]
    <3>1. r.remote = id
      BY <2>1 DEF Placement
    <3>2. ByteRead(r, i)' = ByteRead(r, i)
      BY <2>1, <3>1, QuietReads
    <3> QED  BY <1>1, <2>1, <3>2 DEF RegularInv, LiveReads
  <2>2. CASE id \notin DOMAIN placed
    <3>1. id \in FileIds /\ id \in DOMAIN placed'
      BY LiveFacts
    <3>2. r.remote = id
      BY <2>2, <3>1, PlacementsStay
    <3>3. r \notin DOMAIN data'
      BY <2>2, <3>2 DEF Placement, Quiet, Reclaim
    <3>4. ByteRead(r, i)' = Zero
      BY <3>3, NothingReadsZero
    <3> QED  BY <1>1, <2>2, <3>1, <3>4 DEF RegularInv, UnplacedIsZero
  <2> QED  BY <2>1, <2>2, LiveFacts
<1>5. ChangesAreCandidates'
  BY <1>1, <1>2 DEF ChangesAreCandidates, Changing, RegularInv
<1>6. ChangesSeeEachOther'
  BY <1>2 DEF ChangesSeeEachOther, Changing, RegularInv
<1>7. ChangesArrive'
  <2> SUFFICES ASSUME NEW t \in Threads, op'[t].pc \in {"write", "trunc", "put"}, ~op'[t].failed,
                      op'[t].id \in LiveIds(tree'),
                      NEW r \in ToSet(placed'[op'[t].id]) \ op'[t].todo,
                      NEW i \in Span(op'[t])
               PROVE  ByteRead(r, i)' \in PutsAt(op'[t], i) \cup op'[t].seen[i]
    BY DEF ChangesArrive, Changing
  <2>1. op'[t] = op[t] /\ Changing(t)
    BY <1>2
  <2>2. op[t].id \in DOMAIN placed /\ Span(op[t]) \subseteq Positions
    BY <2>1, ChangeFacts
  <2>3. op[t].id \in LiveIds(tree) /\ placed'[op[t].id] = placed[op[t].id]
    BY <2>1, <2>2, LiveFacts
  <2>4. r.remote = op[t].id
    BY <2>1, <2>2, <2>3 DEF Placement
  <2>5. ByteRead(r, i)' = ByteRead(r, i)
    BY <2>1, <2>2, <2>3, <2>4, QuietReads
  <2> QED  BY <2>1, <2>3, <2>5 DEF ChangesArrive, RegularInv
<1> QED  BY <1>3, <1>4, <1>5, <1>6, <1>7 DEF RegularInv

\* What a change that is done has replaced is no candidate any more; all replicas
\* have its value, or that of a change that overlapped it.
LEMMA SettleRegular ==
  ASSUME TypeOK, Placement, RegularInv, [Next]_vars, NEW u \in Threads, Settles(u)
  PROVE  RegularInv'
<1> DEFINE o == op[u]
<1>1. /\ Changing(u) /\ o.todo = {} /\ ~o.failed
      /\ UNCHANGED <<tree, placed, data>> /\ cand' = Confirmed(o)
  BY DEF Settles
<1>2. /\ o \in ChangeState /\ o.id \in DOMAIN placed
      /\ \A id \in FileIds, i \in Positions :
           cand'[id][i] = IF id = o.id /\ i \in Span(o)
                            THEN cand[id][i] \cap (PutsAt(o, i) \cup o.seen[i])
                          ELSE cand[id][i]
  <2>1. o \in ChangeState /\ o.id \in DOMAIN placed
    BY <1>1, ChangeFacts
  <2>2. cand \in [FileIds -> [Positions -> SUBSET Bytes]]
    BY DEF TypeOK
  <2> HIDE DEF o
  <2>3. \A id \in FileIds, i \in Positions :
           Confirmed(o)[id][i] = IF id = o.id /\ i \in Span(o)
                                   THEN cand[id][i] \cap (PutsAt(o, i) \cup o.seen[i])
                                   ELSE cand[id][i]
    BY <2>1, <2>2, ConfirmedCandidates
  <2> QED  BY <1>1, <2>1, <2>3
<1>3. \A t \in Threads : op'[t].pc \in {"write", "trunc", "put"} =>
        t # u /\ op'[t] = op[t] /\ Changing(t)
  BY DEF Settles, Proceeds, Changing, TypeOK
<1>4. \A r, i : ByteRead(r, i)' = ByteRead(r, i)
  BY <1>1, ReadsStay DEF Content
<1> HIDE DEF o
<1>5. UnplacedIsZero'
  BY <1>1, <1>2 DEF UnplacedIsZero, RegularInv
<1>6. LiveReads'
  <2> SUFFICES ASSUME NEW id \in LiveIds(tree), NEW r \in ToSet(placed[id]),
                      NEW i \in Positions
               PROVE  ByteRead(r, i) \in cand'[id][i]
    BY <1>1, <1>4 DEF LiveReads
  <2>1. ByteRead(r, i) \in cand[id][i]
    BY DEF RegularInv, LiveReads
  <2>2. id \in FileIds
    BY LiveFacts, <1>1
  <2>3. CASE id = o.id /\ i \in Span(o)
    <3>1. ByteRead(r, i) \in PutsAt(o, i) \cup o.seen[i]
      BY <1>1, <2>3 DEF RegularInv, ChangesArrive, o
    <3> QED  BY <1>2, <2>1, <2>2, <2>3, <3>1
  <2>4. CASE ~(id = o.id /\ i \in Span(o))
    BY <1>2, <2>1, <2>2, <2>4
  <2> QED  BY <2>3, <2>4
<1>7. ChangesAreCandidates'
  <2> SUFFICES ASSUME NEW t \in Threads \ {u}, Changing(t), NEW i \in Positions
               PROVE  PutsAt(op[t], i) \subseteq cand'[op[t].id][i]
    BY <1>3 DEF ChangesAreCandidates, Changing
  <2>1. op[t].id \in FileIds
    BY ChangeFacts
  <2>2. PutsAt(op[t], i) \subseteq cand[op[t].id][i]
    BY DEF RegularInv, ChangesAreCandidates
  <2>3. op[t].id = o.id => PutsAt(op[t], i) \subseteq o.seen[i]
    BY <1>1 DEF RegularInv, ChangesSeeEachOther, Sees, o
  <2> QED  BY <1>2, <2>1, <2>2, <2>3
<1>8. ChangesSeeEachOther'
  BY <1>3 DEF ChangesSeeEachOther, Changing, RegularInv
<1>9. ChangesArrive'
  BY <1>1, <1>3, <1>4 DEF ChangesArrive, Changing, RegularInv
<1> QED  BY <1>5, <1>6, <1>7, <1>8, <1>9 DEF RegularInv

\* A change that starts sees, and is seen by, those that are under way.
LEMMA StartRegular ==
  ASSUME TypeOK, Placement, RegularInv, [Next]_vars, NEW u \in Threads,
         NEW o \in ChangeState, Starts(u, o)
  PROVE  RegularInv'
<1>1. /\ Agrees(o, placed') /\ o.todo = ToSet(placed'[o.id]) /\ ~Changing(u) /\ Begin(u, o)
      /\ UNCHANGED data
  BY DEF Starts
<1>2. o.id \in FileIds
  BY DEF ChangeState
<1>3. \A id \in FileIds, i \in Positions :
        cand'[id][i] = cand[id][i] \cup (IF id = o.id THEN PutsAt(o, i) ELSE {})
  BY <1>1, BeginCandidates DEF TypeOK
<1>4. SameChange(o, op'[u])
  BY <1>1, BeginFacts DEF TypeOK
<1>5. ASSUME NEW t \in Threads \ {u}, op'[t].pc \in {"write", "trunc", "put"}
      PROVE  /\ Changing(t) /\ SameChange(op[t], op'[t]) /\ SeesMore(op[t], op'[t])
             /\ op[t].id = o.id => Sees(op'[u], op[t]) /\ Sees(op'[t], o)
  <2>1. /\ ~Changing(t) => op'[t] = op[t]
        /\ Changing(t) => SameChange(op[t], op'[t]) /\ SeesMore(op[t], op'[t])
        /\ ChangingId(t, o.id) => Sees(op'[u], op[t]) /\ Sees(op'[t], o)
    BY <1>1, BeginFacts DEF TypeOK
  <2>2. Changing(t)
    BY <1>5, <2>1 DEF Changing
  <2> QED  BY <2>1, <2>2 DEF Changing, ChangingId
<1>6. \A r, i : ByteRead(r, i)' = ByteRead(r, i)
  BY <1>1, ReadsStay DEF Content
<1>7. /\ op'[u].id = o.id /\ op'[u].todo = o.todo
      /\ \A i \in Positions : PutsAt(op'[u], i) = PutsAt(o, i)
  <2>1. \A i \in Positions : PutsAt(op'[u], i) = PutsAt(o, i)
    BY <1>4, PutsBytes
  <2> QED  BY <1>4, <2>1 DEF SameChange
<1>8. ASSUME NEW t \in Threads \ {u}, op'[t].pc \in {"write", "trunc", "put"}
      PROVE  /\ op'[t].id = op[t].id /\ op'[t].todo = op[t].todo
             /\ op'[t].failed = op[t].failed /\ Span(op'[t]) = Span(op[t])
             /\ op[t].id \in FileIds /\ op[t].id \in DOMAIN placed
             /\ Span(op[t]) \subseteq Positions
             /\ \A i \in Positions : PutsAt(op'[t], i) = PutsAt(op[t], i)
  <2>1. Changing(t) /\ SameChange(op[t], op'[t])
    BY <1>5, <1>8
  <2>2. op[t] \in ChangeState
    BY <2>1, ChangeFacts
  <2>3. \A i \in Positions : PutsAt(op'[t], i) = PutsAt(op[t], i)
    BY <2>1, <2>2, PutsBytes
  <2> QED  BY <2>1, <2>3, ChangeFacts DEF SameChange, Span
<1>9. UnplacedIsZero'
  <2>1. \A id \in DOMAIN placed : id \in DOMAIN placed'
    BY PlacementsStay
  <2> QED  BY <1>3, <2>1 DEF UnplacedIsZero, RegularInv
<1>10. LiveReads'
  <2> SUFFICES ASSUME NEW id \in LiveIds(tree'), NEW r \in ToSet(placed'[id]),
                      NEW i \in Positions
               PROVE  ByteRead(r, i) \in cand'[id][i]
    BY <1>6 DEF LiveReads
  <2>1. id \in FileIds /\ cand[id][i] \subseteq cand'[id][i]
    BY <1>3, LiveFacts
  <2>2. CASE id \in LiveIds(tree) /\ id \in DOMAIN placed /\ placed'[id] = placed[id]
    <3>1. ByteRead(r, i) \in cand[id][i]
      BY <2>2 DEF RegularInv, LiveReads
    <3> QED  BY <2>1, <3>1
  <2>3. CASE id \notin DOMAIN placed
    <3>1. r.remote = id
      BY <2>3, LiveFacts, PlacementsStay
    <3>2. r \notin DOMAIN data'
      BY <1>1, <2>3, <3>1 DEF Placement
    <3>3. ByteRead(r, i) = Zero
      BY <1>6, <3>2, NothingReadsZero
    <3> QED  BY <2>1, <2>3, <3>3 DEF RegularInv, UnplacedIsZero
  <2> QED  BY <2>2, <2>3, LiveFacts
<1>11. ChangesAreCandidates'
  <2> SUFFICES ASSUME NEW t \in Threads, op'[t].pc \in {"write", "trunc", "put"},
                      NEW i \in Positions
               PROVE  PutsAt(op'[t], i) \subseteq cand'[op'[t].id][i]
    BY DEF ChangesAreCandidates, Changing
  <2>1. CASE t = u
    BY <1>2, <1>3, <1>7, <2>1
  <2>2. CASE t # u
    <3>1. Changing(t)
      BY <1>5, <2>2
    <3>2. PutsAt(op[t], i) \subseteq cand[op[t].id][i]
      BY <3>1 DEF RegularInv, ChangesAreCandidates
    <3> QED  BY <1>3, <1>8, <2>2, <3>1, <3>2
  <2> QED  BY <2>1, <2>2
<1>12. ChangesSeeEachOther'
  <2> SUFFICES ASSUME NEW t \in Threads, NEW x \in Threads \ {t},
                      op'[t].pc \in {"write", "trunc", "put"},
                      op'[x].pc \in {"write", "trunc", "put"}, op'[t].id = op'[x].id,
                      NEW i \in Positions
               PROVE  PutsAt(op'[t], i) \subseteq op'[x].seen[i]
    BY DEF ChangesSeeEachOther, Changing, Sees
  <2>1. CASE t = u
    <3>1. Sees(op'[x], o)
      BY <1>5, <1>7, <1>8, <2>1
    <3> QED  BY <1>7, <2>1, <3>1 DEF Sees
  <2>2. CASE x = u
    <3>1. Sees(op'[u], op[t])
      BY <1>5, <1>7, <1>8, <2>2
    <3> QED  BY <1>8, <2>2, <3>1 DEF Sees
  <2>3. CASE t # u /\ x # u
    <3>1. Changing(t) /\ Changing(x) /\ op[t].id = op[x].id /\ SeesMore(op[x], op'[x])
      BY <1>5, <1>8, <2>3
    <3>2. Sees(op[x], op[t])
      BY <3>1 DEF RegularInv, ChangesSeeEachOther
    <3>3. PutsAt(op'[t], i) = PutsAt(op[t], i)
      BY <1>8, <2>3
    <3> QED  BY <3>1, <3>2, <3>3 DEF Sees, SeesMore
  <2> QED  BY <2>1, <2>2, <2>3
<1>13. ChangesArrive'
  <2> SUFFICES ASSUME NEW t \in Threads, op'[t].pc \in {"write", "trunc", "put"},
                      ~op'[t].failed, op'[t].id \in LiveIds(tree'),
                      NEW r \in ToSet(placed'[op'[t].id]) \ op'[t].todo,
                      NEW i \in Span(op'[t])
               PROVE  ByteRead(r, i) \in PutsAt(op'[t], i) \cup op'[t].seen[i]
    BY <1>6 DEF ChangesArrive, Changing
  <2>1. CASE t = u
    BY <1>1, <1>7, <2>1
  <2>2. CASE t # u
    <3>1. Changing(t) /\ SeesMore(op[t], op'[t])
      BY <1>5, <2>2
    <3>2. /\ op'[t].id = op[t].id /\ op'[t].todo = op[t].todo
          /\ op'[t].failed = op[t].failed /\ Span(op'[t]) = Span(op[t])
          /\ op[t].id \in DOMAIN placed /\ i \in Positions
          /\ PutsAt(op'[t], i) = PutsAt(op[t], i)
      BY <1>8, <2>2
    <3>3. op[t].id \in LiveIds(tree) /\ placed'[op[t].id] = placed[op[t].id]
      BY <3>2, LiveFacts
    <3>4. ByteRead(r, i) \in PutsAt(op[t], i) \cup op[t].seen[i]
      BY <3>1, <3>2, <3>3 DEF RegularInv, ChangesArrive
    <3> QED  BY <3>1, <3>2, <3>4 DEF SeesMore
  <2> QED  BY <2>1, <2>2
<1> QED  BY <1>9, <1>10, <1>11, <1>12, <1>13 DEF RegularInv

\* A node changes its replica, or the call fails and the change with it.
LEMMA NodeRegular ==
  ASSUME TypeOK, Placement, RegularInv, [Next]_vars, NEW u \in Threads, NEW w \in Replica,
         NodeFails(u, w) \/ \E acknowledged \in BOOLEAN : NodeChanges(u, w, acknowledged)
  PROVE  RegularInv'
<1>1. /\ Changing(u) /\ w \in op[u].todo /\ Answered(op[u], op'[u], w)
      /\ ~op'[u].failed => ~op[u].failed /\ ~NodeFails(u, w)
      /\ \A x \in Threads \ {u} : op'[x] = op[x]
  BY NodeAnswers
<1>2. UNCHANGED <<tree, placed, cand>>
  BY DEF NodeFails, NodeChanges
<1>3. /\ op[u].id \in FileIds /\ op[u].id \in DOMAIN placed /\ Span(op[u]) \subseteq Positions
      /\ w.remote = op[u].id
  BY <1>1, ChangeFacts
<1>4. ASSUME NEW r, NEW i \in Positions
      PROVE  /\ \/ ByteRead(r, i)' = ByteRead(r, i)
                \/ r = w /\ i \in Span(op[u]) /\ ByteRead(r, i)' \in PutsAt(op[u], i)
             /\ ~NodeFails(u, w) /\ r = w /\ i \in Span(op[u]) =>
                  ByteRead(r, i)' \in PutsAt(op[u], i)
  <2>1. CASE NodeFails(u, w)
    <3>1. Content(r)' = Content(r)
      BY <2>1 DEF NodeFails, Content
    <3> QED  BY <2>1, <3>1, ReadsStay
  <2>2. ASSUME NEW acknowledged \in BOOLEAN, NodeChanges(u, w, acknowledged)
        PROVE  /\ IF i \in Span(op[u]) THEN ByteRead(w, i)' \in PutsAt(op[u], i)
                  ELSE ByteRead(w, i)' = ByteRead(w, i)
               /\ r # w => ByteRead(r, i)' = ByteRead(r, i)
    BY <2>2, NodeReads
  <2> QED  BY <2>1, <2>2
<1>5. ASSUME NEW t \in Threads, op'[t].pc \in {"write", "trunc", "put"}
      PROVE  /\ Changing(t) /\ op'[t].id = op[t].id /\ op'[t].seen = op[t].seen
             /\ Span(op'[t]) = Span(op[t])
             /\ \A i : PutsAt(op'[t], i) = PutsAt(op[t], i)
             /\ op[t].id \in FileIds /\ op[t].id \in DOMAIN placed
             /\ Span(op[t]) \subseteq Positions
             /\ ~op'[t].failed => ~op[t].failed
             /\ \A r \in ToSet(placed[op[t].id]) : r.remote = op[t].id
  <2>1. /\ Changing(t) /\ op'[t].pc = op[t].pc /\ op'[t].id = op[t].id
        /\ op'[t].val = op[t].val
        /\ op'[t].seen = op[t].seen /\ op'[t].at = op[t].at /\ op'[t].length = op[t].length
        /\ ~op'[t].failed => ~op[t].failed
    <3>1. CASE t = u
      BY <1>1, <3>1 DEF Answered
    <3>2. CASE t # u
      BY <1>1, <1>5, <3>2 DEF Changing
    <3> QED  BY <3>1, <3>2
  <2>2. Span(op'[t]) = Span(op[t]) /\ \A i : PutsAt(op'[t], i) = PutsAt(op[t], i)
    BY <2>1 DEF Span, PutsAt
  <2> QED  BY <2>1, <2>2, ChangeFacts
<1>6. UnplacedIsZero'
  BY <1>2 DEF UnplacedIsZero, RegularInv
<1>7. ChangesAreCandidates'
  BY <1>2, <1>5 DEF ChangesAreCandidates, Changing, RegularInv
<1>8. ChangesSeeEachOther'
  BY <1>5 DEF ChangesSeeEachOther, Changing, RegularInv, Sees
<1>9. LiveReads'
  <2> SUFFICES ASSUME NEW id \in LiveIds(tree), NEW r \in ToSet(placed[id]),
                      NEW i \in Positions
               PROVE  ByteRead(r, i)' \in cand[id][i]
    BY <1>2 DEF LiveReads
  <2>1. CASE ByteRead(r, i)' = ByteRead(r, i)
    BY <2>1 DEF RegularInv, LiveReads
  <2>2. CASE r = w /\ i \in Span(op[u]) /\ ByteRead(r, i)' \in PutsAt(op[u], i)
    <3>1. id = op[u].id
      <4>1. id \in DOMAIN placed
        BY LiveFacts, <1>2
      <4> QED  BY <1>3, <2>2, <4>1 DEF Placement
    <3>2. PutsAt(op[u], i) \subseteq cand[id][i]
      BY <1>1, <3>1 DEF RegularInv, ChangesAreCandidates
    <3> QED  BY <2>2, <3>2
  <2> QED  BY <1>4, <2>1, <2>2
<1>10. ChangesArrive'
  <2> SUFFICES ASSUME NEW t \in Threads, op'[t].pc \in {"write", "trunc", "put"},
                      ~op'[t].failed, op'[t].id \in LiveIds(tree),
                      NEW r \in ToSet(placed[op'[t].id]) \ op'[t].todo,
                      NEW i \in Span(op'[t])
               PROVE  ByteRead(r, i)' \in PutsAt(op'[t], i) \cup op'[t].seen[i]
    BY <1>2 DEF ChangesArrive, Changing
  <2>1. /\ Changing(t) /\ op'[t].id = op[t].id /\ PutsAt(op'[t], i) = PutsAt(op[t], i)
        /\ op'[t].seen = op[t].seen /\ i \in Span(op[t]) /\ ~op[t].failed
        /\ r \in ToSet(placed[op[t].id]) /\ i \in Positions /\ r.remote = op[t].id
    BY <1>5
  <2>2. CASE r = w /\ i \in Span(op[u]) /\ ByteRead(r, i)' \in PutsAt(op[u], i)
    <3>1. CASE t = u
      BY <2>1, <2>2, <3>1
    <3>2. CASE t # u
      <4>1. op[t].id = op[u].id
        BY <1>3, <2>1, <2>2
      <4>2. Sees(op[t], op[u])
        BY <1>1, <2>1, <3>2, <4>1 DEF RegularInv, ChangesSeeEachOther
      <4> QED  BY <2>1, <2>2, <4>2 DEF Sees
    <3> QED  BY <3>1, <3>2
  <2>3. CASE ByteRead(r, i)' = ByteRead(r, i) /\ r \notin op[t].todo
    <3>1. ByteRead(r, i) \in PutsAt(op[t], i) \cup op[t].seen[i]
      BY <2>1, <2>3 DEF RegularInv, ChangesArrive
    <3> QED  BY <2>1, <2>3, <3>1
  <2>4. CASE r \in op[t].todo
    <3>1. t = u /\ r = w
      BY <1>1, <2>4 DEF Answered
    <3>2. ~NodeFails(u, w)
      BY <1>1, <3>1
    <3>3. ByteRead(r, i)' \in PutsAt(op[u], i)
      BY <1>4, <2>1, <3>1, <3>2
    <3> QED  BY <2>1, <3>1, <3>3
  <2> QED  BY <1>4, <2>1, <2>2, <2>3, <2>4
<1> QED  BY <1>6, <1>7, <1>8, <1>9, <1>10 DEF RegularInv

LEMMA NextRegular ==
  ASSUME TypeOK, Placement, RegularInv, [Next]_vars
  PROVE  RegularInv'
BY QuietRegular, SettleRegular, StartRegular, NodeRegular, ContentSteps
   DEF ContentStep

\* A read returns, from whichever replica, the last value that was reported as
\* written, or that of a change that overlapped it or failed since; never one
\* that had been overwritten before (docs/filesystem-semantics.md:198).  So it
\* is at the path of a file while no upload has overwritten it, and through the
\* handles of a file as long as its FileID is in the tree, also after that.
THEOREM FileReadsRegular == Spec => []ReadsAreRegular
<1>1. Init => TypeOK /\ Placement /\ RegularInv
  <2> SUFFICES ASSUME Init PROVE TypeOK /\ Placement /\ RegularInv
    OBVIOUS
  <2>1. TypeOK /\ Placement
    BY InitTyped
  <2>2. \A id \in FileIds, i \in Positions : cand[id][i] = {Zero}
    BY DEF Init
  <2>3. LiveIds(tree) = {}
    BY DEF Init, EmptyTree, LiveIds, IsFile, NoEntry, Dir
  <2>4. \A t \in Threads : ~Changing(t)
    BY DEF Init, Changing, Idle
  <2> QED
    BY <2>1, <2>2, <2>3, <2>4
       DEF RegularInv, UnplacedIsZero, LiveReads, ChangesAreCandidates, ChangesSeeEachOther,
           ChangesArrive
<1>2. TypeOK /\ Placement /\ RegularInv /\ [Next]_vars => TypeOK' /\ Placement' /\ RegularInv'
  BY NextTyped, NextRegular
<1>3. TypeOK /\ Placement /\ RegularInv => ReadsAreRegular
  <2> SUFFICES ASSUME TypeOK, Placement, RegularInv PROVE ReadsAreRegular
    OBVIOUS
  <2>1. ASSUME NEW replicas, IsPlaced(replicas), IdOf(replicas) \in LiveIds(tree)
        PROVE  RegularAt(replicas)
    <3>1. placed[IdOf(replicas)] = replicas
      BY <2>1, PlacedIds
    <3> QED  BY <2>1, <3>1 DEF RegularInv, LiveReads, RegularAt
  <2>2. ASSUME NEW p \in Paths, IsFile(tree, p), tree[p].fileID = IdOf(tree[p].replicas)
        PROVE  RegularAt(tree[p].replicas)
    <3>1. IsPlaced(tree[p].replicas) /\ tree[p].fileID \in LiveIds(tree)
      BY <2>2, FileIsPlaced DEF Locations
    <3> QED  BY <2>1, <2>2, <3>1
  <2>3. ASSUME NEW h \in Handles, fh[h].open, IdOf(fh[h].replicas) \in LiveIds(tree)
        PROVE  RegularAt(fh[h].replicas)
    <3>1. IsPlaced(fh[h].replicas)
      BY <2>3 DEF Placement
    <3> QED  BY <2>1, <2>3, <3>1
  <2> QED  BY <2>2, <2>3 DEF ReadsAreRegular
<1> QED  BY <1>1, <1>2, <1>3, PTL DEF Spec

-----------------------------------------------------------------------------
(* Sizes                                                                   *)

\* The file with identity id is at p, with the replicas it was created with, and
\* p has been left alone.
Intact(p, id) ==
  /\ p \notin touched /\ IsFile(tree, p)
  /\ tree[p].fileID = id /\ tree[p].replicas = placed[id]

\* A file at a path that has been left alone has the replicas of its FileID, and
\* who holds the path holds that file.
PathsKept ==
  /\ \A p \in Paths \ touched : IsFile(tree, p) => Intact(p, tree[p].fileID)
  /\ \A h \in Handles : fh[h].open /\ fh[h].path \notin touched =>
       Intact(fh[h].path, IdOf(fh[h].replicas))
  /\ \A t \in Threads : op[t].pc = "locate" /\ op[t].replicas # <<>>
                          /\ op[t].path \notin touched =>
       Intact(op[t].path, IdOf(op[t].replicas))
  /\ \A t \in Threads : op[t].pc \in {"write", "trunc", "put", "size", "cut"}
                          /\ op[t].path \notin touched =>
       Intact(op[t].path, op[t].id)

\* No two files have the same replicas.
OwnReplicas ==
  \A p, q \in Locations :
    IsFile(tree, p) /\ IsFile(tree, q) /\ tree[p].replicas = tree[q].replicas => p = q

\* A file that is cut has been touched, before its contents are, and so has one
\* to which nothing is written; an upload reaches no file but the one at its path.
CutsTouch ==
  /\ \A t \in Threads : op[t].pc \in {"trunc", "cut"} => op[t].path \in touched
  /\ \A t \in Threads : op[t].pc = "write" /\ op[t].length = 0 => op[t].path \in touched
  /\ \A t \in Threads : op[t].pc = "trunc" => \A p \in Paths : ~Intact(p, op[t].id)
  /\ \A t \in Threads : op[t].pc = "put" =>
       \A p \in Paths : Intact(p, op[t].id) => p = op[t].path

\* Where a write has gone through, the contents reach as far as it does.
WritesReach ==
  /\ \A t \in Threads :
       op[t].pc = "write" /\ ~op[t].failed /\ op[t].path \notin touched =>
         \A r \in ToSet(placed[op[t].id]) \ op[t].todo :
           op[t].at + op[t].length <= Len(Content(r))
  /\ \A t \in Threads : op[t].pc = "size" => op[t].id \in DOMAIN placed
  /\ \A t \in Threads :
       op[t].pc = "size" /\ op[t].path \notin touched =>
         \A r \in ToSet(placed[op[t].id]) : op[t].size <= Len(Content(r))

\* The size of a file that is being uploaded is that of the upload, or of what is
\* there already; where the upload has gone through, so has its size.
PutsReach ==
  \A t \in Threads : op[t].pc = "put" /\ op[t].path \notin touched =>
    \A r \in ToSet(placed[op[t].id]) :
      /\ \/ tree[op[t].path].size <= op[t].length
         \/ tree[op[t].path].size <= Len(Content(r))
      /\ ~op[t].failed /\ r \notin op[t].todo => op[t].length <= Len(Content(r))

SizeInv ==
  /\ OwnReplicas
  /\ PathsKept
  /\ CutsTouch
  /\ WritesReach
  /\ PutsReach
  /\ MetadataFollowsData

\* The steps that change the tree.
Uploading(p) == \E t \in Threads : op[t].pc = "put" /\ op[t].path = p

Creates(p, id) ==
  /\ NewReplicasAt(p, id)
  /\ p \in touched' \/ tree'[p].size = 0
     \/ \E t \in Threads : op'[t].pc = "put" /\ op'[t].path = p

UpdatesSize(t) ==
  /\ op[t].pc \in {"size", "cut"} /\ op[t] \in SizeState
  /\ IsFile(tree, op[t].path)
  /\ tree' = applyUpdateSize(tree, op[t].path, op[t].size)

Completes(p) == IsFile(tree, p) /\ tree' = applyCompleteFile(tree, p)

Unlinks(p) == tree' = applyDelete(tree, p) /\ Below(p) \subseteq touched'

TreeStep ==
  \/ UNCHANGED tree
  \/ \E p \in Paths, id \in FileIds : Creates(p, id)
  \/ \E t \in Threads : UpdatesSize(t)
  \/ \E p \in Locations : Completes(p)
  \/ \E src, dst \in Paths : Rename(src, dst)
  \/ \E p \in Locations : Unlinks(p)

\* An upload that has its answer is under way.
LEMMA PutCreatesFile ==
  ASSUME TypeOK, Placement, NEW t \in Threads, NEW p \in Paths, NEW id \in FileIds, NEW mode,
         NEW length \in Lengths, NEW mark \in Marks, NEW answered \in BOOLEAN,
         PutStart(t, p, id, mode, length, mark, answered)
  PROVE  Creates(p, id)
<1>1. NewReplicasAt(p, id) /\ tree'[p].size = length
  BY PutCreates
<1>2. CASE answered
  <2> DEFINE o == PutOp(p, id, length, mark)
  <2>1. placed' = Placed(id, selectDataNodes(Nodes, p, id)) /\ op[t] = Idle
    BY DEF PutStart
  <2>2. Begin(t, o)
    BY <1>2 DEF PutStart, PutOp
  <2>3. o \in ChangeState /\ o.pc = "put" /\ o.path = p
    <3>1. o \in ChangeState
      BY <2>1, PutOpFacts
    <3> QED  BY <3>1 DEF PutOp
  <2>4. ~Changing(t) /\ op \in [Threads -> ThreadState]
    BY <2>1 DEF Changing, Idle, TypeOK
  <2> HIDE DEF o
  <2>5. SameChange(o, op'[t])
    BY <2>2, <2>3, <2>4, BeginFacts
  <2> QED  BY <1>1, <2>3, <2>5 DEF Creates, SameChange
<1>3. CASE ~answered
  BY <1>1, <1>3 DEF Creates, PutStart
<1> QED  BY <1>2, <1>3

LEMMA TreeChanges ==
  ASSUME TypeOK, Placement, [Next]_vars
  PROVE  TreeStep
<1>0. tree \in [Locations -> Entry] /\ Paths \subseteq Locations
  BY DEF TypeOK, Locations
<1>a. ASSUME UNCHANGED tree PROVE TreeStep
  BY <1>a DEF TreeStep
<1>b. ASSUME NEW p, CanCompleteFile(tree, p), tree' = applyCompleteFile(tree, p)
      PROVE  TreeStep
  <2>1. CASE p \in Locations
    BY <1>b, <2>1 DEF TreeStep, Completes, CanCompleteFile
  <2>2. CASE p \notin Locations
    <3>1. tree' = tree
      BY <1>0, <1>b, <2>2 DEF applyCompleteFile
    <3> QED  BY <1>a, <3>1
  <2> QED  BY <2>1, <2>2
<1>1. ASSUME NEW t \in Threads, OpenNext(t) PROVE TreeStep
  <2>1. ASSUME NEW id \in FileIds, NEW answered \in BOOLEAN, OpenCreate(t, id, answered)
        PROVE  TreeStep
    <3>1. op[t].path \in Paths
      BY <2>1, ThreadStates DEF OpenCreate, TypeOK, CreateState
    <3>2. Creates(op[t].path, id)
      BY <2>1, OpenCreates DEF Creates
    <3> QED  BY <3>1, <3>2 DEF TreeStep
  <2> QED  BY <1>1, <1>a, <2>1 DEF OpenNext, OpenStat, OpenTruncate, TruncateFile, OpenLocate
<1>2. ASSUME NEW t \in Threads, ChangeNext(t) PROVE TreeStep
  <2>1. CASE WriteSize(t) \/ \E answered \in BOOLEAN : TruncateSize(t, answered)
    <3>1. UpdatesSize(t)
      BY <2>1, ThreadStates DEF WriteSize, TruncateSize, UpdatesSize, CanUpdateSize, TypeOK
    <3> QED  BY <3>1 DEF TreeStep
  <2> QED
    BY <1>2, <1>a, <2>1
       DEF ChangeNext, WriteStart, Truncate, TruncateFile, NodeChanges, NodeFails,
           WriteSettle, TruncateSettle, ChangeAborts
<1>3. ASSUME NEW t \in Threads, CloseNext(t) PROVE TreeStep
  <2>1. ASSUME NEW answered \in BOOLEAN, CloseComplete(t, answered) PROVE TreeStep
    BY <1>b, <2>1 DEF CloseComplete
  <2> QED  BY <1>3, <1>a, <2>1 DEF CloseNext, Close, CallFails
<1>4. CASE Crash \/ UNCHANGED vars
  BY <1>4, <1>a DEF Crash, vars
<1>5. ASSUME NEW r \in DOMAIN data, Reclaim(r) PROVE TreeStep
  BY <1>5, <1>a DEF Reclaim
<1>6. ASSUME NEW src \in Paths, NEW dst \in Paths, Rename(src, dst) PROVE TreeStep
  BY <1>6 DEF TreeStep
<1>7. ASSUME NEW p \in Paths, Unlink(p) PROVE TreeStep
  BY <1>0, <1>7 DEF Unlink, Unlinks, TreeStep
<1>8. ASSUME NEW t \in Threads, PutNext(t) PROVE TreeStep
  <2>1. ASSUME NEW p \in Paths, NEW id \in FileIds, NEW mode \in Modes, NEW length \in Lengths,
               NEW mark \in Marks, NEW answered \in BOOLEAN,
               PutStart(t, p, id, mode, length, mark, answered)
        PROVE  TreeStep
    BY <2>1, PutCreatesFile DEF TreeStep
  <2>2. CASE PutComplete(t)
    BY <1>b, <2>2 DEF PutComplete
  <2>3. CASE PutUndo(t)
    <3>1. op[t].path \in Paths
      BY <2>3, ThreadStates DEF PutUndo, TypeOK, PutState
    <3> QED  BY <1>0, <2>3, <3>1 DEF PutUndo, Unlinks, TreeStep
  <2>4. CASE PutSettle(t) \/ PutStops(t)
    BY <1>a, <2>4 DEF PutSettle, PutStops
  <2> QED  BY <1>8, <2>1, <2>2, <2>3, <2>4 DEF PutNext
<1>9. CASE OthersNext
  BY <1>5, <1>6, <1>7, <1>9 DEF OthersNext
<1> QED  BY <1>1, <1>2, <1>3, <1>4, <1>8, <1>9 DEF Next

\* What a step does at a path that it leaves alone: the file there stays, its size
\* changes only as a thread tells it, and a file that comes there is new.
SameFileAt(p) ==
  /\ tree'[p].fileID = tree[p].fileID /\ tree'[p].replicas = tree[p].replicas
  /\ \/ tree'[p].size = tree[p].size
     \/ \E t \in Threads :
          UpdatesSize(t) /\ op[t].path = p /\ tree'[p].size = op[t].size

PathStep(p) ==
  \/ /\ IsFile(tree', p) <=> IsFile(tree, p)
     /\ IsFile(tree, p) => SameFileAt(p)
  \/ ~IsFile(tree, p) /\ \E id \in FileIds : Creates(p, id)

LEMMA PathSteps ==
  ASSUME TypeOK, Placement, [Next]_vars, NEW p \in Paths, p \notin touched'
  PROVE  PathStep(p)
<1>0. /\ tree \in [Locations -> Entry] /\ p \in Locations
      /\ IsFile(tree, p) => tree[p] \in FileEntry
  BY FileEntries DEF TypeOK, Locations
<1>a. ASSUME tree'[p] = tree[p] PROVE PathStep(p)
  BY <1>a DEF PathStep, SameFileAt, IsFile
<1>1. CASE UNCHANGED tree
  BY <1>1, <1>a
<1>2. ASSUME NEW q \in Paths, NEW id \in FileIds, Creates(q, id) PROVE PathStep(p)
  <2>1. CASE q = p
    <3>1. ~IsFile(tree, p)
      BY <1>2, <2>1 DEF Creates, NewReplicasAt
    <3> QED  BY <1>2, <2>1, <3>1 DEF PathStep
  <2>2. CASE q # p
    <3>1. tree'[p] = tree[p]
      BY <1>0, <1>2, <2>2 DEF Creates, NewReplicasAt
    <3> QED  BY <1>a, <3>1
  <2> QED  BY <2>1, <2>2
<1>3. ASSUME NEW t \in Threads, UpdatesSize(t) PROVE PathStep(p)
  <2>1. CASE op[t].path = p
    <3>1. tree'[p] = [tree[p] EXCEPT !.size = op[t].size] /\ tree[p] \in FileEntry
      BY <1>0, <1>3, <2>1 DEF UpdatesSize, applyUpdateSize
    <3>2. /\ tree'[p].kind = tree[p].kind /\ tree'[p].fileID = tree[p].fileID
          /\ tree'[p].replicas = tree[p].replicas /\ tree'[p].size = op[t].size
      BY <3>1 DEF FileEntry
    <3> QED  BY <1>3, <2>1, <3>2 DEF PathStep, SameFileAt, IsFile
  <2>2. CASE op[t].path # p
    BY <1>0, <1>3, <1>a, <2>2 DEF UpdatesSize, applyUpdateSize
  <2> QED  BY <2>1, <2>2
<1>4. ASSUME NEW q \in Locations, Completes(q) PROVE PathStep(p)
  <2>1. CASE q = p
    <3>1. tree'[p] = [tree[p] EXCEPT !.status = "complete"] /\ tree[p] \in FileEntry
      BY <1>0, <1>4, <2>1 DEF Completes, applyCompleteFile
    <3>2. /\ tree'[p].kind = tree[p].kind /\ tree'[p].fileID = tree[p].fileID
          /\ tree'[p].replicas = tree[p].replicas /\ tree'[p].size = tree[p].size
      BY <3>1 DEF FileEntry
    <3> QED  BY <3>2 DEF PathStep, SameFileAt, IsFile
  <2>2. CASE q # p
    BY <1>0, <1>4, <1>a, <2>2 DEF Completes, applyCompleteFile
  <2> QED  BY <2>1, <2>2
<1>5. ASSUME NEW src \in Paths, NEW dst \in Paths, Rename(src, dst) PROVE PathStep(p)
  <2>1. ~IsPrefix(src, p) /\ ~IsPrefix(dst, p)
    BY <1>5 DEF Rename, Below
  <2> QED  BY <1>0, <1>5, <1>a, <2>1, RenameAt DEF Rename
<1>6. ASSUME NEW q \in Locations, Unlinks(q) PROVE PathStep(p)
  <2>1. ~IsPrefix(q, p)
    BY <1>6 DEF Unlinks, Below
  <2> QED  BY <1>0, <1>6, <1>a, <2>1 DEF Unlinks, applyDelete
<1> QED  BY <1>1, <1>2, <1>3, <1>4, <1>5, <1>6, TreeChanges DEF TreeStep

\* No two files ever have the same replicas.
LEMMA SelectedId ==
  ASSUME NEW p \in Paths, NEW id \in FileIds
  PROVE  IdOf(selectDataNodes(Nodes, p, id)) = id
BY Selected, HeadElement DEF IdOf

LEMMA NextOwnReplicas ==
  ASSUME TypeOK, Placement, OwnReplicas, [Next]_vars
  PROVE  OwnReplicas'
<1>0. tree \in [Locations -> Entry] /\ Paths \subseteq Locations
  BY DEF TypeOK, Locations
<1>a. ASSUME \A q \in Locations : IsFile(tree', q) =>
               IsFile(tree, q) /\ tree'[q].replicas = tree[q].replicas
      PROVE  OwnReplicas'
  BY <1>a DEF OwnReplicas
<1>b. ASSUME NEW q \in Locations, IsFile(tree, q), NEW e, e.replicas = tree[q].replicas,
             \A x \in Locations : tree'[x] = IF x = q THEN e ELSE tree[x]
      PROVE  OwnReplicas'
  <2>1. \A x \in Locations : IsFile(tree', x) =>
          IsFile(tree, x) /\ tree'[x].replicas = tree[x].replicas
    BY <1>b DEF IsFile
  <2> QED  BY <1>a, <2>1
<1>1. CASE UNCHANGED tree
  BY <1>1 DEF OwnReplicas
<1>2. ASSUME NEW p \in Paths, NEW id \in FileIds, Creates(p, id)
      PROVE  OwnReplicas'
  <2>1. /\ id \notin DOMAIN placed /\ p \in Locations
        /\ tree'[p].replicas = selectDataNodes(Nodes, p, id)
        /\ \A q \in Locations \ {p} : tree'[q] = tree[q]
    BY <1>0, <1>2 DEF Creates, NewReplicasAt
  <2>2. IdOf(tree'[p].replicas) = id
    BY <2>1, SelectedId
  <2>3. ASSUME NEW q \in Locations \ {p}, IsFile(tree', q)
        PROVE  /\ IsFile(tree, q) /\ tree'[q].replicas = tree[q].replicas
               /\ tree'[q].replicas # tree'[p].replicas
    <3>1. IsFile(tree, q) /\ tree'[q] = tree[q]
      BY <2>1, <2>3 DEF IsFile
    <3>2. IdOf(tree[q].replicas) \in DOMAIN placed
      BY <3>1, FileIsPlaced
    <3> QED  BY <2>1, <2>2, <3>1, <3>2
  <2> QED  BY <2>3 DEF OwnReplicas
<1>3. ASSUME NEW t \in Threads, UpdatesSize(t) PROVE OwnReplicas'
  <2> DEFINE q == op[t].path
             e == [tree[q] EXCEPT !.size = op[t].size]
  <2>1. q \in Locations /\ IsFile(tree, q)
    BY <1>0, <1>3 DEF UpdatesSize, SizeState
  <2>2. \A x \in Locations : tree'[x] = IF x = q THEN e ELSE tree[x]
    BY <1>0, <1>3, <2>1 DEF UpdatesSize, applyUpdateSize
  <2>3. e.replicas = tree[q].replicas
    BY <2>1, FileEntries DEF FileEntry
  <2> HIDE DEF e, q
  <2> QED  BY <1>b, <2>1, <2>2, <2>3
<1>4. ASSUME NEW q \in Locations, Completes(q) PROVE OwnReplicas'
  <2> DEFINE e == [tree[q] EXCEPT !.status = "complete"]
  <2>1. IsFile(tree, q) /\ \A x \in Locations : tree'[x] = IF x = q THEN e ELSE tree[x]
    BY <1>0, <1>4 DEF Completes, applyCompleteFile
  <2>2. e.replicas = tree[q].replicas
    BY <2>1, FileEntries DEF FileEntry
  <2> HIDE DEF e
  <2> QED  BY <1>b, <2>1, <2>2
<1>5. ASSUME NEW src \in Paths, NEW dst \in Paths, Rename(src, dst) PROVE OwnReplicas'
  <2> DEFINE origin(q) == Origin(src, dst, q)
  <2>1. /\ \A q \in Locations : IsFile(tree', q) =>
             origin(q) \in Locations /\ tree'[q] = tree[origin(q)]
        /\ \A q, r \in Locations :
             IsFile(tree', q) /\ IsFile(tree', r) /\ origin(q) = origin(r) => q = r
    BY <1>0, <1>5, RenameOrigins DEF Rename
  <2> HIDE DEF origin
  <2> QED  BY <2>1 DEF OwnReplicas, IsFile
<1>6. ASSUME NEW p \in Locations, Unlinks(p) PROVE OwnReplicas'
  BY <1>6, <1>a DEF Unlinks, applyDelete, IsFile, NoEntry
<1> QED  BY <1>1, <1>2, <1>3, <1>4, <1>5, <1>6, TreeChanges DEF TreeStep

\* What has been touched remains so.
LEMMA TouchedGrows ==
  ASSUME [Next]_vars
  PROVE  touched \subseteq touched'
<1>1. ASSUME NEW t, OpenNext(t) PROVE touched \subseteq touched'
  BY <1>1 DEF OpenNext, OpenStat, OpenCreate, OpenTruncate, TruncateFile, OpenLocate
<1>2. ASSUME NEW t, ChangeNext(t) PROVE touched \subseteq touched'
  BY <1>2 DEF ChangeNext, WriteStart, Truncate, TruncateFile, NodeChanges, NodeFails,
              WriteSettle, TruncateSettle, ChangeAborts, WriteSize, TruncateSize
<1>3. ASSUME NEW t, CloseNext(t) PROVE touched \subseteq touched'
  BY <1>3 DEF CloseNext, Close, CloseComplete, CallFails
<1>4. CASE Crash \/ UNCHANGED vars
  BY <1>4 DEF Crash, vars
<1>5. ASSUME NEW src, NEW dst, Rename(src, dst) PROVE touched \subseteq touched'
  BY <1>5 DEF Rename
<1>6. ASSUME NEW p, Unlink(p) PROVE touched \subseteq touched'
  BY <1>6 DEF Unlink
<1>7. ASSUME NEW r, Reclaim(r) PROVE touched \subseteq touched'
  BY <1>7 DEF Reclaim
<1>8. ASSUME NEW t, PutNext(t) PROVE touched \subseteq touched'
  <2>1. ASSUME NEW p, NEW id, NEW mode, NEW length, NEW mark, NEW answered,
               PutStart(t, p, id, mode, length, mark, answered)
        PROVE  touched \subseteq touched'
    BY <2>1 DEF PutStart
  <2> QED  BY <1>8, <2>1 DEF PutNext, PutSettle, PutComplete, PutUndo, PutStops
<1>9. CASE OthersNext
  BY <1>5, <1>6, <1>7, <1>9 DEF OthersNext
<1> QED  BY <1>1, <1>2, <1>3, <1>4, <1>8, <1>9 DEF Next

\* The file id is at p after the step, and p has been left alone.
Remains(p, id) ==
  /\ p \notin touched' /\ IsFile(tree', p)
  /\ tree'[p].fileID = id /\ tree'[p].replicas = placed'[id]

\* A file stays at a path that is left alone,
LEMMA IntactStays ==
  ASSUME TypeOK, Placement, [Next]_vars, NEW p \in Paths, NEW id, Intact(p, id),
         p \notin touched'
  PROVE  Remains(p, id)
<1>1. /\ IsFile(tree, p) /\ tree[p].fileID = id /\ tree[p].replicas = placed[id]
      /\ p \in Locations
  BY DEF Intact, Locations
<1>2. id \in DOMAIN placed /\ placed'[id] = placed[id]
  BY <1>1, FileIsPlaced, PlacementsStay
<1>3. IsFile(tree', p) /\ SameFileAt(p)
  BY <1>1, PathSteps DEF PathStep
<1> QED  BY <1>1, <1>2, <1>3 DEF Remains, SameFileAt

\* and one that is there with an identity that had been placed was there before.
LEMMA IntactBefore ==
  ASSUME TypeOK, Placement, [Next]_vars, NEW p \in Paths, NEW id \in DOMAIN placed,
         Remains(p, id)
  PROVE  Intact(p, id)
<1>1. /\ p \notin touched' /\ p \notin touched /\ IsFile(tree', p)
      /\ tree'[p].fileID = id /\ tree'[p].replicas = placed[id]
  BY TouchedGrows, PlacementsStay DEF Remains
<1>2. CASE ~IsFile(tree, p) /\ \E x \in FileIds : Creates(p, x)
  BY <1>1, <1>2 DEF Creates, NewReplicasAt
<1>3. CASE IsFile(tree, p) /\ SameFileAt(p)
  BY <1>1, <1>3 DEF Intact, SameFileAt
<1> QED  BY <1>1, <1>2, <1>3, PathSteps DEF PathStep

\* An intact file is live.
LEMMA IntactLives ==
  ASSUME NEW p \in Paths, NEW id, Intact(p, id)
  PROVE  id \in LiveIds(tree)
BY DEF Intact, LiveIds, Locations

\* The contents of a file that is left alone never get shorter.
LEMMA ContentsGrow ==
  ASSUME TypeOK, Placement, CutsTouch, [Next]_vars, NEW p \in Paths,
         NEW id \in DOMAIN placed, Intact(p, id), p \notin touched',
         NEW r \in ToSet(placed[id])
  PROVE  Len(Content(r)) <= Len(Content(r)')
<1>0. /\ id \in LiveIds(tree) /\ r.remote = id
      /\ Content(r) \in Contents /\ Len(Content(r)) \in Nat
  <2>1. Content(r) \in Contents
    BY ContentType
  <2> QED  BY <2>1, IntactLives, ContentsFacts, SizesAssumption DEF Placement
<1>a. ASSUME Content(r)' = Content(r) PROVE Len(Content(r)) <= Len(Content(r)')
  BY <1>0, <1>a
<1>1. CASE UNCHANGED data
  BY <1>1, <1>a DEF Content
<1>2. ASSUME NEW x \in DOMAIN data, Reclaim(x) PROVE Len(Content(r)) <= Len(Content(r)')
  <2>1. x # r /\ data' = [y \in DOMAIN data \ {x} |-> data[y]]
    BY <1>0, <1>2 DEF Reclaim
  <2> QED  BY <1>a, <2>1 DEF Content
<1>4. ASSUME NEW t \in Threads, NEW x \in Replica, NEW acknowledged \in BOOLEAN,
             NodeChanges(t, x, acknowledged)
      PROVE  Len(Content(r)) <= Len(Content(r)')
  <2>1. NodeChanged(t, x)
    BY <1>4, NodeChangesContent
  <2>2. CASE x # r
    <3>1. Content(r)' = Content(r)
      BY <2>1, <2>2 DEF NodeChanged, Content
    <3> QED  BY <1>a, <3>1
  <2>3. CASE x = r
    <3>1. /\ op[t].id = id /\ op[t].pc \in {"write", "trunc", "put"}
          /\ Content(r)' = data'[r]
      BY <1>0, <1>4, <2>1, <2>3 DEF NodeChanged, NodeChanges, Changing, Content
    <3>2. op[t].pc # "trunc"
      BY <3>1 DEF CutsTouch
    <3>3. CASE op[t].pc = "write"
      BY <2>1, <2>3, <3>1, <3>3 DEF NodeChanged
    <3>4. CASE op[t].pc = "put"
      <4>1. op[t].path = p
        BY <3>1, <3>4 DEF CutsTouch
      <4>2. Len(data'[r]) = op[t].length /\ ~(Len(Content(r)) > op[t].length)
        BY <2>1, <2>3, <3>4, <4>1 DEF NodeChanged
      <4>3. op[t].length \in Nat
        BY <2>1, SizesAssumption DEF NodeChanged, ChangeState
      <4> QED  BY <1>0, <3>1, <4>2, <4>3
    <3> QED  BY <3>1, <3>2, <3>3, <3>4
  <2> QED  BY <2>2, <2>3
<1>5. ASSUME NEW t \in Threads, NEW x \in Replica, NodeFails(t, x) PROVE UNCHANGED data
  BY <1>5 DEF NodeFails
<1> QED
  BY <1>1, <1>2, <1>4, <1>5, ContentSteps DEF ContentStep, Quiet, Settles, Starts

\* Where threads have their paths from.
SamePath(s, s2) == s2.path = s.path /\ s2.id = s.id

GoesOn(t) ==
  /\ Changing(t) /\ op'[t].pc = op[t].pc /\ SamePath(op[t], op'[t])
  /\ op'[t].at = op[t].at /\ op'[t].length = op[t].length
  /\ op'[t].todo \subseteq op[t].todo
  /\ ~op'[t].failed => ~op[t].failed
  /\ \/ op'[t].todo = op[t].todo
     \/ \E r \in Replica : /\ op'[t].todo = op[t].todo \ {r}
                           /\ ~op'[t].failed => NodeChanged(t, r)

ThreadPath(t) ==
  /\ op'[t].pc = "locate" /\ op'[t].replicas # <<>> =>
       \/ op'[t] = op[t]
       \/ \E id \in FileIds : NewReplicasAt(op'[t].path, id) /\ op'[t].path \in Paths
            /\ op'[t].replicas = selectDataNodes(Nodes, op'[t].path, id)
  /\ op'[t].pc \in {"size", "cut"} =>
       \/ op'[t] = op[t]
       \/ /\ Settles(t) /\ SamePath(op[t], op'[t]) /\ UNCHANGED touched
          /\ op'[t].pc = "size" =>
               op[t].pc = "write" /\ op'[t].size = op[t].at + op[t].length
          /\ op'[t].pc = "cut" => op[t].pc = "trunc"
  /\ op'[t].pc \in {"write", "trunc", "put"} =>
       \/ GoesOn(t)
       \/ \E o \in ChangeState : Starts(t, o) /\ SameChange(o, op'[t])

\* A thread that does not move has its path from where it had it.
LEMMA SameThreadPath ==
  ASSUME TypeOK, NEW t \in Threads, op'[t] = op[t]
  PROVE  ThreadPath(t)
BY DEF ThreadPath, GoesOn, Changing, SamePath

LEMMA EndedThreadPath ==
  ASSUME NEW t \in Threads,
         op'[t].pc \notin {"locate", "size", "cut", "write", "trunc", "put"}
  PROVE  ThreadPath(t)
BY DEF ThreadPath

LEMMA LocatingThreadPath ==
  ASSUME NEW t \in Threads, op'[t].pc = "locate", op'[t].replicas = <<>>
  PROVE  ThreadPath(t)
BY DEF ThreadPath

\* What a thread does leaves others where they are, but for what they have seen.
Undisturbed(t) ==
  op'[t] = op[t] \/ (Changing(t) /\ SameChange(op[t], op'[t]))

LEMMA OtherThreads ==
  ASSUME TypeOK, Placement, [Next]_vars, NEW t \in Threads, NEW u \in Threads, t # u,
         OpenNext(u) \/ ChangeNext(u) \/ CloseNext(u) \/ PutNext(u)
  PROVE  Undisturbed(t)
<1>0. op \in [Threads -> ThreadState]
  BY DEF TypeOK
<1>1. CASE UNCHANGED op
  BY <1>1 DEF Undisturbed
<1>2. ASSUME NEW o \in ChangeState, Starts(u, o) PROVE Undisturbed(t)
  BY <1>0, <1>2, BeginFacts DEF Starts, Undisturbed
<1>3. ASSUME NEW r \in Replica,
             NodeFails(u, r) \/ \E acknowledged \in BOOLEAN : NodeChanges(u, r, acknowledged)
      PROVE  Undisturbed(t)
  BY <1>3, NodeAnswers DEF Undisturbed
<1>4. ASSUME NEW s \in ThreadState, Proceeds(u, s) PROVE Undisturbed(t)
  BY <1>0, <1>4 DEF Proceeds, Undisturbed
<1>5. CASE OpenNext(u)
  BY <1>2, <1>4, <1>5, StartSteps, ProceedSteps DEF OpenNext
<1>6. CASE ChangeNext(u)
  BY <1>2, <1>3, <1>4, <1>6, StartSteps, ProceedSteps DEF ChangeNext
<1>7. ASSUME NEW h \in Handles, Close(u, h) PROVE Undisturbed(t)
  <2>1. CASE fh[h].status = "pending"
    BY <1>4, <1>7, <2>1, ProceedSteps
  <2>2. CASE fh[h].status # "pending"
    BY <1>1, <1>7, <2>2 DEF Close
  <2> QED  BY <2>1, <2>2
<1>8. CASE CallFails(u) \/ \E answered \in BOOLEAN : CloseComplete(u, answered)
  BY <1>4, <1>8, ProceedSteps
<1>9. ASSUME NEW p \in Paths, NEW id \in FileIds, NEW mode \in Modes, NEW length \in Lengths,
             NEW mark \in Marks, NEW answered \in BOOLEAN,
             PutStart(u, p, id, mode, length, mark, answered)
      PROVE  Undisturbed(t)
  BY <1>1, <1>2, <1>9, PutStarts
<1>10. CASE PutSettle(u) \/ PutComplete(u) \/ PutUndo(u) \/ PutStops(u)
  BY <1>4, <1>10, ProceedSteps
<1> QED  BY <1>5, <1>6, <1>7, <1>8, <1>9, <1>10 DEF CloseNext, PutNext

\* How a thread starts a change, and what the nodes' answers leave of it.
LEMMA StartedThreadPath ==
  ASSUME TypeOK, NEW t \in Threads, NEW o \in ChangeState, Starts(t, o)
  PROVE  ThreadPath(t)
<1>1. SameChange(o, op'[t])
  <2>1. Begin(t, o) /\ ~Changing(t) /\ op \in [Threads -> ThreadState]
    BY DEF Starts, TypeOK
  <2> QED  BY <2>1, BeginFacts
<1>2. op'[t].pc \in {"write", "trunc", "put"}
  BY <1>1 DEF SameChange, ChangeState
<1> QED  BY <1>1, <1>2 DEF ThreadPath

LEMMA AnsweredThreadPath ==
  ASSUME TypeOK, Placement, NEW t \in Threads, NEW r \in Replica,
         NodeFails(t, r) \/ \E acknowledged \in BOOLEAN : NodeChanges(t, r, acknowledged)
  PROVE  ThreadPath(t)
<1>1. /\ Changing(t) /\ op[t] \in ChangeState /\ Answered(op[t], op'[t], r)
      /\ ~op'[t].failed => ~op[t].failed /\ ~NodeFails(t, r)
  BY NodeAnswers
<1>2. op'[t].pc \in {"write", "trunc", "put"}
  BY <1>1 DEF Answered, ChangeState
<1>3. ~op'[t].failed => NodeChanged(t, r)
  BY <1>1, NodeChangesContent
<1>4. GoesOn(t)
  BY <1>1, <1>3 DEF GoesOn, SamePath, Answered
<1> QED  BY <1>2, <1>4 DEF ThreadPath

LEMMA ThreadPaths ==
  ASSUME TypeOK, Placement, [Next]_vars, NEW t \in Threads
  PROVE  ThreadPath(t)
<1>0. op \in [Threads -> ThreadState]
  BY DEF TypeOK
<1>1. CASE UNCHANGED op
  BY <1>1, SameThreadPath
<1>2. CASE Crash
  <2>1. op'[t] = op[t] \/ op'[t].pc = "idle"
    BY <1>2 DEF Crash, Idle
  <2> QED  BY <2>1, EndedThreadPath, SameThreadPath
<1>3. CASE Undisturbed(t)
  <2>1. CASE op'[t] = op[t]
    BY <2>1, SameThreadPath
  <2>2. CASE Changing(t) /\ SameChange(op[t], op'[t])
    <3>1. op'[t].pc \in {"write", "trunc", "put"}
      BY <2>2 DEF SameChange, ChangeState
    <3> QED  BY <2>2, <3>1 DEF ThreadPath, GoesOn, SameChange, SamePath
  <2> QED  BY <1>3, <2>1, <2>2 DEF Undisturbed
<1>6. ASSUME NEW h \in Handles, NEW p \in Paths, NEW flags \in Flags,
             OpenStat(t, h, p, flags)
      PROVE  ThreadPath(t)
  <2>1. \/ op'[t].pc \in {"create", "empty"}
        \/ op'[t].pc = "locate" /\ op'[t].replicas = <<>>
    <3>1. \/ op'[t] = [pc |-> "create", h |-> h, path |-> p]
          \/ op'[t] = [pc |-> "empty", h |-> h, path |-> p]
          \/ op'[t] = [pc |-> "locate", h |-> h, path |-> p, size |-> tree[p].size,
                       replicas |-> <<>>, status |-> ""]
      BY <1>0, <1>6 DEF OpenStat
    <3>2. CASE op'[t] = [pc |-> "create", h |-> h, path |-> p]
      <4>1. op'[t].pc = "create"
        BY <3>2
      <4> QED  BY <4>1
    <3>3. CASE op'[t] = [pc |-> "empty", h |-> h, path |-> p]
      <4>1. op'[t].pc = "empty"
        BY <3>3
      <4> QED  BY <4>1
    <3>4. CASE op'[t] = [pc |-> "locate", h |-> h, path |-> p, size |-> tree[p].size,
                         replicas |-> <<>>, status |-> ""]
      <4> DEFINE n == tree[p].size
                 none == <<>>
                 s == [pc |-> "locate", h |-> h, path |-> p, size |-> n,
                       replicas |-> none, status |-> ""]
      <4>1. op'[t] = s
        BY <3>4
      <4> HIDE DEF n, none
      <4>2. s.pc = "locate" /\ s.replicas = none
        OBVIOUS
      <4> HIDE DEF s
      <4>3. op'[t].pc = "locate" /\ op'[t].replicas = none
        BY <4>1, <4>2
      <4> QED  BY <4>3 DEF none
    <3> QED  BY <3>1, <3>2, <3>3, <3>4
  <2> QED  BY <2>1, EndedThreadPath, LocatingThreadPath
<1>7. ASSUME NEW id \in FileIds, NEW answered \in BOOLEAN, OpenCreate(t, id, answered)
      PROVE  ThreadPath(t)
  <2> DEFINE p == op[t].path
  <2>1. p \in Paths
    BY <1>7, ThreadStates DEF OpenCreate, TypeOK, CreateState
  <2>2. NewReplicasAt(p, id)
    BY <1>7, OpenCreates
  <2>3. CASE answered
    <3>1. /\ op'[t].pc = "locate" /\ op'[t].path = p
          /\ op'[t].replicas = selectDataNodes(Nodes, p, id)
      BY <1>0, <1>7, <2>3 DEF OpenCreate
    <3> QED  BY <2>1, <2>2, <3>1 DEF ThreadPath
  <2>4. CASE ~answered
    <3>1. op'[t].pc = "idle"
      BY <1>0, <1>7, <2>4 DEF OpenCreate, Idle
    <3> QED  BY <3>1, EndedThreadPath
  <2> QED  BY <2>3, <2>4
<1>8. CASE WriteSettle(t) \/ TruncateSettle(t)
  <2>1. \E s \in ThreadState : Proceeds(t, s)
    BY <1>8, ProceedSteps
  <2>2. Settles(t) /\ UNCHANGED touched
    BY <1>8, <2>1 DEF WriteSettle, TruncateSettle, Settles, Changing
  <2>3. \/ op'[t].pc = "idle"
        \/ /\ op'[t].pc = "size" /\ op[t].pc = "write" /\ SamePath(op[t], op'[t])
           /\ op'[t].size = op[t].at + op[t].length
        \/ op'[t].pc = "cut" /\ op[t].pc = "trunc" /\ SamePath(op[t], op'[t])
    BY <1>0, <1>8 DEF WriteSettle, TruncateSettle, Idle, SamePath
  <2> QED  BY <2>2, <2>3 DEF ThreadPath
<1>9. CASE \/ OpenLocate(t) \/ ChangeAborts(t) \/ WriteSize(t) \/ CallFails(t)
           \/ PutComplete(t) \/ PutUndo(t) \/ PutStops(t)
           \/ \E answered \in BOOLEAN : CloseComplete(t, answered)
  <2>1. op'[t].pc = "idle"
    <3>1. op'[t] = Idle
      BY <1>0, <1>9 DEF OpenLocate, ChangeAborts, WriteSize, CallFails, CloseComplete,
                        PutComplete, PutUndo, PutStops
    <3> QED  BY <3>1 DEF Idle
  <2> QED  BY <2>1, EndedThreadPath
<1>10. ASSUME NEW answered \in BOOLEAN, TruncateSize(t, answered) PROVE ThreadPath(t)
  <2>1. op'[t].pc = "idle" \/ (op'[t].pc = "locate" /\ op'[t].replicas = <<>>)
    BY <1>0, <1>10 DEF TruncateSize, Idle
  <2> QED  BY <2>1, EndedThreadPath, LocatingThreadPath
<1>11. ASSUME NEW h \in Handles, Close(t, h) PROVE ThreadPath(t)
  <2>1. op'[t].pc = "close" \/ UNCHANGED op
    BY <1>0, <1>11 DEF Close
  <2> QED  BY <1>1, <2>1, EndedThreadPath
<1>14. CASE PutSettle(t)
  <2>1. op'[t].pc \in {"complete", "undo"}
    BY <1>0, <1>14 DEF PutSettle
  <2> QED  BY <2>1, EndedThreadPath
<1>15. CASE PutNext(t)
  <2>1. ASSUME NEW p \in Paths, NEW id \in FileIds, NEW mode \in Modes, NEW length \in Lengths,
               NEW mark \in Marks, NEW answered \in BOOLEAN,
               PutStart(t, p, id, mode, length, mark, answered)
        PROVE  ThreadPath(t)
    BY <1>1, <2>1, PutStarts, StartedThreadPath
  <2> QED  BY <1>9, <1>14, <1>15, <2>1 DEF PutNext
<1>13. CASE OpenNext(t) \/ ChangeNext(t) \/ CloseNext(t)
  <2>1. CASE OpenNext(t)
    BY <1>6, <1>7, <1>9, <2>1, StartSteps, StartedThreadPath DEF OpenNext
  <2>2. CASE ChangeNext(t)
    BY <1>8, <1>9, <1>10, <2>2, StartSteps, StartedThreadPath, AnsweredThreadPath
       DEF ChangeNext
  <2>3. CASE CloseNext(t)
    BY <1>9, <1>11, <2>3 DEF CloseNext
  <2> QED  BY <1>13, <2>1, <2>2, <2>3
<1> QED
  BY <1>1, <1>2, <1>3, <1>13, <1>15, OtherThreads, OthersApart DEF Next

\* An upload that is under way goes on or ends.
LEMMA PutEnds ==
  ASSUME TypeOK, Placement, [Next]_vars, NEW t \in Threads, op[t].pc = "put"
  PROVE  \/ op'[t].pc = "put" /\ op'[t].path = op[t].path
         \/ PutSettle(t)
         \/ PutStops(t)
<1>1. CASE UNCHANGED op
  BY <1>1
<1>2. CASE Crash
  BY <1>2 DEF Crash
<1>3. CASE Undisturbed(t)
  BY <1>3 DEF Undisturbed, SameChange
<1>4. ASSUME NEW r \in Replica,
             NodeFails(t, r) \/ \E acknowledged \in BOOLEAN : NodeChanges(t, r, acknowledged)
      PROVE  op'[t].pc = "put" /\ op'[t].path = op[t].path
  <2>1. Answered(op[t], op'[t], r)
    BY <1>4, NodeAnswers
  <2> QED  BY <2>1 DEF Answered
<1>5. op[t] # Idle
  BY DEF Idle
<1>6. CASE OpenNext(t)
  BY <1>5, <1>6 DEF OpenNext, OpenStat, OpenCreate, OpenTruncate, OpenLocate
<1>7. CASE ChangeNext(t)
  BY <1>4, <1>5, <1>7
     DEF ChangeNext, WriteStart, Truncate, WriteSettle, TruncateSettle, ChangeAborts,
         WriteSize, TruncateSize
<1>8. CASE CloseNext(t)
  BY <1>5, <1>8 DEF CloseNext, Close, CloseComplete, CallFails
<1>9. CASE PutNext(t)
  <2>1. ASSUME NEW p \in Paths, NEW id \in FileIds, NEW mode \in Modes, NEW length \in Lengths,
               NEW mark \in Marks, NEW answered \in BOOLEAN,
               PutStart(t, p, id, mode, length, mark, answered)
        PROVE  FALSE
    <3>1. op[t] = Idle
      BY <2>1 DEF PutStart
    <3> QED  BY <1>5, <3>1
  <2> QED  BY <1>9, <2>1 DEF PutNext, PutComplete, PutUndo
<1> QED
  BY <1>1, <1>2, <1>3, <1>6, <1>7, <1>8, <1>9, OtherThreads, OthersApart DEF Next

\* Paths that are held stay with their files.
LEMMA NextPathsKept ==
  ASSUME TypeOK, Placement, PathsKept, CutsTouch, [Next]_vars
  PROVE  PathsKept'
<1>0. touched \subseteq touched' /\ op \in [Threads -> ThreadState]
  BY TouchedGrows DEF TypeOK
<1>4. ASSUME NEW p \in Paths \ touched', IsFile(tree', p)
      PROVE  Remains(p, tree'[p].fileID)
  <2>1. CASE IsFile(tree, p) /\ SameFileAt(p)
    <3>1. Intact(p, tree[p].fileID)
      BY <1>0, <2>1 DEF PathsKept
    <3>2. Remains(p, tree[p].fileID)
      BY <3>1, IntactStays
    <3> QED  BY <2>1, <3>2 DEF SameFileAt
  <2>2. ASSUME NEW id \in FileIds, ~IsFile(tree, p), Creates(p, id)
        PROVE  Remains(p, tree'[p].fileID)
    <3>1. /\ tree'[p].fileID = id /\ tree'[p].replicas = selectDataNodes(Nodes, p, id)
          /\ placed' = Placed(id, selectDataNodes(Nodes, p, id))
      BY <2>2 DEF Creates, NewReplicasAt
    <3>2. placed'[id] = selectDataNodes(Nodes, p, id)
      BY <3>1 DEF Placed
    <3> QED  BY <1>4, <3>1, <3>2 DEF Remains
  <2> QED  BY <1>4, <2>1, <2>2, PathSteps DEF PathStep
<1>1. ASSUME NEW h \in Handles, fh'[h].open, fh'[h].path \notin touched'
      PROVE  Remains(fh'[h].path, IdOf(fh'[h].replicas))
  <2>1. ASSUME fh[h].open, fh'[h].path = fh[h].path, fh'[h].replicas = fh[h].replicas
        PROVE  Remains(fh'[h].path, IdOf(fh'[h].replicas))
    <3>1. fh[h].path \in Paths
      BY <2>1, HandleStates DEF TypeOK, OpenHandle
    <3>2. Intact(fh[h].path, IdOf(fh[h].replicas))
      BY <1>0, <1>1, <2>1 DEF PathsKept
    <3>3. Remains(fh[h].path, IdOf(fh[h].replicas))
      BY <1>1, <2>1, <3>1, <3>2, IntactStays
    <3> QED  BY <2>1, <3>3
  <2>2. ASSUME NEW t \in Threads, Located(t, h)
        PROVE  Remains(fh'[h].path, IdOf(fh'[h].replicas))
    <3> DEFINE p == op[t].path
               rs == IF op[t].replicas = <<>> THEN tree[p].replicas ELSE op[t].replicas
    <3>1. /\ op[t].pc = "locate" /\ IsFile(tree, p) /\ fh'[h].path = p
          /\ fh'[h].replicas = rs
      BY <2>2 DEF Located
    <3>2. p \in Paths /\ p \in Locations
      BY <3>1, <1>0, ThreadStates DEF LocateState, Locations
    <3>3. Intact(p, IdOf(rs))
      <4>1. CASE op[t].replicas = <<>>
        <5>1. Intact(p, tree[p].fileID)
          BY <1>0, <1>1, <3>1, <3>2 DEF PathsKept
        <5>2. IsPlaced(tree[p].replicas) /\ tree[p].replicas = placed[tree[p].fileID]
              /\ tree[p].fileID \in DOMAIN placed
          BY <3>1, <3>2, <5>1, FileIsPlaced DEF Intact
        <5>3. IdOf(tree[p].replicas) = tree[p].fileID
          BY <5>2, HeadElement DEF IdOf, Placement, TypeOK
        <5> QED  BY <4>1, <5>1, <5>3
      <4>2. CASE op[t].replicas # <<>>
        BY <1>0, <1>1, <3>1, <4>2 DEF PathsKept
      <4> QED  BY <4>1, <4>2
    <3> HIDE DEF p, rs
    <3>4. Remains(p, IdOf(rs))
      BY <1>1, <3>1, <3>2, <3>3, IntactStays
    <3> QED  BY <3>1, <3>4
  <2> QED  BY <1>1, <2>1, <2>2, HandleSteps DEF HandleStep
<1>2. ASSUME NEW t \in Threads, op'[t].pc = "locate", op'[t].replicas # <<>>,
             op'[t].path \notin touched'
      PROVE  Remains(op'[t].path, IdOf(op'[t].replicas))
  <2>1. CASE op'[t] = op[t]
    <3>1. op[t].path \in Paths
      BY <1>0, <1>2, <2>1, ThreadStates DEF LocateState
    <3>2. Intact(op[t].path, IdOf(op[t].replicas))
      BY <1>0, <1>2, <2>1 DEF PathsKept
    <3>3. Remains(op[t].path, IdOf(op[t].replicas))
      BY <1>2, <2>1, <3>1, <3>2, IntactStays
    <3> QED  BY <2>1, <3>3
  <2>2. ASSUME NEW id \in FileIds, NewReplicasAt(op'[t].path, id), op'[t].path \in Paths,
               op'[t].replicas = selectDataNodes(Nodes, op'[t].path, id)
        PROVE  Remains(op'[t].path, IdOf(op'[t].replicas))
    <3> DEFINE p == op'[t].path
    <3>1. IdOf(selectDataNodes(Nodes, p, id)) = id
      BY <2>2, SelectedId
    <3>2. /\ IsFile(tree', p) /\ tree'[p].fileID = id
          /\ tree'[p].replicas = selectDataNodes(Nodes, p, id)
          /\ placed' = Placed(id, selectDataNodes(Nodes, p, id))
      BY <1>2, <2>2 DEF NewReplicasAt
    <3>3. placed'[id] = selectDataNodes(Nodes, p, id)
      BY <3>2 DEF Placed
    <3> QED  BY <1>2, <2>2, <3>1, <3>2, <3>3 DEF Remains
  <2> QED  BY <1>2, <2>1, <2>2, ThreadPaths DEF ThreadPath
<1>3. ASSUME NEW t \in Threads, op'[t].pc \in {"write", "trunc", "put", "size", "cut"},
             op'[t].path \notin touched'
      PROVE  Remains(op'[t].path, op'[t].id)
  <2>1. ASSUME op[t].pc \in {"write", "trunc", "put", "size", "cut"},
               SamePath(op[t], op'[t])
        PROVE  Remains(op'[t].path, op'[t].id)
    <3>1. op[t].path \in Paths
      BY <1>0, <2>1, ThreadStates DEF ChangeState, SizeState
    <3>2. Intact(op[t].path, op[t].id)
      BY <1>0, <1>3, <2>1 DEF PathsKept, SamePath
    <3>3. Remains(op[t].path, op[t].id)
      BY <1>3, <2>1, <3>1, <3>2, IntactStays DEF SamePath
    <3> QED  BY <2>1, <3>3 DEF SamePath
  <2>2. ASSUME NEW o \in ChangeState, Starts(t, o), SameChange(o, op'[t])
        PROVE  Remains(op'[t].path, op'[t].id)
    <3>1. op'[t].path = o.path /\ op'[t].id = o.id /\ o.pc \in {"write", "trunc", "put"}
      BY <2>2 DEF SameChange, ChangeState
    <3>2. o.pc # "trunc"
      BY <1>3, <2>2, <3>1 DEF Starts
    <3>3. CASE o.pc = "write"
      <4>1. PICK h \in Handles :
              fh[h].open /\ o.path = fh[h].path /\ o.id = IdOf(fh[h].replicas)
        BY <2>2, <3>3 DEF Starts
      <4>2. Intact(o.path, o.id)
        BY <1>0, <1>3, <3>1, <4>1 DEF PathsKept
      <4>3. tree' = tree /\ placed' = placed
        BY <2>2, <3>3 DEF Starts
      <4> QED  BY <1>3, <3>1, <4>2, <4>3 DEF Intact, Remains
    <3>4. CASE o.pc = "put"
      <4>1. NewReplicasAt(o.path, o.id)
        BY <2>2, <3>4 DEF Starts
      <4>2. /\ IsFile(tree', o.path) /\ tree'[o.path].fileID = o.id
            /\ tree'[o.path].replicas = selectDataNodes(Nodes, o.path, o.id)
            /\ placed' = Placed(o.id, selectDataNodes(Nodes, o.path, o.id))
        BY <1>3, <3>1, <4>1 DEF NewReplicasAt
      <4>3. placed'[o.id] = selectDataNodes(Nodes, o.path, o.id)
        BY <4>2 DEF Placed
      <4> QED  BY <1>3, <3>1, <4>2, <4>3 DEF Remains
    <3> QED  BY <3>1, <3>2, <3>3, <3>4
  <2>3. CASE op'[t].pc \in {"size", "cut"}
    <3>1. CASE op'[t] = op[t]
      BY <2>1, <2>3, <3>1 DEF SamePath
    <3>2. CASE Settles(t) /\ SamePath(op[t], op'[t])
      BY <2>1, <3>2 DEF Settles, Changing
    <3> QED  BY <2>3, <3>1, <3>2, ThreadPaths DEF ThreadPath
  <2>4. CASE op'[t].pc \in {"write", "trunc", "put"}
    <3>1. CASE GoesOn(t)
      BY <2>1, <3>1 DEF GoesOn, Changing
    <3> QED  BY <2>2, <2>4, <3>1, ThreadPaths DEF ThreadPath
  <2> QED  BY <1>3, <2>3, <2>4
<1> QED  BY <1>1, <1>2, <1>3, <1>4 DEF PathsKept, Remains, Intact, IdOf

\* A file that is being cut, or to which nothing is written, has been touched.
LEMMA NextCutsTouch ==
  ASSUME TypeOK, Placement, OwnReplicas, CutsTouch, [Next]_vars
  PROVE  CutsTouch'
<1>0. touched \subseteq touched'
  BY TouchedGrows
<1>3. ASSUME NEW t \in Threads, op'[t].pc = "write", op'[t].length = 0
      PROVE  op'[t].path \in touched'
  <2>1. CASE GoesOn(t)
    BY <1>0, <1>3, <2>1 DEF GoesOn, SamePath, CutsTouch
  <2>2. ASSUME NEW o \in ChangeState, Starts(t, o), SameChange(o, op'[t])
        PROVE  op'[t].path \in touched'
    BY <1>3, <2>2 DEF Starts, SameChange
  <2> QED  BY <1>3, <2>1, <2>2, ThreadPaths DEF ThreadPath
<1>1. ASSUME NEW t \in Threads, op'[t].pc \in {"trunc", "cut"}
      PROVE  op'[t].path \in touched'
  <2>1. CASE op'[t].pc = "cut"
    BY <1>0, <2>1, ThreadPaths DEF ThreadPath, CutsTouch, SamePath
  <2>2. CASE op'[t].pc = "trunc"
    <3>1. CASE GoesOn(t)
      BY <1>0, <2>2, <3>1 DEF GoesOn, SamePath, CutsTouch
    <3>2. ASSUME NEW o \in ChangeState, Starts(t, o), SameChange(o, op'[t])
          PROVE  op'[t].path \in touched'
      BY <2>2, <3>2 DEF Starts, SameChange
    <3> QED  BY <2>2, <3>1, <3>2, ThreadPaths DEF ThreadPath
  <2> QED  BY <1>1, <2>1, <2>2
<1>4. ASSUME NEW t \in Threads, GoesOn(t), NEW p \in Paths, Remains(p, op'[t].id)
      PROVE  Intact(p, op[t].id)
  <2>1. Changing(t) /\ op[t].id = op'[t].id
    BY <1>4 DEF GoesOn, SamePath
  <2>2. op[t].id \in DOMAIN placed
    BY <2>1, ChangeFacts
  <2>3. Remains(p, op[t].id)
    BY <1>4, <2>1
  <2> QED  BY <2>2, <2>3, IntactBefore
<1>2. ASSUME NEW t \in Threads, op'[t].pc = "trunc", NEW p \in Paths
      PROVE  ~Remains(p, op'[t].id)
  <2> SUFFICES ASSUME Remains(p, op'[t].id) PROVE FALSE
    OBVIOUS
  <2>2. CASE GoesOn(t)
    <3>1. op[t].pc = "trunc"
      BY <1>2, <2>2 DEF GoesOn
    <3>2. Intact(p, op[t].id)
      BY <1>4, <2>2
    <3> QED  BY <3>1, <3>2 DEF CutsTouch
  <2>3. ASSUME NEW o \in ChangeState, Starts(t, o), SameChange(o, op'[t]) PROVE FALSE
    <3>1. /\ op'[t].id = o.id /\ o.pc = "trunc" /\ tree' = tree /\ placed' = placed
          /\ o.path \in Paths /\ o.path \in Locations /\ p \in Locations
      BY <1>2, <2>3 DEF SameChange, Starts, ChangeState, Locations
    <3>2. /\ IsFile(tree, o.path) /\ o.id = IdOf(tree[o.path].replicas)
          /\ o.path \in touched'
      BY <2>3, <3>1 DEF Starts
    <3>3. tree[o.path].replicas = placed[o.id]
      BY <3>1, <3>2, FileIsPlaced
    <3>4. p \notin touched' /\ IsFile(tree, p) /\ tree[p].replicas = placed[o.id]
      BY <3>1 DEF Remains
    <3>5. p = o.path
      BY <3>1, <3>2, <3>3, <3>4 DEF OwnReplicas
    <3> QED  BY <3>2, <3>4, <3>5
  <2> QED  BY <1>2, <2>2, <2>3, ThreadPaths DEF ThreadPath
<1>5. ASSUME NEW t \in Threads, op'[t].pc = "put", NEW p \in Paths, Remains(p, op'[t].id)
      PROVE  p = op'[t].path
  <2>2. CASE GoesOn(t)
    <3>1. op[t].pc = "put" /\ op'[t].path = op[t].path
      BY <1>5, <2>2 DEF GoesOn, SamePath
    <3>2. Intact(p, op[t].id)
      BY <1>4, <1>5, <2>2
    <3> QED  BY <3>1, <3>2 DEF CutsTouch
  <2>3. ASSUME NEW o \in ChangeState, Starts(t, o), SameChange(o, op'[t]), p # o.path
        PROVE  FALSE
    <3>1. op'[t].id = o.id /\ o.pc = "put" /\ p \in Locations
      BY <1>5, <2>3 DEF SameChange, Locations
    <3>2. o.id \notin DOMAIN placed /\ tree'[p] = tree[p]
      BY <2>3, <3>1 DEF Starts, NewReplicasAt
    <3>3. IsFile(tree, p) /\ tree[p].fileID = o.id
      BY <1>5, <3>1, <3>2 DEF Remains, IsFile
    <3> QED  BY <3>1, <3>2, <3>3, FileIsPlaced
  <2>4. ASSUME NEW o \in ChangeState, Starts(t, o), SameChange(o, op'[t]), p = o.path
        PROVE  p = op'[t].path
    BY <2>4 DEF SameChange
  <2> QED  BY <1>5, <2>2, <2>3, <2>4, ThreadPaths DEF ThreadPath
<1> QED  BY <1>1, <1>2, <1>3, <1>5 DEF CutsTouch, Remains, Intact

\* What Len returns for contents after a step.
LEMMA LengthNext ==
  ASSUME TypeOK', NEW r
  PROVE  Len(Content(r)') \in Nat
<1>1. CASE r \in DOMAIN data'
  <2>1. data'[r] \in Contents /\ Content(r)' = data'[r]
    BY <1>1 DEF TypeOK, Content
  <2>2. Len(data'[r]) \in Nat
    BY <2>1, ContentsFacts, SizesAssumption
  <2> QED  BY <2>1, <2>2
<1>2. CASE r \notin DOMAIN data'
  <2>1. Content(r)' = <<>>
    BY <1>2 DEF Content
  <2> QED  BY <2>1
<1> QED  BY <1>1, <1>2

\* Contents reach as far as a write that has gone through, and further ones and
\* uploads make them no shorter.
LEMMA NextWritesReach ==
  ASSUME TypeOK, TypeOK', Placement, PathsKept, CutsTouch, WritesReach, [Next]_vars
  PROVE  WritesReach'
<1>0. /\ \A id \in DOMAIN placed : id \in DOMAIN placed' /\ placed'[id] = placed[id]
      /\ touched \subseteq touched' /\ op \in [Threads -> ThreadState]
  BY PlacementsStay, TouchedGrows DEF TypeOK
<1>1. ASSUME NEW t \in Threads, Changing(t)
      PROVE  /\ op[t] \in ChangeState /\ op[t].id \in DOMAIN placed
             /\ op[t].at \in Nat /\ op[t].length \in Nat /\ op[t].path \in Paths
  BY <1>1, ChangeFacts, SizesAssumption DEF ChangeState
<1>2. ASSUME NEW t \in Threads, op'[t].pc = "write", ~op'[t].failed,
             op'[t].path \notin touched', NEW r \in ToSet(placed'[op'[t].id]) \ op'[t].todo
      PROVE  op'[t].at + op'[t].length <= Len(Content(r)')
  <2>1. CASE GoesOn(t)
    <3>1. /\ Changing(t) /\ op[t].pc = "write" /\ ~op[t].failed /\ op'[t].id = op[t].id
          /\ op'[t].at = op[t].at /\ op'[t].length = op[t].length /\ op'[t].path = op[t].path
      BY <1>2, <2>1 DEF GoesOn, SamePath
    <3>2. /\ op[t].id \in DOMAIN placed /\ r \in ToSet(placed[op[t].id])
          /\ op[t].at + op[t].length \in Nat /\ op[t].path \in Paths
      BY <1>0, <1>1, <3>1
    <3>3. op[t].path \notin touched /\ op[t].path \notin touched'
      BY <1>0, <1>2, <3>1
    <3>4. Intact(op[t].path, op[t].id)
      BY <3>1, <3>3 DEF PathsKept
    <3>5. CASE r \notin op[t].todo
      <4>1. op[t].at + op[t].length <= Len(Content(r))
        BY <3>1, <3>2, <3>3, <3>5 DEF WritesReach
      <4>2. Len(Content(r)) <= Len(Content(r)')
        BY <3>2, <3>3, <3>4, ContentsGrow
      <4>3. Len(Content(r)) \in Nat /\ Len(Content(r)') \in Nat
        BY ContentType, ContentsFacts, SizesAssumption, LengthNext
      <4> QED  BY <3>1, <3>2, <4>1, <4>2, <4>3
    <3>6. CASE r \in op[t].todo
      <4>1. NodeChanged(t, r)
        BY <1>2, <2>1, <3>6 DEF GoesOn
      <4>2. Content(r)' = data'[r]
        BY <4>1 DEF NodeChanged, Content
      <4>3. op[t].length > 0
        BY <1>1, <3>1, <3>3 DEF CutsTouch
      <4> QED  BY <3>1, <4>1, <4>2, <4>3 DEF NodeChanged
    <3> QED  BY <3>5, <3>6
  <2>2. ASSUME NEW o \in ChangeState, Starts(t, o), SameChange(o, op'[t])
        PROVE  FALSE
    <3>1. o.todo = ToSet(placed'[o.id])
      BY <2>2 DEF Starts
    <3>2. op'[t].todo = o.todo /\ op'[t].id = o.id
      BY <2>2 DEF SameChange
    <3> QED  BY <1>2, <3>1, <3>2
  <2> QED  BY <1>2, <2>1, <2>2, ThreadPaths DEF ThreadPath
<1>3. ASSUME NEW t \in Threads, op'[t].pc = "size" PROVE op'[t].id \in DOMAIN placed'
  <2>1. CASE op'[t] = op[t]
    BY <1>0, <1>3, <2>1 DEF WritesReach
  <2>2. CASE Settles(t) /\ SamePath(op[t], op'[t])
    BY <1>0, <1>1, <2>2 DEF Settles, SamePath
  <2> QED  BY <1>3, <2>1, <2>2, ThreadPaths DEF ThreadPath
<1>4. ASSUME NEW t \in Threads, op'[t].pc = "size", op'[t].path \notin touched',
             NEW r \in ToSet(placed'[op'[t].id])
      PROVE  op'[t].size <= Len(Content(r)')
  <2>1. CASE op'[t] = op[t]
    <3>1. /\ op[t].id \in DOMAIN placed /\ op[t].pc = "size"
          /\ op[t].path \notin touched /\ op[t].path \notin touched'
      BY <1>0, <1>4, <2>1 DEF WritesReach
    <3>2. r \in ToSet(placed[op[t].id])
      BY <1>0, <1>4, <2>1, <3>1
    <3>3. Intact(op[t].path, op[t].id)
      BY <3>1 DEF PathsKept
    <3>4. op[t].size <= Len(Content(r))
      BY <3>1, <3>2 DEF WritesReach
    <3>5. op[t].size \in Nat /\ op[t].path \in Paths
      BY <3>1, ThreadStates, SizesAssumption DEF TypeOK, SizeState
    <3>6. Len(Content(r)) <= Len(Content(r)')
      BY <3>1, <3>2, <3>3, <3>5, ContentsGrow
    <3>7. Len(Content(r)) \in Nat /\ Len(Content(r)') \in Nat
      BY ContentType, ContentsFacts, SizesAssumption, LengthNext
    <3> QED  BY <2>1, <3>4, <3>5, <3>6, <3>7
  <2>2. CASE /\ Settles(t) /\ SamePath(op[t], op'[t])
             /\ op[t].pc = "write" /\ op'[t].size = op[t].at + op[t].length
    <3>1. Changing(t) /\ op[t].todo = {} /\ ~op[t].failed /\ UNCHANGED data
      BY <2>2 DEF Settles
    <3>2. /\ op[t].id \in DOMAIN placed /\ op'[t].id = op[t].id
          /\ op[t].path \notin touched
      BY <1>0, <1>1, <1>4, <2>2, <3>1 DEF SamePath
    <3>3. r \in ToSet(placed[op[t].id])
      BY <1>0, <1>4, <3>2
    <3>4. op[t].at + op[t].length <= Len(Content(r))
      BY <2>2, <3>1, <3>2, <3>3 DEF WritesReach
    <3>5. Content(r)' = Content(r)
      BY <3>1 DEF Content
    <3> QED  BY <2>2, <3>4, <3>5
  <2> QED  BY <1>4, <2>1, <2>2, ThreadPaths DEF ThreadPath
<1> QED  BY <1>2, <1>3, <1>4 DEF WritesReach

\* The size of a file that is being uploaded stays within what the upload, or
\* somebody before it, has stored or will store on each replica.
LEMMA NextPutsReach ==
  ASSUME TypeOK, TypeOK', Placement, PathsKept, CutsTouch, WritesReach, PutsReach, [Next]_vars
  PROVE  PutsReach'
<1> SUFFICES ASSUME NEW t \in Threads, op'[t].pc = "put", op'[t].path \notin touched',
                    NEW r \in ToSet(placed'[op'[t].id])
             PROVE  /\ \/ tree'[op'[t].path].size <= op'[t].length
                       \/ tree'[op'[t].path].size <= Len(Content(r)')
                    /\ ~op'[t].failed /\ r \notin op'[t].todo
                         => op'[t].length <= Len(Content(r)')
  BY DEF PutsReach, Content
<1>0. touched \subseteq touched'
  BY TouchedGrows
<1>1. CASE GoesOn(t)
  <2> DEFINE p == op[t].path
             n == op[t].length
  <2>1. /\ Changing(t) /\ op[t].pc = "put" /\ op'[t].id = op[t].id
        /\ op'[t].length = n /\ op'[t].path = p
        /\ ~op'[t].failed => ~op[t].failed
    BY <1>1 DEF GoesOn, SamePath
  <2>2. /\ op[t].id \in DOMAIN placed /\ op[t] \in ChangeState
        /\ placed'[op[t].id] = placed[op[t].id]
    BY <2>1, ChangeFacts, PlacementsStay
  <2>3. /\ r \in ToSet(placed[op[t].id]) /\ n \in Nat /\ p \in Paths
        /\ p \notin touched /\ p \notin touched'
    BY <1>0, <2>1, <2>2, SizesAssumption DEF ChangeState
  <2>4. Intact(p, op[t].id)
    BY <2>1, <2>3 DEF PathsKept
  <2>5. /\ Len(Content(r)) <= Len(Content(r)')
        /\ Len(Content(r)) \in Nat /\ Len(Content(r)') \in Nat
    BY <2>2, <2>3, <2>4, ContentsGrow, ContentType, ContentsFacts, SizesAssumption, LengthNext
  <2>6. /\ tree[p].size <= n \/ tree[p].size <= Len(Content(r))
        /\ ~op[t].failed /\ r \notin op[t].todo => n <= Len(Content(r))
    BY <2>1, <2>3 DEF PutsReach
  <2>7. IsFile(tree, p) /\ tree[p].size \in Nat
    <3>1. IsFile(tree, p) /\ p \in Locations
      BY <2>3, <2>4 DEF Intact, Locations
    <3> QED  BY <3>1, FileEntries, SizesAssumption DEF FileEntry
  <2> HIDE DEF p, n
  <2>8. tree'[p].size <= n \/ tree'[p].size <= Len(Content(r)')
    <3>1. SameFileAt(p)
      BY <2>3, <2>7, PathSteps DEF PathStep
    <3>2. CASE tree'[p].size = tree[p].size
      BY <2>5, <2>6, <2>7, <2>3, <3>2
    <3>3. ASSUME NEW u \in Threads, UpdatesSize(u), op[u].path = p,
                 tree'[p].size = op[u].size
          PROVE  tree'[p].size <= Len(Content(r)')
      <4>1. op[u].pc \in {"size", "cut"} /\ op[u] \in SizeState
        BY <3>3 DEF UpdatesSize
      <4>2. op[u].pc = "size"
        BY <2>3, <3>3, <4>1 DEF CutsTouch
      <4>3. Intact(p, op[u].id)
        BY <2>3, <3>3, <4>2 DEF PathsKept
      <4>4. op[u].id = op[t].id
        BY <2>4, <4>3 DEF Intact
      <4>5. op[u].size <= Len(Content(r)) /\ op[u].size \in Nat
        BY <2>3, <3>3, <4>1, <4>2, <4>4, SizesAssumption DEF WritesReach, SizeState
      <4> QED  BY <2>5, <3>3, <4>5
    <3> QED  BY <3>1, <3>2, <3>3 DEF SameFileAt
  <2>9. ASSUME ~op'[t].failed, r \notin op'[t].todo PROVE n <= Len(Content(r)')
    <3>1. CASE r \notin op[t].todo
      BY <2>1, <2>3, <2>5, <2>6, <2>9, <3>1
    <3>2. CASE r \in op[t].todo
      <4>1. NodeChanged(t, r)
        BY <1>1, <2>9, <3>2 DEF GoesOn
      <4>2. Content(r)' = data'[r] /\ Len(data'[r]) = n
        BY <2>1, <4>1 DEF NodeChanged, Content, n
      <4> QED  BY <2>3, <4>2
    <3> QED  BY <3>1, <3>2
  <2> QED  BY <2>1, <2>8, <2>9
<1>2. ASSUME NEW o \in ChangeState, Starts(t, o), SameChange(o, op'[t])
      PROVE  /\ tree'[op'[t].path].size <= op'[t].length
             /\ r \in op'[t].todo
  <2>1. /\ o.pc = "put" /\ o.path = op'[t].path /\ o.id = op'[t].id
        /\ o.length = op'[t].length /\ o.todo = op'[t].todo
    BY <1>2 DEF SameChange
  <2>2. tree'[o.path].size = o.length /\ o.todo = ToSet(placed'[o.id])
    BY <1>2, <2>1 DEF Starts
  <2>3. o.length \in Nat
    BY SizesAssumption DEF ChangeState
  <2> QED  BY <2>1, <2>2, <2>3
<1> QED  BY <1>1, <1>2, ThreadPaths DEF ThreadPath

\* Where an upload is over, its data is in place, or its path is left out.
LEMMA UploadsOver ==
  ASSUME TypeOK, Placement, PathsKept, PutsReach, [Next]_vars, NEW p \in Paths \ touched',
         p \notin touched, IsFile(tree, p), Uploading(p),
         ~\E t \in Threads : op'[t].pc = "put" /\ op'[t].path = p,
         NEW r \in ToSet(tree[p].replicas)
  PROVE  tree[p].size <= Len(Content(r))
<1>1. PICK t \in Threads : op[t].pc = "put" /\ op[t].path = p
  BY DEF Uploading
<1>2. PutSettle(t)
  <2>1. ~PutStops(t)
    BY <1>1 DEF PutStops
  <2> QED  BY <1>1, <2>1, PutEnds
<1>3. op[t].todo = {} /\ ~op[t].failed
  BY <1>1, <1>2 DEF PutSettle
<1>4. Intact(p, op[t].id)
  BY <1>1 DEF PathsKept
<1>5. r \in ToSet(placed[op[t].id])
  BY <1>4 DEF Intact
<1>6. /\ tree[p].size <= op[t].length \/ tree[p].size <= Len(Content(r))
      /\ op[t].length <= Len(Content(r))
  BY <1>1, <1>3, <1>5 DEF PutsReach
<1>7. op[t].length \in Nat /\ tree[p].size \in Nat /\ Len(Content(r)) \in Nat
  <2>1. op[t] \in ChangeState
    BY <1>1, ThreadStates DEF TypeOK
  <2>2. tree[p] \in FileEntry
    BY FileEntries DEF Locations
  <2> QED  BY <2>1, <2>2, ContentType, ContentsFacts, SizesAssumption DEF ChangeState, FileEntry
<1> QED  BY <1>6, <1>7

\* Sizes on the server stay within the contents.
LEMMA NextMetadataFollows ==
  ASSUME TypeOK, TypeOK', Placement, SizeInv, [Next]_vars
  PROVE  MetadataFollowsData'
<1> SUFFICES ASSUME NEW p \in Paths \ touched', IsFile(tree', p),
                    ~\E t \in Threads : op'[t].pc = "put" /\ op'[t].path = p,
                    NEW r \in ToSet(tree'[p].replicas)
             PROVE  tree'[p].size <= Len(Content(r)')
  BY DEF MetadataFollowsData, Content
<1>0. /\ p \in Locations /\ p \notin touched
      /\ PathsKept /\ CutsTouch /\ WritesReach /\ PutsReach /\ MetadataFollowsData
      /\ Len(Content(r)) \in Nat /\ Len(Content(r)') \in Nat
  BY TouchedGrows, ContentType, ContentsFacts, SizesAssumption, LengthNext
     DEF SizeInv, Locations
<1>1. ASSUME IsFile(tree, p), SameFileAt(p)
      PROVE  /\ Intact(p, tree[p].fileID)
             /\ r \in ToSet(tree[p].replicas) /\ r \in ToSet(placed[tree[p].fileID])
             /\ Len(Content(r)) <= Len(Content(r)')
  <2>1. tree'[p].replicas = tree[p].replicas
    BY <1>1 DEF SameFileAt
  <2>2. Intact(p, tree[p].fileID) /\ tree[p].fileID \in DOMAIN placed
    BY <1>0, <1>1, FileIsPlaced DEF PathsKept
  <2>3. r \in ToSet(placed[tree[p].fileID])
    BY <2>1, <2>2 DEF Intact
  <2> QED  BY <1>0, <2>1, <2>2, <2>3, ContentsGrow
<1>2. CASE IsFile(tree, p) /\ SameFileAt(p) /\ tree'[p].size = tree[p].size
  <2>1. tree[p].size <= Len(Content(r))
    <3>1. CASE Uploading(p)
      BY <1>0, <1>1, <1>2, <3>1, UploadsOver
    <3>2. CASE ~Uploading(p)
      BY <1>0, <1>1, <1>2, <3>2 DEF MetadataFollowsData, Uploading
    <3> QED  BY <3>1, <3>2
  <2>2. tree[p].size \in Nat
    BY <1>0, <1>2, FileEntries, SizesAssumption DEF FileEntry
  <2> QED  BY <1>0, <1>1, <1>2, <2>1, <2>2
<1>3. ASSUME NEW t \in Threads, UpdatesSize(t), op[t].path = p, tree'[p].size = op[t].size,
             IsFile(tree, p), SameFileAt(p)
      PROVE  tree'[p].size <= Len(Content(r)')
  <2>1. op[t].pc \in {"size", "cut"} /\ op[t] \in SizeState
    BY <1>3 DEF UpdatesSize
  <2>2. op[t].pc # "cut"
    BY <1>0, <1>3 DEF CutsTouch
  <2>3. Intact(p, op[t].id)
    BY <1>0, <1>3, <2>1 DEF PathsKept
  <2>4. op[t].id = tree[p].fileID
    BY <2>3 DEF Intact
  <2>5. op[t].size <= Len(Content(r))
    BY <1>0, <1>1, <1>3, <2>1, <2>2, <2>4 DEF WritesReach
  <2>6. op[t].size \in Nat
    BY <2>1, SizesAssumption DEF SizeState
  <2> QED  BY <1>0, <1>1, <1>3, <2>5, <2>6
<1>4. ASSUME NEW id \in FileIds, Creates(p, id)
      PROVE  tree'[p].size <= Len(Content(r)')
  <2>1. tree'[p].size = 0
    BY <1>4 DEF Creates
  <2> QED  BY <1>0, <2>1
<1> QED  BY <1>2, <1>3, <1>4, PathSteps DEF PathStep, SameFileAt

\* The inductive invariant of sizes.
LEMMA NextSizes ==
  ASSUME TypeOK, Placement, SizeInv, [Next]_vars
  PROVE  SizeInv'
<1>1. TypeOK'
  BY NextTyped
<1>2. OwnReplicas /\ PathsKept /\ CutsTouch /\ WritesReach /\ PutsReach
  BY DEF SizeInv
<1>3. OwnReplicas'
  BY <1>2, NextOwnReplicas
<1>4. PathsKept' /\ CutsTouch'
  BY <1>2, NextPathsKept, NextCutsTouch
<1>5. WritesReach' /\ PutsReach' /\ MetadataFollowsData'
  BY <1>1, <1>2, NextWritesReach, NextPutsReach, NextMetadataFollows
<1> QED  BY <1>3, <1>4, <1>5 DEF SizeInv

\* First the data, then the metadata: each size that the server has is covered by
\* every replica (docs/filesystem-semantics.md:175), except on paths to which an
\* upload is under way, and on those that were renamed, unlinked, truncated,
\* overwritten, uploaded to some nodes only or written nothing to.
THEOREM SizesFollowData == Spec => []MetadataFollowsData
<1>1. Init => TypeOK /\ Placement /\ SizeInv
  <2> SUFFICES ASSUME Init PROVE TypeOK /\ Placement /\ SizeInv
    OBVIOUS
  <2>1. TypeOK /\ Placement
    BY InitTyped
  <2>2. \A p \in Locations : ~IsFile(tree, p)
    BY DEF Init, EmptyTree, IsFile, NoEntry, Dir
  <2>3. /\ \A h \in Handles : ~fh[h].open
        /\ \A t \in Threads : op[t].pc = "idle"
    BY DEF Init, NoHandle, Idle
  <2>4. \A p \in Paths : p \in Locations
    BY DEF Locations
  <2> QED
    BY <2>1, <2>2, <2>3, <2>4
       DEF SizeInv, OwnReplicas, PathsKept, CutsTouch, WritesReach, PutsReach,
           MetadataFollowsData
<1>2. TypeOK /\ Placement /\ SizeInv /\ [Next]_vars => TypeOK' /\ Placement' /\ SizeInv'
  BY NextTyped, NextSizes
<1>3. SizeInv => MetadataFollowsData
  BY DEF SizeInv
<1> QED  BY <1>1, <1>2, <1>3, PTL DEF Spec

=============================================================================
