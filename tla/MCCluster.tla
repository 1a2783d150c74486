------------------------------ MODULE MCCluster ------------------------------
EXTENDS Cluster

TopPaths == [1..1 -> Names]
ZeroHash == [p \in Paths |-> 0]
NodeList == SetToSeq(Addrs)
NoSkew == [d \in Addrs |-> 0]

\* Heartbeats of every node, and uploads and deletes of every path.
Asked ==
  [op : {"heartbeat"}, addr : Addrs]
    \cup [op : {"create_file"}, path : Paths, mode : {"CreateIfNotExist"}, size : Sizes]
    \cup [op : {"delete"}, path : Paths]

Symmetry == Permutations(Calls) \cup Permutations(FileIds)
=============================================================================
