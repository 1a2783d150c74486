---------------------------- MODULE MCFileStore ----------------------------
EXTENDS FileStore

TopPaths == [1..1 -> Names]
ZeroHash == [p \in Paths |-> 0]
\* Every node is a tick behind the server.
Slow == [d \in Addrs |-> -1]
NoSkew == [d \in Addrs |-> 0]

\* All clients work on all paths.
Shared == [c \in Clients |-> Paths]

Symmetry == Permutations(FileIds) \cup Permutations(Clients)
              \cup Permutations(Names) \cup Permutations(Addrs)
=============================================================================
