---------------------------- MODULE MCFileHandle ----------------------------
EXTENDS FileHandle

TopPaths == [1..1 -> Names]
ZeroHash == [p \in Paths |-> 0]
NodeList == SetToSeq(Addrs)
SizeRange == 0..MaxLen

Symmetry == Permutations(Marks) \cup Permutations(FileIds) \cup Permutations(Threads)
              \cup Permutations(Handles) \cup Permutations(Names)
=============================================================================
