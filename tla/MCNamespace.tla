---------------------------- MODULE MCNamespace ----------------------------
(* All paths of two names and one branch of three on either side: a         *)
(* directory with a directory in it can be moved to its sibling and tries   *)
(* to move below itself, and two files can collide.                         *)
EXTENDS Namespace, TLC

CONSTANTS a, b

MCPaths == [1..1 -> Names] \cup [1..2 -> Names] \cup {<<a, a, b>>, <<b, a, b>>}
MCHash == [p \in MCPaths |-> 0]
Symmetry == Permutations(FileIds)
=============================================================================
