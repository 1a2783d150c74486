SPECIFICATION Spec
CONSTANTS
  a = a
  b = b
  Names = {a, b}
  Paths <- MCPaths
  FileIds = {f1, f2, f3}
  Addrs = {d1}
  Sizes = {0, 1}
  Hash <- MCHash
  replicaCount = 1
SYMMETRY Symmetry
INVARIANTS
  TypeOK
  WellFormed
  IdentityUnique
PROPERTIES
  NoResurrection
  OverwriteKeepsIdentity
  LostOnlyByName
  MovesKeepTheObject
CHECK_DEADLOCK FALSE
