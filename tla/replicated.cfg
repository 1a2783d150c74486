SPECIFICATION RFairSpec
CONSTANTS
  Names = {a, b}
  Paths <- TopPaths
  FileIds = {f1, f2}
  Addrs = {d1}
  Sizes = {0}
  Hash <- ZeroHash
  replicaCount = 1
  Servers = {s1, s2}
  Calls = {c1, c2}
  Requests <- Asked
  MaxLog = 2
  Attempts = 2
  Registered <- FirstNode
  MaxTime = 1
INVARIANTS
  RTypeOK
  CallsCommitOnce
PROPERTIES
  CallsReturn
  RefinesNamespace
CHECK_DEADLOCK FALSE
