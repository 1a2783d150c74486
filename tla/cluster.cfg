SPECIFICATION Spec
CONSTANTS
  Names = {a}
  Paths <- TopPaths
  FileIds = {f1}
  Addrs = {d1}
  Sizes = {0}
  Hash <- ZeroHash
  replicaCount = 1
  Servers = {s1, s2}
  Calls = {c1, c2}
  Requests <- Asked
  MaxLog = 2
  Attempts = 1
  Registered <- NodeList
  MaxTime = 2
  Window = 1
  Timeout = 1
  MaxLag = 0
  Collectors = {s1}
  Skew <- NoSkew
SYMMETRY Symmetry
INVARIANTS
  TypeOK
  ServersFollowLog
  MembershipConsistent
  GcSparesCommitted
  NoFalseRemovals
CHECK_DEADLOCK FALSE
