SPECIFICATION FairSpec
CONSTANTS
  Names = {a, b}
  Paths <- TopPaths
  FileIds = {f1}
  Addrs = {d1, d2}
  Sizes = {0}
  Hash <- ZeroHash
  replicaCount = 2
  Clients = {c1}
  Owns <- Shared
  Modes = {"CreateIfNotExist"}
  GcRuns = {g1}
  Window = 1
  Skew <- NoSkew
  Flaky = {d1}
  MaxTime = 1
  Horizon = 0
INVARIANTS
  GcSparesLiveData
  CompleteIsReadable
  ReplicasOnDistinctNodes
PROPERTIES
  OrphansReclaimed
  LateNodesRemoved
