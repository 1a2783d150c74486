SPECIFICATION Spec
CONSTANTS
  Names = {a, b}
  Paths <- TopPaths
  FileIds = {f1, f2}
  Addrs = {d1}
  Sizes = {0}
  Hash <- ZeroHash
  replicaCount = 1
  Clients = {c1}
  Owns <- Shared
  Modes = {"CreateIfNotExist", "OverwriteIfExists"}
  GcRuns = {g1}
  Window = 1
  Skew <- NoSkew
  Flaky = {d1}
  MaxTime = 1
  Horizon = 1
SYMMETRY Symmetry
INVARIANT
  GcSparesLiveData
