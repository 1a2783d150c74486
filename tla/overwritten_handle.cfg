SPECIFICATION Spec
CONSTANTS
  Names = {a}
  Paths <- TopPaths
  FileIds = {f1, f2}
  Addrs = {d1}
  MaxLen = 2
  Sizes <- SizeRange
  Hash <- ZeroHash
  replicaCount = 1
  Handles = {h1, h2}
  Threads = {t1}
  Nodes <- NodeList
  Marks = {m1, m2}
  Zero = zero
  Lengths = {0, 1}
  Flags = {{"creat", "trunc"}}
  Cuts = {1}
  Others = {"upload"}
  Modes = {"CreateIfNotExist", "OverwriteIfExists"}
SYMMETRY Symmetry
INVARIANT
  HandlesFollowTheirFile
CHECK_DEADLOCK FALSE
