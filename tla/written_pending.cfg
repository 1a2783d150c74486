SPECIFICATION Spec
CONSTANTS
  Names = {a}
  Paths <- TopPaths
  FileIds = {f1}
  Addrs = {d1, d2}
  MaxLen = 2
  Sizes <- SizeRange
  Hash <- ZeroHash
  replicaCount = 2
  Handles = {h1}
  Threads = {t1}
  Nodes <- NodeList
  Marks = {m1}
  Zero = zero
  Lengths = {1}
  Flags = {{"creat", "trunc"}}
  Cuts = {0}
  Others = {}
  Modes = {"CreateIfNotExist", "OverwriteIfExists"}
PROPERTY
  ClosedIsComplete
CHECK_DEADLOCK FALSE
