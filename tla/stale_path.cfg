SPECIFICATION Spec
CONSTANTS
  Names = {a, b}
  Paths <- TopPaths
  FileIds = {f1, f2}
  Addrs = {d1}
  MaxLen = 2
  Sizes <- SizeRange
  Hash <- ZeroHash
  replicaCount = 1
  Handles = {h1, h2}
  Threads = {t1}
  Nodes <- NodeList
  Marks = {m1, m2}
  Zero = zero
  Lengths = {1}
  Flags = {{"creat", "trunc"}}
  Cuts = {0, 1}
  Others = {"rename"}
  Modes = {"CreateIfNotExist", "OverwriteIfExists"}
PROPERTY
  UpdatesOwnFile
CHECK_DEADLOCK FALSE
