SPECIFICATION Spec
CONSTANTS
  Names = {a}
  Paths <- TopPaths
  FileIds = {f1}
  Addrs = {d1, d2}
  MaxLen = 2
  Sizes <- SizeRange
  Hash <- ZeroHash
  replicaCount = 2
  Handles = {h1, h2}
  Threads = {t1}
  Nodes <- NodeList
  Marks = {m1, m2}
  Zero = zero
  Lengths = {1}
  Flags = {{"creat"}}
  Cuts = {0}
  Others = {}
  Modes = {"CreateIfNotExist", "OverwriteIfExists"}
PROPERTY
  WritesNeverShrink
CHECK_DEADLOCK FALSE
