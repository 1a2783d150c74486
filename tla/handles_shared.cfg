SPECIFICATION Spec
CONSTANTS
  Names = {a}
  Paths <- TopPaths
  FileIds = {f1, f2}
  Addrs = {d1, d2}
  MaxLen = 2
  Sizes <- SizeRange
  Hash <- ZeroHash
  replicaCount = 2
  Handles = {h1}
  Threads = {t1, t2}
  Nodes <- NodeList
  Marks = {m1, m2}
  Zero = zero
  Lengths = {1}
  Flags = {{"creat"}}
  Cuts = {0}
  Others = {"upload"}
  Modes = {"OverwriteIfExists"}
SYMMETRY Symmetry
INVARIANTS
  TypeOK
  ReadsAreRegular
  MetadataFollowsData
CHECK_DEADLOCK FALSE
