CONSTANTS
  Arch = "amd64"
  CodeWritable = TRUE
  Alone = TRUE
  PageSize = 4
  Sizes <- MCSizes
  Addrs <- MCAddrs
SPECIFICATION Spec
INVARIANT
  MmapReturnsMapping
CHECK_DEADLOCK FALSE
