CONSTANTS
  Arch = "arm64"
  CodeWritable = TRUE
  Alone = FALSE
  PageSize = 4
  Sizes <- MCSizes
  Addrs <- MCAddrs
SPECIFICATION FairSpec
INVARIANTS
  TypeOK
  MmapSliceRestores
  ImageFits
  NoMappingLeaks
  MmapReturnsMapping
PROPERTY
  CallReturns
CHECK_DEADLOCK FALSE
