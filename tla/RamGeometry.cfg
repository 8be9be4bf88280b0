SPECIFICATION Spec
CONSTANTS
  FsMax = 3
  Names = {"t", "r"}
  LongName = "tr"
  LongHead = "t"
  LongRest = "r"
  Contents = {"x", "y"}
  TooLong = "xxx"
  Mbrs <- TwoDisks
  Depth = 1
INVARIANT MountedGeometry
