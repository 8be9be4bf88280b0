SPECIFICATION Spec
CONSTANTS
  FsMax = 3
  Names = {"t", "r"}
  LongName = "tr"
  LongHead = "t"
  LongRest = "r"
  Contents = {"x", "y"}
  TooLong = "xxx"
  Mbrs <- TwoDisks
  Depth = 2
INVARIANTS
  CwdLeadsBack
  MountAgrees
PROPERTIES
  ImplementsFileTree
  AcceptedLeads
  RamKept
