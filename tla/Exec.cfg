SPECIFICATION ExecFairSpec
CONSTANTS
  TotalFrames = 20
  FrameSize = 1
  LowMem = 1
  KernelStart = 1
  KernelEnd = 2
  MemMaps <- MCMemMaps
  Modules <- MCModules
  Region = 2
  UserMin = 16
  Programs <- MCPrograms
INVARIANTS
  ImageIntact
  TablesSafe
  NoFrameLeak
PROPERTY LaunchEnds
CHECK_DEADLOCK FALSE
