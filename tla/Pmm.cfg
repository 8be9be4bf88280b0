SPECIFICATION Spec
CONSTANTS
  TotalFrames = 12
  FrameSize = 4
  LowMem = 4
  KernelStart = 4
  KernelEnd = 7
  MemMaps <- MCMemMaps
  Modules <- MCModules
  UserMin = 9
INVARIANTS
  TypeOK
  FreeCountExact
  Accounting
  SafeBytes
  ZeroMeansFull
