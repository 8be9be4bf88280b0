SPECIFICATION ExecSpec
CONSTANTS
  TotalFrames = 20
  FrameSize = 1
  LowMem = 1
  KernelStart = 1
  KernelEnd = 2
  MemMaps <- BigMemory
  Modules <- MCModules
  Region = 2
  UserMin = 16
  Programs <- MCPrograms
INVARIANT JumpsOrFails
CHECK_DEADLOCK FALSE
