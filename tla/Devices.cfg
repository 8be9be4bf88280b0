SPECIFICATION DevicesSpec
CONSTANTS
  PollMax = 2
  Total = 2
  Data = {1, 2}
  NoData = 0
  NumTx = 3
  NumRx = 3
  Packets = {1, 2}
  Functions <- MCFunctions
  Spaces <- MCSpaces
  Wanted <- MCWanted
INVARIANTS
  DiskAnswers
  FoundIsThere
PROPERTIES
  DiskCallsReturn
  ImplementsQueues
  HeadAdvances
CHECK_DEADLOCK FALSE
