SPECIFICATION Spec
CONSTANTS
  MaxL = 3
  MaxC = 3
  TxtRows = 2
  FileMax = 6
  Chars = {"a", "b"}
  NL = "/"
  Files <- MCFiles
INVARIANTS
  SaveLoadSame
PROPERTIES
  ExitLosesNothing
  TextKept
