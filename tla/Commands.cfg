SPECIFICATION CommandsSpec
CONSTANTS
  PathMax = 8
  CopyMax = 6
  Names <- MCNames
  Dirs <- MCDirs
  Contents = {1, 2}
  Upper <- MCUpper
  Depth = 3
  MaxFiles = 2
  LongHalf = 64
  IntHalf = 16
  Tables <- MCTables
  Caps = {0, 1, 9, 11, 12, 13, 14, 25, 30, 56, 112, 256, 513}
  MoonKeys <- MCMoonKeys
  MaxTyped = 3
  Half = 4
  Digits <- MCDigits
  CalcMax = 5
  Rows = 2
  Cols = 4
  TabStop = 2
  Chars = {"a", "b", "p"}
  Colors = {1, 2}
  FirstColor = 1
  MaxOut = 0
  LineMax = 2
  HistN = 2
  Keys = {"a", "b"}
  Prompts <- MCPrompts
  Outputs <- MCOutputs
  PromptColor = 2
  MaxEntered = 3
INVARIANTS
  PathsLead
  SavedIsRead
  MoonTrue
  CalcRight
  LineShown
  HistoryRight
CHECK_DEADLOCK FALSE
