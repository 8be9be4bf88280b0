SPECIFICATION ErrorSpec
CONSTANTS
  FatMax = 9
  DataEnd = 9
  NumFats = 1
  Slots = 2
  Names = {"A", "B", "C"}
  Dir = "D"
  Contents <- Saves
  Missing = Missing
  MaxFailures = 1
PROPERTY SavesTheFile
