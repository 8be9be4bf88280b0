SPECIFICATION FairSpec
CONSTANTS
  FatMax = 8
  DataEnd = 7
  NumFats = 2
  Slots = 2
  Names = {"A", "B"}
  Dir = "D"
  Contents <- Saves
  Missing = Missing
  MaxFailures = 1
INVARIANTS
  ChainsSound
  NoLeak
  CopiesAgree
  GivesUpOnlyWhenFull
PROPERTIES
  ImplementsFileStore
  CallsReturn
