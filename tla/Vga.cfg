SPECIFICATION Spec
CONSTANTS
  Rows = 3
  Cols = 2
  TabStop = 1
  Chars = {"a"}
  Colors = {1, 2}
  FirstColor = 1
  MaxOut = 8
INVARIANTS
  TypeOK
  ShowsTail
PROPERTY
  DrawnInPlace
