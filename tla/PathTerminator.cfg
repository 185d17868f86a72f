SPECIFICATION Spec
CONSTANTS
  Rooms = {9}
  MaxLines = 1
  MaxPieces = 1
  MaxUnits = 2
  MaxChars = 1
  MaxKeys = 1
INVARIANT AlwaysTerminated
CHECK_DEADLOCK FALSE
