SPECIFICATION Spec
CONSTANTS
  Rooms = {1, 9}
  MaxLines = 4
  MaxPieces = 4
  MaxUnits = 3
  MaxChars = 3
  MaxKeys = 7
INVARIANT FontsNamed
INVARIANT TextKept
INVARIANT VersionsOrdered
INVARIANT SortedPermutation
CHECK_DEADLOCK FALSE
