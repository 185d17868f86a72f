SPECIFICATION Spec
CONSTANTS
  NoFile = NoFile
  x = x
  y = y
  Names <- MCNames
  Fonts <- MCFonts
  Content <- MCContent
  Rooms = {1, 4, 100}
  Unassigned <- MCUnassigned
  MaxEdits = 2
  MaxStarts = 2
SYMMETRY Symmetry
INVARIANT TypeOK
INVARIANT LinesCounted
INVARIANT IndexExact
INVARIANT NamesFresh
PROPERTY NoNeedlessScan
CHECK_DEADLOCK FALSE
