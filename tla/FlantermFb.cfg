SPECIFICATION Spec
CONSTANTS
  Rows = 3
  Cols = 2
  Default = 0
  MaxCallbacks = 4
  Chars <- MCChars
  Colours <- MCColours
  Margins <- MCMargins
  StartCells <- MCStartCells
INVARIANTS
  QueueAndMapAgree
  GridIsOnScreen
PROPERTIES
  ImplementsTextScreen
