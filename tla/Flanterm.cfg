SPECIFICATION Spec
CONSTANTS
  Rows = 3
  Cols = 4
  Default <- MCDefault
  MaxValues = 5
  TabSize = 2
  Printable <- MCPrintable
  Leads <- MCLeads
  CP437 <- MCCP437
  Width <- MCWidth
  DecSpecial <- MCDecSpecial
  StartCells <- MCStartCells
  Buffers <- MCBuffers
  MaxWrites = 3
CHECK_DEADLOCK FALSE
INVARIANTS
  TypeOK
  OneSequenceAtATime
  CursorStaysInRegion
  ScrollingStaysInRegion
  EditingIsExact
  ColoursFollowAttributes
