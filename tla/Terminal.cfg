SPECIFICATION Spec
CONSTANTS
  Width = 13
  Height = 17
  W = 2
  H = 2
  Bar = 1
  Size = 4
  MaxHeight = 16
  Keys <- MCKeys
  FetchName <- MCFetchName
  LogText <- MCLogText
  Banner <- MCBanner
  FetchText <- MCFetchText
INVARIANTS
  BufferIsTheLine
  ScreenShowsLine
  RunsTheNamedCommand
PROPERTIES
  WritesStayInLine
\* The model ends where buffer is overrun and at MaxHeight.
CHECK_DEADLOCK FALSE
