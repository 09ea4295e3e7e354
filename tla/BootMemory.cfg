SPECIFICATION Spec
CONSTANTS
  PageSize = 2
  ByteBits = 3
  MemMaps <- SomeMaps
  FbSizes = {2, 3, 5}
  StackJunk = {0, 60}
INVARIANTS
  FreePagesAreTheRest
  BuffersAreKept
  BitsStayInBitmap
  LeavesHoleForPmFindFree
CHECK_DEADLOCK FALSE
