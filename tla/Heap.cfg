SPECIFICATION Spec
CONSTANTS
  Usable <- EightUsable
  Starts <- NineFrames
  Frames <- NineFrames
  Holders = {h1, h2}
  Nobody = Nobody
  PageSize = 5
  HeaderSize = 4
  PagesOffset = 2
  FreeMemory = 45
  Sizes = {1, 4, 5, 6}
  PayloadWords = {0, 2}
INVARIANTS
  HeadersHoldUntilOverrun
PROPERTIES
  UsesThePoolProperly
\* PmRequest may search for ever, and a crashed kernel stops.
CHECK_DEADLOCK FALSE
