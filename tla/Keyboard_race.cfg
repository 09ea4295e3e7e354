SPECIFICATION KbSpec
CONSTANTS
  Lines = {1}
  Drivers = {1}
  MaxEdges = 0
  MaxKeys = 4
  KeyEvents = {"char", "beyond", "caps", "shift", "rshift", "nav", "navUp"}
INVARIANTS
  HandlerFindsCode
  DeliveredInOrderTwiceAtMost
  LookedUpAsTyped
\* A kernel that has panicked halts.
CHECK_DEADLOCK FALSE
