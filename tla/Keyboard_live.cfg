SPECIFICATION KbFairSpec
CONSTANTS
  Lines = {1, 8, 12}
  Drivers = {1}
  MaxEdges = 1
  MaxKeys = 2
  KeyEvents = {"char", "release"}
INVARIANTS
  ServiceMatches
  HandlersAreNotNested
PROPERTIES
  DevicesAreServed
  LastCharArrives
\* A kernel that has panicked halts.
CHECK_DEADLOCK FALSE
