SPECIFICATION KbFairSpec
CONSTANTS
  Lines = {0, 1}
  Drivers = {1}
  MaxEdges = 1
  MaxKeys = 2
  KeyEvents = {"char", "release"}
PROPERTIES
  KeyboardIsInitialised
CHECK_DEADLOCK FALSE
