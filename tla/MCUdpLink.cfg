CONSTANTS
  IdSpace = 6
  WINDOW = 3
  MaxPackets = 7
  ReadSizes <- MCReadSizes
SPECIFICATION Spec
INVARIANT AtMostOnce
INVARIANT AcceptsExactly
PROPERTY FilterSpec
CHECK_DEADLOCK FALSE
