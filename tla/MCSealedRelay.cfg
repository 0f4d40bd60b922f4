SPECIFICATION FairSpec
CONSTANTS
  Chunks = 2
  InboxCap = 2
  BatchMax = 2
  FrameLimit = 1
  WireCap = 3
  RtpMod = 2
INVARIANTS
  TypeOK
  DeliveredInOrder
  NonceOnce
  PrefaceConsumed
PROPERTIES
  OneEndsBoth
CHECK_DEADLOCK FALSE
