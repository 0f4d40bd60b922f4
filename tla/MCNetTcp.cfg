SPECIFICATION NetFairSpec
CONSTANTS
  NetUnits = 2
  RingCap = 1
  SockCap = 1
  OutCap = 1
  QueueCap = 2
INVARIANTS
  NetTypeOK
  NoLostWakeup
  FinBehindData
PROPERTIES
  ShutdownCompletes
CHECK_DEADLOCK FALSE
