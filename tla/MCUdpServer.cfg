SPECIFICATION FairSpec
CONSTANTS
  Addrs = {a1, a2}
  MaxGen = 2
  MaxHs = 2
  Payloads = 1
  ChanCap = 1
INVARIANTS
  TypeOK
  OneRelayPerAddr
  ClosedLeavesTable
PROPERTIES
  RemovesOwnSession
CHECK_DEADLOCK FALSE
