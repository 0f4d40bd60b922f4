SPECIFICATION FairSpec
CONSTANTS
  Starts = 2
  Fds = 4
  TunCap = 1
INVARIANTS
  TypeOK
  ReaderOwnsItsFd
  FdReturned
PROPERTIES
  StopEndsAll
