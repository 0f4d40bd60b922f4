CONSTANTS
  Window = 1
  SinkBuffer = 1
  MaxUnits = 2
SPECIFICATION FairSpec
INVARIANT TypeOK
INVARIANT BacklogBounded
INVARIANT EofMeansComplete
PROPERTY RelayWindsUp
CHECK_DEADLOCK FALSE
