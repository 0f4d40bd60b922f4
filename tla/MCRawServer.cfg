SPECIFICATION FairSpec
CONSTANTS
  c1 = c1
  c2 = c2
  Conns <- MCConns
  Frames <- MCFrames
  Chunks = 2
  Buffer = 1
  Wrap = 3
INVARIANTS
  TypeOK
  ActiveExact
  AnswerWhole
PROPERTIES
  LeftIsUncounted
CHECK_DEADLOCK FALSE
