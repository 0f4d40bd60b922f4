CONSTANTS
  p1 = p1
  p2 = p2
  r1 = r1
  r2 = r2
  None = None
  Peers <- MCPeers
  Requests <- MCRequests
SYMMETRY Symmetry
SPECIFICATION Spec
INVARIANT ServedIsStored
INVARIANT CreatedSurvives
INVARIANT AgreeWhenQuiet
PROPERTY DeletedUntilRestart
