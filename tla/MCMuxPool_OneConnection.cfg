CONSTANTS
  t1 = t1
  t2 = t2
  c1 = c1
  c2 = c2
  None = None
  Tasks <- MCTasks
  Conns <- MCConns
SPECIFICATION Spec
INVARIANT OneConnection
