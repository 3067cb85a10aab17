SPECIFICATION Spec
CONSTANTS
  Client = {c1, c2, c3}
  PoolSize = 2
  MaxDials = 3
INVARIANT FetchYieldsConn
CHECK_DEADLOCK FALSE
