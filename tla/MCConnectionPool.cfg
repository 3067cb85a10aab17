SPECIFICATION FairSpec
CONSTANTS
  Client = {c1, c2, c3}
  PoolSize = 2
  MaxDials = 3
INVARIANTS TokenInv NoLeak CloseIsComplete ExclusiveConn PoolInv
PROPERTIES SlotComesBack ImplementsSemaphore
CHECK_DEADLOCK FALSE
