SPECIFICATION FairServiceSpec
CONSTANTS
  Worker = {w1, w2}
  Probe = {}
  Request = {r1}
  PoolSize = 1
VIEW WithoutRecords
CONSTRAINT BeforeShutdown
PROPERTIES EndedLeaves BusyComesBack
CHECK_DEADLOCK FALSE
