SPECIFICATION FairSpec
CONSTANTS
  Worker = {w1, w2}
  Probe = {}
PROPERTY CheckerEnds
CHECK_DEADLOCK FALSE
