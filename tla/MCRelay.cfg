SPECIFICATION Spec
CONSTANTS
  Ruby = {w1, w2}
  Http = {probes}
  Grpc = grpc
  MaxSignals = 1
INVARIANTS ExitIsClean EndsAtOnce RunsWhole
PROPERTY ShutdownEnds
