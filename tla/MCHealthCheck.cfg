SPECIFICATION Spec
CONSTANTS
  Worker = {w1, w2}
  Probe = {p1}
SYMMETRY Symmetry
VIEW Told200
CONSTRAINT ProbesApart
INVARIANTS RotationMatchesStates RoundCleans ProbeTruth HealthInv
CHECK_DEADLOCK FALSE
