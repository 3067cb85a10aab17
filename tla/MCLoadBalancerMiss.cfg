SPECIFICATION Spec
CONSTANTS
  Worker = {w1, w2, w3}
  Caller = {c1, c2}
  Nil = Nil
  Half = Half
  IndexLimit = 5
SYMMETRY Symmetry
VIEW WithoutGarbage

PROPERTY MissOnlyWhenEmpty
CHECK_DEADLOCK FALSE
