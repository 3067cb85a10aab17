SPECIFICATION Spec
CONSTANTS
  Worker = {w1, w2, w3}
  Caller = {c1, c2}
  Nil = Nil
  Half = Half
  IndexLimit = 5
SYMMETRY Symmetry
VIEW WithoutWasEmpty
INVARIANTS ListMatchesNames LBInv
PROPERTIES EvenSpread MissNeedsChange RotationSpec
CHECK_DEADLOCK FALSE
