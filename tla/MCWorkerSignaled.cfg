SPECIFICATION Spec
PROPERTY SignalsOnlyAlive
CHECK_DEADLOCK FALSE
