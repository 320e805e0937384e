SPECIFICATION Spec
CONSTANTS
  N = 3
  SizeCount = 8
  Horizon = 8
INVARIANTS TypeOK HandedOutIntact
PROPERTIES IsFrameQueue Drained
CHECK_DEADLOCK FALSE
