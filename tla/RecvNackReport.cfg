SPECIFICATION Spec
CONSTANTS
  Half = 5
  Base = 8
  Horizon = 4
  MaxTime = 4
  MaxQueueSize = 4
  MaxReqCount = 1
  MaxAliveTime = 2
  FirstNackInterval = 1
  StartNackInterval = 3
  MinNackInterval = 1
  MaxNackInterval = 3
  NackCheckInterval = 1
  Rtts = {2}
PROPERTY ExtendedHighestGrows
CHECK_DEADLOCK FALSE
