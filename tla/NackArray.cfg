SPECIFICATION ArraySpec
CONSTANTS
  Half = 5
  Base = 8
  Horizon = 4
  MaxTime = 8
  MaxQueueSize = 4
  MaxReqCount = 1
  MaxAliveTime = 3
  FirstNackInterval = 1
  StartNackInterval = 3
  MinNackInterval = 1
  MaxNackInterval = 3
  NackCheckInterval = 1
  Rtts = {2}
INVARIANTS TypeOK WindowIsTrue NoLossForgotten NoSpuriousNack QueueBounded Paced ArraySorted
PROPERTIES HighestAdvances ImplementsRecvNack
CHECK_DEADLOCK FALSE
