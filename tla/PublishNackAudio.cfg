SPECIFICATION Spec
CONSTANTS
  SeqCount = 8
  RingLen = 3
  QueueLen = 4
  MaxLag = 0
  Horizon = 12
INVARIANT AnswerIsRequested
CHECK_DEADLOCK FALSE
