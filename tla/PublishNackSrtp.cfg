SPECIFICATION Spec
CONSTANTS
  SeqCount = 8
  RingLen = 6
  QueueLen = 4
  MaxLag = 1
  Horizon = 12
INVARIANT SentReadable
CHECK_DEADLOCK FALSE
