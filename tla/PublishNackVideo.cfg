SPECIFICATION Spec
CONSTANTS
  SeqCount = 6
  RingLen = 4
  QueueLen = 2
  MaxLag = 1
  Horizon = 9
INVARIANTS TypeOK AnswerIsRequested RecentAnswerable
CHECK_DEADLOCK FALSE
