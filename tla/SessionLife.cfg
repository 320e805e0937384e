SPECIFICATION Spec
CONSTANTS
  TimerThreads = 2
  Retries = 1
INVARIANTS TypeOK FreedUnused NothingSurvives KeysBeforeMedia OneHandshakeThread
PROPERTY CloseEnds
CHECK_DEADLOCK FALSE
