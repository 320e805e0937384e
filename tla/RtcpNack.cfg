SPECIFICATION Spec
CONSTANTS
  Half = 8
  MaskLen = 2
  Span = 7
  MaxMissing = 5
INVARIANTS NothingElseAsked OldestAsked OnePairIsWhole
CHECK_DEADLOCK FALSE
