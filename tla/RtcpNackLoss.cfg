SPECIFICATION Spec
CONSTANTS
  Half = 8
  MaskLen = 2
  Span = 7
  MaxMissing = 5
INVARIANT AllAsked
CHECK_DEADLOCK FALSE
