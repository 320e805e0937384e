CONSTANTS
    Half = 8
    Base = 13
    CacheLen = 8
    MaxPayload = 2
    MaxFrames = 3
    Sizes = {1, 4}
    MaxPackets = 6
    MaxDelay = 3
SPECIFICATION Spec
PROPERTY OnlyOldCleaned
CHECK_DEADLOCK FALSE
