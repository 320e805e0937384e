CONSTANTS
    Half = 7
    Base = 11
    CacheLen = 7
    MaxPayload = 2
    MaxFrames = 4
    Sizes = {1, 3, 4}
    MaxPackets = 9
    MaxDelay = 3
SPECIFICATION Spec
INVARIANTS TypeOK NotMixed Whole OncePerPacket InOrder LostIsMissing NothingWithheld
PROPERTY IsDelivery
CHECK_DEADLOCK FALSE
