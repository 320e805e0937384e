SPECIFICATION Spec
CONSTANTS
    Session = {1, 2}
    Servers = {1}
    MaxChannel = 1
    MaxConns = 2
INVARIANTS
    TypeOK
    CountKeepsIt
    ReadyIsBound
    NotMisdelivered
    NobodyForgotten
    StopIsHeard
PROPERTY
    PeersServed
CHECK_DEADLOCK FALSE
