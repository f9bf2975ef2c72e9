SPECIFICATION FairSpec
CONSTANTS
    Size = 4
    Data <- TwoBytes
    Packet = 2
    Timeout = 1
    ReadyWord = 3
    CountWord = 256
    Room = 4
    Streamed <- AllTheSame
    MaxReady = 2
INVARIANTS
    TypeOK
    InPool
    PacketNotForgotten
PROPERTIES
    ImplementsLink
    PacketDispatched
    RestIsDiscarded
