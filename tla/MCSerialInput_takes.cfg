SPECIFICATION Spec
CONSTANTS
    Size = 4
    Data <- OneByte
    Packet = 2
    Timeout = 1
    ReadyWord = 256
    CountWord = 256
    Room = 4
    Streamed <- AllTheSame
    MaxReady = 255
INVARIANTS
    TakesPacket
