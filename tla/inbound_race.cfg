SPECIFICATION Spec
CONSTANTS
    Readers = {r1}
    Streams = {"data"}
    Modes = {"poll"}
    MaxQueue = 32
    Word = 256
    SendSizes = {16}
    MaxSent <- ManyWindows
    MaxAdjusts = 2
    SocketMayDie = FALSE
CHECK_DEADLOCK FALSE
INVARIANTS
    PeerMaySend
