SPECIFICATION Spec
CONSTANTS
    Readers = {r1, r2}
    Streams = {"data", "ext"}
    Modes = {"poll", "timed"}
    MaxQueue = 32
    Word = 256
    SendSizes = {16}
    MaxSent <- MostlyData
    MaxAdjusts = 1
    SocketMayDie = TRUE
CHECK_DEADLOCK FALSE
SYMMETRY Symmetric
INVARIANTS
    TypeOK
    NoStrandedData
    InOrder
