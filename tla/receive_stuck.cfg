SPECIFICATION FairReceive
CONSTANTS
    RawBufSize = 12
    PlainBlock = 2
    CipherBlock = 4
    MacLens = {5}
    PlainLens = {4}
    Lens = {4}
    DamagedLens = {4}
    MaxPackets = 5
PROPERTY LoopTerminates
CHECK_DEADLOCK FALSE
