SPECIFICATION FairReceive
CONSTANTS
    RawBufSize = 12
    PlainBlock = 2
    CipherBlock = 4
    MacLens = {3, 5}
    PlainLens = {4}
    Lens = {4, 8}
    DamagedLens = {2, 4, 5, 8}
    MaxPackets = 5
INVARIANTS RingKept Genuine
PROPERTY FollowedIsRead
CHECK_DEADLOCK FALSE
