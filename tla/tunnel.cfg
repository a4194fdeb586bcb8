SPECIFICATION FairSpec
CONSTANTS
    c1 = c1
    c2 = c2
    x1 = x1
    Tcp = {c1}
    X11 = {x1}
    BufLen = 1
    QueueMax = 1
    SocketRoom = 1
    PacketLen = 2
    MaxSent = 2
    MaxSaid = 1
    MaxEnds = 1
    MaxStarted = 1
INVARIANTS TypeOK BytesKept PairOutlived OtherKept
PROPERTIES ShutdownReturns GoneEnds
CHECK_DEADLOCK FALSE
