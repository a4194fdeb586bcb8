SPECIFICATION Spec
CONSTANTS
    c1 = c1
    Channels = {c1}
    Main = Main
    QueueList <- QueuesInOrder
    Threads = {t1}
    None = None
    MaxOutQ = 112
    RawBuf = 144
    MacLen = 20
    Word = 65536
    InitWindow = 20
    MaxPacketRemote = 24
    DataSizes = {30}
    ControlSizes = {60}
    MainKinds = {"disconnect"}
    MainSizes = {60}
    Grants = {40}
    MaxBytes = 60
    MaxControl = 1
    MaxGrant = 100
    SocketMayFail = TRUE
CHECK_DEADLOCK FALSE
INVARIANT RawBufferFits
