SPECIFICATION FairSpec
CONSTANTS
    c1 = c1
    Channels = {c1}
    Main = Main
    QueueList <- QueuesInOrder
    Threads = {t1, t2}
    None = None
    MaxOutQ = 112
    RawBuf = 128
    MacLen = 20
    Word = 65536
    InitWindow = 20
    MaxPacketRemote = 24
    DataSizes = {20, 40}
    ControlSizes = {60}
    MainKinds = {"disconnect"}
    MainSizes = {60}
    Grants = {40}
    MaxBytes = 40
    MaxControl = 1
    MaxGrant = 100
    SocketMayFail = TRUE
CHECK_DEADLOCK FALSE
INVARIANTS
    TypeOK
    NoLostWakeup
    OnlyPeekedOverruns
    CountExact
    NoDangling
PROPERTIES
    ChargeExact
    ImplementsStream
    WriterReturns
    EverythingSent
