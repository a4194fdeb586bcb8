SPECIFICATION FairSpec
CONSTANTS
    RawBufOut = 6
    MinRoom = 2
    PacketLen <- Lengths
    ClientAlgs <- Algs
    ServerOffers <- Servers
    MaxExchanges = 2
    MaxData = 2
    MaxServerData = 1
INVARIANTS TypeOK SameKeys QuietExchange SignatureAccepted
PROPERTY ExchangeEnds
CHECK_DEADLOCK FALSE
