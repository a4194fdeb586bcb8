------------------------------ MODULE Outbound ------------------------------
(***************************************************************************)
(* The sending half of PTssh: user threads queue packets through           *)
(* ChannelManager::queueOutboundData, the SocketSend thread takes them out *)
(* with ChannelManager::getNextPacket (splitting channel data to the       *)
(* peer's window, the peer's packet limit and the room left in its raw     *)
(* buffer), encodes them and writes them to the socket, and the Transport  *)
(* thread applies the peer's window adjustments.                           *)
(*                                                                         *)
(* The channels are open and the key exchange is over (KeyExchange mode is *)
(* the other branch of getNextPacket).  A step is a critical section or a  *)
(* part of getNextPacket between two of its accesses to shared state.      *)
(***************************************************************************)
EXTENDS Integers, Sequences, FiniteSets, SequencesExt

CONSTANTS
    Channels,        \* the open channels
    Main,            \* the name of the queue m_pMainQ
    QueueList,       \* m_pQueueList: Main, then the channels' queues as created
    Threads,         \* the user threads that queue packets
    None,            \* a NULL pointer
    MaxOutQ,         \* PTSSH_MAX_OUTBOUND_QUEUE_SIZE
    RawBuf,          \* PTSSH_MAX_RAW_BUF_OUT_SIZE
    MacLen,          \* m_pCipher->macLen
    Word,            \* uint32 counters wrap at Word
    InitWindow,      \* the window the peer grants when the channel opens
    MaxPacketRemote, \* m_maxPacketSizeRemote
    DataSizes,       \* lengths of the buffers given to channelWrite
    ControlSizes,    \* payload lengths of the other packets put in a channel queue
    MainKinds,       \* kinds of packet put in the main queue
    MainSizes,       \* payload lengths of those
    Grants,          \* amounts of the peer's window adjustments
    MaxBytes,        \* bound: bytes of data queued per channel
    MaxControl,      \* bound: control packets per queue
    MaxGrant,        \* bound: window granted per channel
    SocketMayFail    \* whether send() may report an error

Queues == Channels \cup {Main}

\* The least room SocketSend packs into, the window and the room a data packet
\* needs, and the payload bytes around channel data.
MinRawLeft == 52
MinWindow == 16
MinRoom == 32
DataOverhead == 9

\* BinaryPacket::init pads a packet to a multiple of 16 with at least 4 bytes.
TotalLen(payload) ==
    LET size == 5 + payload
        pad == 16 - (size % 16)
    IN  IF pad < 4 THEN size + pad + 16 ELSE size + pad

DataTotal(len) == TotalLen(DataOverhead + len)

ASSUME OutboundAssumption ==
    /\ Main \notin Channels
    /\ QueueList \in Seq(Queues)
    /\ Queues \subseteq {QueueList[i] : i \in 1..Len(QueueList)}
    /\ {MaxOutQ, RawBuf, MacLen, Word, InitWindow, MaxBytes, MaxControl, MaxGrant}
         \subseteq Nat
    /\ MaxPacketRemote \in Nat \ {0}
    /\ DataSizes \cup ControlSizes \cup MainSizes \cup Grants \subseteq Nat \ {0}
    /\ MacLen + MinRoom <= MinRawLeft
    /\ MinRawLeft <= RawBuf
    /\ RawBuf < Word /\ MaxOutQ < Word /\ MaxGrant < Word
    /\ InitWindow <= MaxGrant
    /\ MainKinds \subseteq {"main", "disconnect"}
    /\ SocketMayFail \in BOOLEAN

Kinds == {"data", "control", "main", "disconnect"}

\* A packet: its queue, its kind, the bytes of data accepted on the channel
\* before it, its length (of the data, or else of the payload), and for a packet
\* that is not data its rank among those of its queue.
Packet == [q : Queues, kind : Kinds, off : Nat, len : Nat, n : Nat]

\* A NULL pointer points at no packet.
ASSUME NoneAssumption == None \notin Packet

PacketTotal(p) == IF p.kind = "data" THEN DataTotal(p.len) ELSE TotalLen(p.len)

\* Subtraction of uint32 values.
Minus(a, b) == (a - b) % Word

VARIABLES
    queue,      \* queue[c]: m_pOutboundQueue of c, or m_pMainQ
    totalBytes, \* totalBytes[c]: m_totalBytesInQ of that queue
    window,     \* window[c]: m_windowSizeRemote
    pc,         \* pc[t]: where thread t is in queueOutboundData
    request,    \* request[t]: the packet t is queueing
    sspc,       \* where SocketSend is
    nextNode,   \* m_pNNIter: a position in QueueList, or one past it for NULL
    firstRound, \* bFirstRound of getNextPacket
    current,    \* pQueue of getNextPacket
    found,      \* *ppBP of getNextPacket
    more,       \* bKeepGoing of getNextPacket
    packed,     \* SocketSend's own m_pOutboundQ
    rawLeft,    \* m_rawBufLeft
    waited,     \* bAlreadyWaitedForMore of run
    disconnectSent, \* m_bDisconnectMsgSent
    accepted, ctlAt, sent, ctlSent, granted, out  \* history: see ChannelStream

userVars == <<pc, request>>
iterVars == <<nextNode, firstRound, current, more>>
ssVars == <<sspc, iterVars, found, packed, rawLeft, waited, disconnectSent>>
acceptVars == <<accepted, ctlAt>>
wireVars == <<sent, ctlSent, out>>
vars == <<queue, totalBytes, window, userVars, ssVars, acceptVars, wireVars, granted>>

Stream == INSTANCE ChannelStream WITH
    MaxPiece <- MaxPacketRemote,
    Sizes <- 1..(MaxBytes + MaxGrant)

Init ==
    /\ queue = [c \in Queues |-> <<>>]
    /\ totalBytes = [c \in Queues |-> 0]
    /\ window = [c \in Queues |-> InitWindow]
    /\ pc = [t \in Threads |-> "idle"]
    /\ request = [t \in Threads |-> None]
    /\ sspc = "pick"
    /\ nextNode = Len(QueueList) + 1
    /\ firstRound = TRUE
    /\ current = None
    /\ found = None
    /\ more = TRUE
    /\ packed = <<>>
    /\ rawLeft = RawBuf
    /\ waited = FALSE
    /\ disconnectSent = FALSE
    /\ accepted = [c \in Queues |-> 0]
    /\ ctlAt = [c \in Queues |-> <<>>]
    /\ sent = [c \in Queues |-> 0]
    /\ ctlSent = [c \in Queues |-> 0]
    /\ granted = [c \in Queues |-> InitWindow]
    /\ out = [c \in Queues |-> Stream!Nothing]
-----------------------------------------------------------------------------
(* Queue::enqueue, and the user threads in queueOutboundData. *)

Enqueue(p) ==
    LET c == p.q
        stamped == [p EXCEPT !.off = accepted[c],
                             !.n = IF p.kind = "data" THEN 0 ELSE Len(ctlAt[c]) + 1]
    IN  /\ queue' = [queue EXCEPT ![c] = Append(@, stamped)]
        /\ totalBytes' = [totalBytes EXCEPT ![c] = (@ + PacketTotal(p)) % Word]
        /\ accepted' = IF p.kind = "data"
                       THEN [accepted EXCEPT ![c] = @ + p.len] ELSE accepted
        /\ ctlAt' = IF p.kind = "data"
                    THEN ctlAt ELSE [ctlAt EXCEPT ![c] = Append(@, accepted[c])]

BytesAllowed(c) == Minus(MaxOutQ, totalBytes[c])

\* The body of the loop in queueOutboundData, run with m_outboundQMutex held; a
\* packet for the main queue is not held back.
QueueOrWait(t, p) ==
    IF p.q = Main \/ PacketTotal(p) <= BytesAllowed(p.q)
    THEN /\ Enqueue(p)
         /\ pc' = [pc EXCEPT ![t] = "idle"]
         /\ request' = [request EXCEPT ![t] = None]
    ELSE /\ pc' = [pc EXCEPT ![t] = "wait"]
         /\ request' = [request EXCEPT ![t] = p]
         /\ UNCHANGED <<queue, totalBytes, acceptVars>>

\* The bounds on what the user queues, looked at when a call begins.
WithinBounds(p) ==
    IF p.kind = "data" THEN accepted[p.q] + p.len <= MaxBytes
                       ELSE Len(ctlAt[p.q]) < MaxControl

UserPackets ==
    [q : Channels, kind : {"data"}, off : {0}, len : DataSizes, n : {0}]
      \cup [q : Channels, kind : {"control"}, off : {0}, len : ControlSizes, n : {0}]
      \cup [q : {Main}, kind : MainKinds, off : {0}, len : MainSizes, n : {0}]

QueueOutboundData(t) ==
    /\ pc[t] = "idle"
    /\ \E p \in UserPackets :
          /\ WithinBounds(p)
          /\ QueueOrWait(t, p)
    /\ UNCHANGED <<window, ssVars, wireVars, granted>>

\* A woken thread takes the mutex again and looks at the queue again.
WakeUp(t) ==
    /\ pc[t] = "woken"
    /\ QueueOrWait(t, request[t])
    /\ UNCHANGED <<window, ssVars, wireVars, granted>>

\* getInboundData queues a window adjustment without m_outboundQMutex and
\* without looking at the limit.
QueueWindowAdjust(c) ==
    /\ c \in Channels
    /\ LET p == [q |-> c, kind |-> "control", off |-> 0, len |-> 9, n |-> 0]
       IN  WithinBounds(p) /\ Enqueue(p)
    /\ UNCHANGED <<window, userVars, ssVars, wireVars, granted>>

\* Deviation: the adjustment is received and not applied.
AdjustWindowLost(c, k) ==
    /\ granted[c] + k <= MaxGrant
    /\ granted' = [granted EXCEPT ![c] = @ + k]
    /\ UNCHANGED <<queue, totalBytes, window, userVars, ssVars, acceptVars, wireVars>>

\* Transport handles SSH_MSG_CHANNEL_WINDOW_ADJUST.
AdjustWindowSizeRemote(c, k) ==
    /\ granted[c] + k <= MaxGrant
    /\ window' = [window EXCEPT ![c] = (@ + k) % Word]
    /\ granted' = [granted EXCEPT ![c] = @ + k]
    /\ UNCHANGED <<queue, totalBytes, userVars, ssVars, acceptVars, wireVars>>
-----------------------------------------------------------------------------
(* SocketSend in getNextPacket. *)

Node == IF nextNode <= Len(QueueList) THEN QueueList[nextNode] ELSE None
Visited == IF Node = None THEN current ELSE Node
KeepGoing == ~ (Node = None /\ ~ firstRound)
Room == Minus(rawLeft, MacLen)

\* Deviation: the room for the padding is forgotten.
DataRoomNoPadding(room) == Minus(room, 14)

\* The data that fits in the room with its overhead and the padding.
DataRoom(room) == Minus(room, 18 + (room % 16))

Smaller(a, b) == IF a <= b THEN a ELSE b

\* Deviation: the peer's window is not looked at.
SendableDataAnyWindow(len, win, room) ==
    Smaller(len, Smaller(MaxPacketRemote, DataRoom(room)))

SendableData(len, win, room) ==
    Smaller(Smaller(len, win), Smaller(MaxPacketRemote, DataRoom(room)))

MaySendData(win, room) == win > MinWindow /\ room >= MinRoom

\* Queue::splitFirstPacket: a first piece of the given size, the rest in pieces
\* of at most MaxPacketRemote.
Pieces(p, first) ==
    LET rest == p.len - first
        count == (rest + MaxPacketRemote - 1) \div MaxPacketRemote
        offset(i) == first + (i - 1) * MaxPacketRemote
    IN  <<[p EXCEPT !.len = first]>> \o
        [i \in 1..count |->
            [p EXCEPT !.off = p.off + offset(i),
                      !.len = Smaller(MaxPacketRemote, p.len - offset(i))]]

PiecesTotal(p, first) ==
    LET rest == p.len - first
    IN  DataTotal(first)
          + (rest \div MaxPacketRemote) * DataTotal(MaxPacketRemote)
          + IF rest % MaxPacketRemote = 0 THEN 0 ELSE DataTotal(rest % MaxPacketRemote)

Recount(c, first) ==
    totalBytes' = [totalBytes EXCEPT ![c] =
        (@ - DataTotal(Head(queue[c]).len) + PiecesTotal(Head(queue[c]), first)) % Word]

\* Deviation: the rest of a split packet goes to the end of the queue.
SplitToTail(c, first) ==
    LET pieces == Pieces(Head(queue[c]), first)
    IN  /\ queue' = [queue EXCEPT ![c] = <<Head(pieces)>> \o Tail(@) \o Tail(pieces)]
        /\ Recount(c, first)

\* Deviation: the new headers and paddings are not counted.
SplitSameTotal(c, first) ==
    /\ queue' = [queue EXCEPT ![c] = Pieces(Head(@), first) \o Tail(@)]
    /\ totalBytes' = totalBytes

SplitFirstPacket(c, first) ==
    /\ queue' = [queue EXCEPT ![c] = Pieces(Head(@), first) \o Tail(@)]
    /\ Recount(c, first)

\* Deviation: the packet is looked at and not removed.
DequeueKeeping(c) == UNCHANGED <<queue, totalBytes>>

Dequeue(c) ==
    /\ queue' = [queue EXCEPT ![c] = Tail(@)]
    /\ totalBytes' = [totalBytes EXCEPT ![c] = Minus(@, PacketTotal(Head(queue[c])))]

\* SocketSend::run takes what getNextPacket returns: it packs a packet and asks
\* for the next one while there is room; without one it sends what it has (the
\* first time, with one packet or none, it waits a little and asks again).
AskAgain(p) == p = None /\ ~ waited /\ Len(packed) <= 1

\* m_rawBufLeft wraps: what is packed is longer than m_pRawBufOut.
Overruns(p) == p # None /\ PacketTotal(p) + MacLen > rawLeft

\* Once m_rawBufLeft has wrapped, combineAndSendPackets will write past m_pRawBufOut,
\* whatever else is packed before; the model of the thread ends there ("overrun").
Return(p) ==
    /\ packed' = IF p = None THEN packed ELSE Append(packed, p)
    /\ rawLeft' = IF p = None THEN rawLeft
                  ELSE Minus(rawLeft, PacketTotal(p) + MacLen)
    /\ sspc' = IF Overruns(p) THEN "overrun"
               ELSE IF (p # None /\ rawLeft' >= MinRawLeft) \/ AskAgain(p) \/ packed' = <<>>
               THEN "pick" ELSE "encode"
    /\ waited' = (waited \/ AskAgain(p))
    /\ found' = None
    /\ firstRound' = TRUE
    /\ current' = None
    /\ more' = TRUE

\* Deviation: the iterator does not go back to the first node.
AdvanceNoWrap == nextNode' = nextNode + 1

\* One turn of the loop: getNextNode, then look at the queue it leaves.
Advance ==
    nextNode' = IF nextNode <= Len(QueueList) THEN nextNode + 1 ELSE 1

ContinueWith(p) ==
    IF KeepGoing
    THEN /\ found' = p
         /\ firstRound' = (firstRound /\ Node # None)
         /\ current' = Visited
         /\ UNCHANGED <<sspc, more, packed, rawLeft, waited>>
    ELSE Return(p)

VisitEmpty ==
    /\ sspc = "pick"
    /\ Visited = None \/ (Visited # None /\ queue[Visited] = <<>>)
    /\ Advance
    /\ ContinueWith(found)
    /\ UNCHANGED <<queue, totalBytes, window, userVars, acceptVars, wireVars,
                   granted, disconnectSent>>

HeadIs(data) ==
    /\ sspc = "pick"
    /\ Visited # None
    /\ queue[Visited] # <<>>
    /\ (Head(queue[Visited]).kind = "data") = data

\* Not enough window, or not enough room to be worth it.
VisitBlockedData ==
    /\ HeadIs(TRUE)
    /\ ~ MaySendData(window[Visited], Room)
    /\ Advance
    /\ ContinueWith(None)
    /\ UNCHANGED <<queue, totalBytes, window, userVars, acceptVars, wireVars,
                   granted, disconnectSent>>

\* Channel data can go: decide how much, with the window read without a lock,
\* and split the packet if it is larger than that.
VisitData ==
    /\ HeadIs(TRUE)
    /\ MaySendData(window[Visited], Room)
    /\ LET len == Head(queue[Visited]).len
           first == SendableData(len, window[Visited], Room)
       IN  IF first < len THEN SplitFirstPacket(Visited, first)
                          ELSE UNCHANGED <<queue, totalBytes>>
    /\ Advance
    /\ current' = Visited
    /\ sspc' = "take"
    /\ UNCHANGED <<window, userVars, acceptVars, wireVars, granted, firstRound, found,
                   more, packed, rawLeft, waited, disconnectSent>>

\* Take the packet out and charge the window for it.
TakeData ==
    /\ sspc = "take"
    /\ Dequeue(current)
    /\ found' = Head(queue[current])
    /\ window' = [window EXCEPT ![current] = Minus(@, found'.len)]
    /\ more' = FALSE
    /\ sspc' = "signal"
    /\ UNCHANGED <<userVars, acceptVars, wireVars, granted, nextNode, firstRound, current,
                   packed, rawLeft, waited, disconnectSent>>

\* Any other packet goes as it is when it fits.
VisitControl ==
    /\ HeadIs(FALSE)
    /\ PacketTotal(Head(queue[Visited])) <= Room
    /\ Dequeue(Visited)
    /\ Advance
    /\ IF Visited = Main
       THEN Return(Head(queue[Main]))
       ELSE /\ found' = Head(queue[Visited])
            /\ more' = FALSE
            /\ sspc' = "signal"
            /\ UNCHANGED <<firstRound, current, packed, rawLeft, waited>>
    /\ UNCHANGED <<window, userVars, acceptVars, wireVars, granted, disconnectSent>>

\* When it does not fit it stays in its queue, but *ppBP keeps pointing at it: when no
\* other packet is found in this call, it is returned all the same.
VisitTooLarge ==
    /\ HeadIs(FALSE)
    /\ PacketTotal(Head(queue[Visited])) > Room
    /\ Advance
    /\ IF Visited = Main
       THEN ContinueWith(Head(queue[Main]))
       ELSE /\ found' = Head(queue[Visited])
            /\ more' = KeepGoing
            /\ sspc' = "signal"
            /\ firstRound' = (firstRound /\ Node # None)
            /\ current' = Visited
            /\ UNCHANGED <<packed, rawLeft, waited>>
    /\ UNCHANGED <<queue, totalBytes, window, userVars, acceptVars, wireVars,
                   granted, disconnectSent>>

Waiters(c) == {t \in Threads : pc[t] = "wait" /\ request[t].q = c}

\* Deviation: the thread that waits is not woken.
SignalNobody(c) == UNCHANGED pc

\* pthread_cond_signal on m_outboundQ_cv wakes one waiting thread, if any.
Signal(c) ==
    IF Waiters(c) = {} THEN UNCHANGED pc
    ELSE \E t \in Waiters(c) : pc' = [pc EXCEPT ![t] = "woken"]

\* With m_outboundQMutex held.
SignalWriters ==
    /\ sspc = "signal"
    /\ Signal(found.q)
    /\ IF more
       THEN /\ sspc' = "pick"
            /\ UNCHANGED <<found, firstRound, current, more, packed, rawLeft, waited>>
       ELSE Return(found)
    /\ UNCHANGED <<queue, totalBytes, window, request, acceptVars, wireVars, granted,
                   nextNode, disconnectSent>>
-----------------------------------------------------------------------------
(* SocketSend in combineAndSendPackets. *)

\* Sign, encrypt and delete the next packet.
EncodePacket ==
    /\ sspc = "encode"
    /\ packed # <<>>
    /\ LET p == Head(packed)
           c == p.q
       IN  /\ packed' = Tail(packed)
           /\ sent' = IF p.kind = "data" THEN [sent EXCEPT ![c] = @ + p.len] ELSE sent
           /\ ctlSent' = IF p.kind = "data" THEN ctlSent
                         ELSE [ctlSent EXCEPT ![c] = @ + 1]
           /\ out' = [out EXCEPT ![c] = [n |-> p.n, off |-> p.off,
                         len |-> IF p.kind = "data" THEN p.len ELSE 0]]
           /\ disconnectSent' = (disconnectSent \/ p.kind = "disconnect")
    /\ UNCHANGED <<queue, totalBytes, window, userVars, acceptVars, granted, sspc,
                   iterVars, found, rawLeft, waited>>

\* send() until all is out (EAGAIN only repeats it); the raw buffer is free again.
SendBuffer ==
    /\ sspc = "encode"
    /\ packed = <<>>
    /\ rawLeft' = RawBuf
    /\ sspc' = IF disconnectSent THEN "dead" ELSE "pick"
    /\ UNCHANGED <<queue, totalBytes, window, userVars, acceptVars, wireVars, granted,
                   iterVars, found, packed, waited, disconnectSent>>

\* send() fails: the thread ends.
SendFails ==
    /\ SocketMayFail
    /\ sspc = "encode"
    /\ packed = <<>>
    /\ sspc' = "dead"
    /\ UNCHANGED <<queue, totalBytes, window, userVars, acceptVars, wireVars, granted,
                   iterVars, found, packed, rawLeft, waited, disconnectSent>>

GetNextPacket ==
    VisitEmpty \/ VisitBlockedData \/ VisitData \/ TakeData \/ VisitControl
      \/ VisitTooLarge \/ SignalWriters

SocketSend == GetNextPacket \/ EncodePacket \/ SendBuffer \/ SendFails

Next ==
    \/ \E t \in Threads : QueueOutboundData(t) \/ WakeUp(t)
    \/ \E c \in Channels : QueueWindowAdjust(c)
    \/ \E c \in Channels, k \in Grants : AdjustWindowSizeRemote(c, k)
    \/ SocketSend

Spec == Init /\ [][Next]_vars

\* The threads are scheduled; the peer keeps granting window (a peer that reads
\* its channel does).  Nothing is assumed of the calls the user makes.
Fairness ==
    /\ WF_vars(SocketSend)
    /\ \A t \in Threads : WF_vars(WakeUp(t))
    /\ \A c \in Channels : WF_vars(\E k \in Grants : AdjustWindowSizeRemote(c, k))

FairSpec == Spec /\ Fairness
-----------------------------------------------------------------------------
(* Properties. *)

\* The shape of the state.
TypeOK ==
    /\ queue \in [Queues -> Seq(Packet)]
    /\ totalBytes \in [Queues -> Nat]
    /\ window \in [Queues -> Nat]
    /\ pc \in [Threads -> {"idle", "wait", "woken"}]
    /\ request \in [Threads -> Packet \cup {None}]
    /\ sspc \in {"pick", "take", "signal", "encode", "overrun", "dead"}
    /\ nextNode \in 1..(Len(QueueList) + 1)
    /\ firstRound \in BOOLEAN
    /\ current \in Queues \cup {None}
    /\ found \in Packet \cup {None}
    /\ more \in BOOLEAN
    /\ packed \in Seq(Packet)
    /\ rawLeft \in 0..(Word - 1)
    /\ waited \in BOOLEAN
    /\ disconnectSent \in BOOLEAN
    /\ accepted \in [Queues -> Nat]
    /\ ctlAt \in [Queues -> Seq(Nat)]
    /\ sent \in [Queues -> Nat]
    /\ ctlSent \in [Queues -> Nat]
    /\ granted \in [Queues -> Nat]

\* What the checks of combineAndSendPackets (_DEBUG) say: what is packed, with its MACs,
\* fits in m_pRawBufOut.  It does not hold: see run outbound_overrun.
RawBufferFits == rawLeft <= RawBuf

\* What does hold, for packets of any size: neither channel data, cut to the room with its
\* overhead and padding, nor a packet that was taken out of its queue ever overruns the raw
\* buffer.  The packet that does is not data, and was only looked at: it is still the
\* first of its queue (getNextPacket).
OnlyPeekedOverruns ==
    IF sspc # "overrun" THEN rawLeft <= RawBuf
    ELSE LET p == Last(packed)
         IN  p.kind # "data" /\ queue[p.q] # <<>> /\ Head(queue[p.q]) = p

\* The window is read without a lock, and charged some steps later, after the
\* packet may have been split: the charge is still the length of the packet
\* taken and never takes the uint32 counter below zero.
ChargeExact ==
    [][sspc = "take" /\ sspc' # "take"
         => window'[current] = window[current] - Head(queue[current]).len]_vars

SumTotals(s) == FoldLeft(LAMBDA acc, p : acc + PacketTotal(p), 0, s)

\* m_totalBytesInQ is the sum of the lengths of the packets in the queue, as a
\* uint32, after any number of enqueues, splits and dequeues, and m_rawBufLeft
\* accounts for every packet waiting to be encoded.
CountExact ==
    /\ \A c \in Queues : totalBytes[c] = SumTotals(queue[c]) % Word
    /\ sspc \notin {"encode", "dead"} =>
         (rawLeft + SumTotals(packed) + Len(packed) * MacLen) % Word = RawBuf

\* A packet that SocketSend has packed (and will delete) is in no queue any more, up to the
\* one that overruns the buffer: nothing that fits is both packed and queued.
NoDangling ==
    \A i \in DOMAIN packed : \A j \in DOMAIN queue[packed[i].q] :
        queue[packed[i].q][j] = packed[i] => sspc = "overrun" /\ i = Len(packed)

\* A thread waits on m_outboundQ_cv with nothing left in the queue only while
\* the signal for it, or another thread woken for the same queue, is on its way.
NoLostWakeup ==
    \A c \in Channels : (Waiters(c) # {} /\ queue[c] = <<>>)
        => \/ sspc = "signal" /\ found.q = c
           \/ \E t \in Threads : pc[t] = "woken" /\ request[t].q = c

\* The bytes of every channel leave once, in order, in pieces within the peer's
\* window and packet limit, and no control packet is passed or passes.
ImplementsStream == Stream!StreamSpec

Ended == sspc \in {"overrun", "dead"}

\* queueOutboundData returns ("or an error occurs") as long as SocketSend lives.
WriterReturns == \A t \in Threads : pc[t] # "idle" ~> pc[t] = "idle" \/ Ended

\* What was queued is sent in the end, all of it and once, unless SocketSend ends before: a
\* queue that is blocked by its window does not keep the others from being served.
EverythingSent ==
    \A c \in Queues : []<>(Ended \/ (sent[c] = accepted[c] /\ ctlSent[c] = Len(ctlAt[c])))
=============================================================================
