---------------------------- MODULE OutboundProofs ----------------------------
(***************************************************************************)
(* Theorems about Outbound, for every value of its constants: the type     *)
(* invariant, that the window is charged exactly, and that the raw buffer  *)
(* is not overrun when the packets that are not channel data are small;    *)
(* that no packet is left in the queue of a channel that is gone; and that *)
(* the queues and SocketSend implement, for every channel, a byte stream   *)
(* with its control packets in order (ChannelStream); and that no wakeup   *)
(* of a waiting writer is lost.                                            *)
(***************************************************************************)
EXTENDS Outbound, SelectionLemmas, SequenceTheorems, TLAPS

(* Arithmetic. *)

LEMMA ModRange ==
    ASSUME NEW a \in Int, NEW b \in Nat \ {0}
    PROVE  a % b \in 0..(b - 1)
  BY SMT

LEMMA ModSmall ==
    ASSUME NEW a \in Nat, NEW b \in Nat \ {0}, a < b
    PROVE  a % b = a
  BY SMT

\* Dividing and multiplying back gives no more than there was.
LEMMA DivBound ==
    ASSUME NEW a \in Nat, NEW b \in Nat \ {0}
    PROVE  /\ a \div b \in Nat
           /\ b * (a \div b) <= a
  BY SMT

LEMMA ProductNat ==
    ASSUME NEW a \in Nat, NEW b \in Nat
    PROVE  a * b \in Nat
  BY SMT

LEMMA ProductMonotone ==
    ASSUME NEW a \in Nat, NEW b \in Nat, NEW c \in Nat, a <= b
    PROVE  a * c <= b * c
  BY SMT

LEMMA ConstantsType ==
    /\ Word \in Nat \ {0}
    /\ MaxOutQ \in Nat /\ RawBuf \in Nat /\ MacLen \in Nat /\ MaxGrant \in Nat
    /\ InitWindow \in Nat /\ MaxPacketRemote \in Nat \ {0}
    /\ DataSizes \subseteq Nat /\ ControlSizes \subseteq Nat
    /\ MainSizes \subseteq Nat /\ Grants \subseteq Nat
    /\ Len(QueueList) \in Nat
    /\ \A i \in 1..Len(QueueList) : QueueList[i] \in Queues
  BY OutboundAssumption

\* BinaryPacket's total length covers the payload and its five bytes.
LEMMA TotalLenType ==
    ASSUME NEW k \in Nat
    PROVE  TotalLen(k) \in Nat /\ TotalLen(k) > k
  BY DEF TotalLen

LEMMA PacketTotalType ==
    ASSUME NEW p \in Packet
    PROVE  PacketTotal(p) \in Nat
  BY TotalLenType DEF PacketTotal, DataTotal, DataOverhead, Packet

LEMMA MinusType ==
    ASSUME NEW a \in Int, NEW b \in Int
    PROVE  Minus(a, b) \in 0..(Word - 1)
  BY ModRange, ConstantsType DEF Minus

LEMMA MinusExact ==
    ASSUME NEW a \in Nat, NEW b \in Nat, b <= a, a < Word
    PROVE  Minus(a, b) = a - b
<1>1. a - b \in Nat /\ a - b < Word /\ Word \in Nat \ {0}
  BY ConstantsType
<1>2. (a - b) % Word = a - b
  BY <1>1, ModSmall
<1> QED BY <1>2 DEF Minus

\* The data getNextPacket lets through fits, with headers and padding, in the
\* room it computed it from.
LEMMA DataFits ==
    ASSUME NEW room \in Nat, room >= MinRoom, room < Word,
           NEW len \in Nat, len <= DataRoom(room)
    PROVE  DataTotal(len) <= room
<1>1. room % 16 \in 0..15 /\ 18 + (room % 16) <= room
  BY SMT DEF MinRoom
<1>2. DataRoom(room) = room - (18 + (room % 16))
  BY <1>1, MinusExact DEF DataRoom
<1>3. len + 18 + (room % 16) <= room
  BY <1>1, <1>2
<1>4. PICK m \in Nat : room = 16 * m + (room % 16)
  <2>1. room = 16 * (room \div 16) + (room % 16) /\ room \div 16 \in Nat
    BY SMT
  <2> QED BY <2>1
<1>5. len + 18 <= 16 * m
  BY <1>1, <1>3, <1>4
<1>6. TotalLen(DataOverhead + len) <= 16 * m
  BY <1>5 DEF TotalLen, DataOverhead
<1>7. TotalLen(DataOverhead + len) \in Nat
  BY TotalLenType DEF DataOverhead
<1> QED BY <1>1, <1>4, <1>6, <1>7 DEF DataTotal

\* How much of a packet may go is no more than each of its limits.
LEMMA SendableBounds ==
    ASSUME NEW len \in Nat, NEW win \in Nat, NEW room \in Nat
    PROVE  /\ SendableData(len, win, room) \in Nat
           /\ SendableData(len, win, room) <= len
           /\ SendableData(len, win, room) <= win
           /\ SendableData(len, win, room) <= DataRoom(room)
<1>1. DataRoom(room) \in Nat
  <2> DEFINE taken == 18 + (room % 16)
  <2>1. taken \in Int
    BY SMT
  <2>2. DataRoom(room) = Minus(room, taken)
    BY DEF DataRoom
  <2> HIDE DEF taken
  <2>3. Minus(room, taken) \in 0..(Word - 1)
    BY <2>1, MinusType
  <2> QED BY <2>2, <2>3, ConstantsType
<1> QED BY <1>1, ConstantsType DEF SendableData, Smaller

\* A sequence of one packet.
LEMMA SingletonSeq ==
    ASSUME NEW S, NEW x \in S
    PROVE  <<x>> \in Seq(S) /\ Len(<<x>>) = 1 /\ <<x>>[1] = x
  OBVIOUS

\* Adding a packet at the end leaves the first where it is.
LEMMA AppendFacts ==
    ASSUME NEW S, NEW s \in Seq(S), NEW x \in S
    PROVE  /\ Append(s, x) \in Seq(S)
           /\ Append(s, x) # <<>>
           /\ s # <<>> => Head(Append(s, x)) = Head(s)
<1>1. /\ Append(s, x) \in Seq(S) /\ Append(s, x) # <<>>
      /\ Len(Append(s, x)) = Len(s) + 1
      /\ \A i \in 1..Len(s) : Append(s, x)[i] = s[i]
  BY AppendProperties
<1>2. ASSUME s # <<>> PROVE Append(s, x)[1] = s[1]
  <2>1. Len(s) \in Nat /\ Len(s) # 0
    BY <1>2, LenProperties, EmptySeq
  <2> QED BY <2>1, <1>1
<1>3. Head(Append(s, x)) = Append(s, x)[1] /\ Head(s) = s[1]
  OBVIOUS
<1> QED BY <1>1, <1>2, <1>3

\* A packet given another length.
LEMMA ReshapedPacket ==
    ASSUME NEW p \in Packet, NEW len \in Nat
    PROVE  /\ [p EXCEPT !.len = len] \in Packet
           /\ [p EXCEPT !.len = len].kind = p.kind
           /\ [p EXCEPT !.len = len].len = len
  BY DEF Packet

\* splitFirstPacket makes packets of the same queue and kind, the first with the
\* length asked for.
LEMMA PiecesType ==
    ASSUME NEW p \in Packet, NEW first \in Nat, first <= p.len
    PROVE  /\ Pieces(p, first) \in Seq(Packet)
           /\ Len(Pieces(p, first)) >= 1
           /\ Pieces(p, first)[1] = [p EXCEPT !.len = first]
           /\ \A i \in 1..Len(Pieces(p, first)) : Pieces(p, first)[i].kind = p.kind
<1> DEFINE rest == p.len - first
           count == (rest + MaxPacketRemote - 1) \div MaxPacketRemote
           offset(i) == first + (i - 1) * MaxPacketRemote
           piece(i) == [p EXCEPT !.off = p.off + offset(i),
                                 !.len = Smaller(MaxPacketRemote, p.len - offset(i))]
<1>1. p.len \in Nat /\ p.off \in Nat /\ rest \in Nat
  BY DEF Packet
<1>2. count \in Nat /\ MaxPacketRemote * count <= rest + MaxPacketRemote - 1
  <2>1. rest + MaxPacketRemote - 1 \in Nat /\ MaxPacketRemote \in Nat \ {0}
    BY <1>1, ConstantsType
  <2> QED BY <2>1, DivBound
<1>3. ASSUME NEW i \in 1..count
      PROVE  piece(i) \in Packet /\ piece(i).kind = p.kind
  <2>1. (i - 1) * MaxPacketRemote \in Nat
    BY ProductNat, ConstantsType
  <2>2. i * MaxPacketRemote <= count * MaxPacketRemote
    BY ProductMonotone, <1>2, ConstantsType, SMTT(20)
  <2>3. (i - 1) * MaxPacketRemote = i * MaxPacketRemote - MaxPacketRemote
    BY ConstantsType
  <2>4. count * MaxPacketRemote = MaxPacketRemote * count
    BY <1>2, ConstantsType
  <2>5. i * MaxPacketRemote \in Nat /\ count * MaxPacketRemote \in Nat
    BY ProductNat, <1>2, ConstantsType
  <2>6. (i - 1) * MaxPacketRemote <= rest
    <3> DEFINE before == (i - 1) * MaxPacketRemote
               upTo == i * MaxPacketRemote
               all == count * MaxPacketRemote
    <3>1. /\ before \in Nat /\ upTo \in Nat /\ all \in Nat
          /\ before = upTo - MaxPacketRemote /\ upTo <= all
      BY <2>1, <2>2, <2>3, <2>5
    <3>2. all <= rest + MaxPacketRemote - 1
      BY <2>4, <1>2
    <3>3. MaxPacketRemote \in Nat /\ rest \in Nat
      BY <1>1, ConstantsType
    <3> HIDE DEF before, upTo, all, rest
    <3>4. before <= rest
      BY <3>1, <3>2, <3>3
    <3> QED BY <3>4 DEF before
  <2>7. offset(i) \in Nat /\ p.len - offset(i) \in Nat
    BY <2>1, <2>6, <1>1
  <2>8. Smaller(MaxPacketRemote, p.len - offset(i)) \in Nat
    BY <2>7, ConstantsType DEF Smaller
  <2>9. p.off + offset(i) \in Nat
    BY <2>7, <1>1
  <2> DEFINE off == p.off + offset(i)
             len == Smaller(MaxPacketRemote, p.len - offset(i))
  <2>10. off \in Nat /\ len \in Nat
    BY <2>8, <2>9
  <2> HIDE DEF rest, count, offset, piece, off, len
  <2>11. piece(i) = [p EXCEPT !.off = off, !.len = len]
    BY Zenon DEF piece, off, len
  <2>12. /\ [p EXCEPT !.off = off, !.len = len] \in Packet
         /\ [p EXCEPT !.off = off, !.len = len].kind = p.kind
    BY <2>10 DEF Packet
  <2> QED BY <2>11, <2>12
<1> HIDE DEF rest, count, offset, piece
<1> DEFINE head == <<[p EXCEPT !.len = first]>>
           tail == [i \in 1..count |-> piece(i)]
<1>4. head \in Seq(Packet) /\ Len(head) = 1 /\ head[1] = [p EXCEPT !.len = first]
        /\ head[1].kind = p.kind
  <2>1. [p EXCEPT !.len = first] \in Packet /\ [p EXCEPT !.len = first].kind = p.kind
    BY ReshapedPacket
  <2> QED BY <2>1, SingletonSeq
<1>5. Pieces(p, first) = head \o tail
  BY DEF Pieces, rest, count, offset, piece
<1>6. tail \in Seq(Packet) /\ Len(tail) = count /\ \A i \in 1..count : tail[i].kind = p.kind
  BY <1>2, <1>3
<1> HIDE DEF head, tail
<1>7. /\ head \o tail \in Seq(Packet)
      /\ Len(head \o tail) = Len(head) + Len(tail)
      /\ \A i \in 1..(Len(head) + Len(tail)) :
            (head \o tail)[i] = IF i <= Len(head) THEN head[i] ELSE tail[i - Len(head)]
  <2>1. head \in Seq(Packet) /\ tail \in Seq(Packet)
    BY <1>4, <1>6
  <2> QED BY <2>1, ConcatProperties
<1>8. ASSUME NEW i \in 1..(1 + count)
      PROVE  (head \o tail)[i].kind = p.kind
  <2>1. i \in 1..(Len(head) + Len(tail)) /\ Len(head) = 1
    BY <1>2, <1>4, <1>6
  <2>2. CASE i = 1
    <3>1. (head \o tail)[i] = head[1]
      BY <2>1, <2>2, <1>7
    <3> QED BY <3>1, <1>4
  <2>3. CASE i # 1
    <3>1. i - 1 \in 1..count
      BY <2>3, <1>2
    <3>2. (head \o tail)[i] = tail[i - 1]
      BY <2>1, <2>3, <1>2, <1>7
    <3> QED BY <3>1, <3>2, <1>6
  <2> QED BY <2>2, <2>3
<1> QED BY <1>2, <1>4, <1>5, <1>6, <1>7, <1>8
-----------------------------------------------------------------------------
(* The inductive invariant.  The type alone is not inductive: what waits in   *)
(* pc, sspc and found decides which values the next step reads.               *)

\* A thread that is in queueOutboundData has a packet in its hands.
CallOK == \A t \in Threads : pc[t] # "idle" => request[t] \in Packet

\* The window never exceeds what was granted, so adding to it does not wrap.
WindowOK == \A c \in Queues : window[c] <= granted[c] /\ granted[c] < Word

\* Between the look at the window and the dequeue the packet looked at stays the
\* first of its queue, and the window does not shrink.
TakeOK ==
    sspc = "take" =>
        /\ current \in Queues
        /\ queue[current] # <<>>
        /\ Head(queue[current]).kind = "data"
        /\ Head(queue[current]).len <= window[current]

SignalOK == sspc = "signal" => found \in Packet

Inv == TypeOK /\ CallOK /\ WindowOK /\ TakeOK /\ SignalOK

LEMMA InitInv == Init => Inv
<1> SUFFICES ASSUME Init PROVE Inv
  OBVIOUS
<1>1. TypeOK
  <2>1. /\ queue \in [Queues -> Seq(Packet)]
        /\ packed \in Seq(Packet)
        /\ ctlAt \in [Queues -> Seq(Nat)]
    BY DEF Init
  <2>2. /\ totalBytes \in [Queues -> Nat]
        /\ window \in [Queues -> Nat]
        /\ accepted \in [Queues -> Nat]
        /\ sent \in [Queues -> Nat]
        /\ ctlSent \in [Queues -> Nat]
        /\ granted \in [Queues -> Nat]
    BY ConstantsType DEF Init
  <2>3. rawLeft \in 0..(Word - 1) /\ nextNode \in 1..(Len(QueueList) + 1)
    BY ConstantsType, OutboundAssumption DEF Init
  <2>4. /\ pc \in [Threads -> {"idle", "wait", "woken"}]
        /\ request \in [Threads -> Packet \cup {None}]
        /\ sspc \in {"pick", "take", "signal", "encode", "overrun", "dead"}
        /\ firstRound \in BOOLEAN /\ more \in BOOLEAN
        /\ waited \in BOOLEAN /\ disconnectSent \in BOOLEAN
        /\ current \in Queues \cup {None} /\ found \in Packet \cup {None}
    BY DEF Init
  <2> QED BY <2>1, <2>2, <2>3, <2>4 DEF TypeOK
<1>2. CallOK /\ TakeOK /\ SignalOK
  BY DEF Init, CallOK, TakeOK, SignalOK
<1>3. WindowOK
  BY ConstantsType, OutboundAssumption DEF Init, WindowOK
<1> QED BY <1>1, <1>2, <1>3 DEF Inv

\* Queue::enqueue keeps the first packet of every queue that has one.
LEMMA EnqueueType ==
    ASSUME TypeOK, NEW p \in Packet, Enqueue(p)
    PROVE  /\ queue' \in [Queues -> Seq(Packet)]
           /\ totalBytes' \in [Queues -> Nat]
           /\ accepted' \in [Queues -> Nat]
           /\ ctlAt' \in [Queues -> Seq(Nat)]
           /\ \A c \in Queues : queue[c] # <<>> =>
                queue'[c] # <<>> /\ Head(queue'[c]) = Head(queue[c])
<1> DEFINE c == p.q
           n == IF p.kind = "data" THEN 0 ELSE Len(ctlAt[c]) + 1
           stamped == [p EXCEPT !.off = accepted[c], !.n = n]
<1>1. c \in Queues /\ p.len \in Nat /\ PacketTotal(p) \in Nat
  BY PacketTotalType DEF Packet
<1>2. /\ queue[c] \in Seq(Packet) /\ totalBytes[c] \in Nat
      /\ accepted[c] \in Nat /\ ctlAt[c] \in Seq(Nat)
  BY <1>1 DEF TypeOK
<1>3. stamped \in Packet
  <2>1. accepted[c] \in Nat /\ n \in Nat
    BY <1>2
  <2> HIDE DEF n, c
  <2> QED BY <2>1 DEF Packet
<1> HIDE DEF n, stamped
<1>4. /\ Append(queue[c], stamped) \in Seq(Packet)
      /\ Append(queue[c], stamped) # <<>>
      /\ queue[c] # <<>> => Head(Append(queue[c], stamped)) = Head(queue[c])
  <2> HIDE DEF c
  <2> QED BY <1>2, <1>3, AppendFacts
<1>5. queue' = [queue EXCEPT ![c] = Append(queue[c], stamped)]
  BY DEF Enqueue, stamped, n
<1>6. queue' \in [Queues -> Seq(Packet)]
  BY <1>1, <1>4, <1>5 DEF TypeOK
<1>7. totalBytes' \in [Queues -> Nat]
  <2>1. totalBytes' = [totalBytes EXCEPT ![c] = (totalBytes[c] + PacketTotal(p)) % Word]
    BY DEF Enqueue
  <2>2. (totalBytes[c] + PacketTotal(p)) % Word \in Nat
    <3>1. PICK k \in Nat : k = totalBytes[c] + PacketTotal(p)
      BY <1>1, <1>2
    <3>2. PICK w \in Nat \ {0} : w = Word
      BY ConstantsType
    <3>3. k % w \in Nat
      OBVIOUS
    <3> QED BY <3>1, <3>2, <3>3
  <2>3. totalBytes \in [Queues -> Nat]
    BY DEF TypeOK
  <2> HIDE DEF c
  <2> QED BY <1>1, <2>1, <2>2, <2>3
<1>8. accepted' \in [Queues -> Nat]
  <2>1. accepted' = IF p.kind = "data"
                    THEN [accepted EXCEPT ![c] = accepted[c] + p.len] ELSE accepted
    BY DEF Enqueue
  <2>2. accepted[c] + p.len \in Nat
    BY <1>1, <1>2
  <2>3. accepted \in [Queues -> Nat]
    BY DEF TypeOK
  <2> HIDE DEF c
  <2> QED BY <1>1, <2>1, <2>2, <2>3
<1>9. ctlAt' \in [Queues -> Seq(Nat)]
  <2>1. ctlAt' = IF p.kind = "data" THEN ctlAt
                 ELSE [ctlAt EXCEPT ![c] = Append(ctlAt[c], accepted[c])]
    BY DEF Enqueue
  <2>2. Append(ctlAt[c], accepted[c]) \in Seq(Nat)
    BY <1>2
  <2>3. ctlAt \in [Queues -> Seq(Nat)]
    BY DEF TypeOK
  <2> HIDE DEF c
  <2> QED BY <1>1, <2>1, <2>2, <2>3
<1>10. ASSUME NEW d \in Queues, queue[d] # <<>>
       PROVE  queue'[d] # <<>> /\ Head(queue'[d]) = Head(queue[d])
  BY <1>1, <1>4, <1>5, <1>10 DEF TypeOK
<1> QED BY <1>6, <1>7, <1>8, <1>9, <1>10

\* What SocketSend::run does with the outcome of getNextPacket.
LEMMA ReturnType ==
    ASSUME TypeOK, NEW p \in Packet \cup {None}, Return(p)
    PROVE  /\ packed' \in Seq(Packet)
           /\ rawLeft' \in 0..(Word - 1)
           /\ sspc' \in {"pick", "encode", "overrun"}
           /\ found' = None
           /\ current' = None
           /\ firstRound' \in BOOLEAN
           /\ more' \in BOOLEAN
           /\ waited' \in BOOLEAN
<1>1. packed' \in Seq(Packet)
  BY DEF Return, TypeOK
<1>2. rawLeft' \in 0..(Word - 1)
  <2>1. CASE p = None
    BY <2>1 DEF Return, TypeOK
  <2>2. CASE p # None
    <3>1. PacketTotal(p) + MacLen \in Int
      BY <2>2, PacketTotalType, ConstantsType
    <3>2. rawLeft \in Int
      BY ConstantsType DEF TypeOK
    <3>3. Minus(rawLeft, PacketTotal(p) + MacLen) \in 0..(Word - 1)
      BY <3>1, <3>2, MinusType
    <3> QED BY <2>2, <3>3 DEF Return
  <2> QED BY <2>1, <2>2
<1>3. waited' \in BOOLEAN
  BY DEF Return, AskAgain, TypeOK
<1> QED BY <1>1, <1>2, <1>3 DEF Return

LEMMA VisitedType ==
    ASSUME TypeOK
    PROVE  Node \in Queues \cup {None} /\ Visited \in Queues \cup {None}
  BY ConstantsType DEF TypeOK, Node, Visited

LEMMA RoomType ==
    ASSUME TypeOK
    PROVE  Room \in 0..(Word - 1) /\ Room \in Nat
<1>1. rawLeft \in Int /\ MacLen \in Int
  BY ConstantsType DEF TypeOK
<1>2. Room \in 0..(Word - 1)
  BY <1>1, MinusType DEF Room
<1> QED BY <1>2, ConstantsType

LEMMA AdvanceType ==
    ASSUME TypeOK, Advance
    PROVE  nextNode' \in 1..(Len(QueueList) + 1)
  BY ConstantsType DEF TypeOK, Advance

\* Going on with the next node, or leaving the loop.
LEMMA ContinueType ==
    ASSUME TypeOK, sspc = "pick", NEW p \in Packet \cup {None}, ContinueWith(p)
    PROVE  /\ packed' \in Seq(Packet)
           /\ rawLeft' \in 0..(Word - 1)
           /\ sspc' \in {"pick", "encode", "overrun"}
           /\ found' \in Packet \cup {None}
           /\ current' \in Queues \cup {None}
           /\ firstRound' \in BOOLEAN
           /\ more' \in BOOLEAN
           /\ waited' \in BOOLEAN
<1>1. CASE KeepGoing
  BY <1>1, VisitedType DEF ContinueWith, TypeOK
<1>2. CASE ~ KeepGoing
  <2>1. Return(p)
    BY <1>2 DEF ContinueWith
  <2> QED BY <2>1, ReturnType
<1> QED BY <1>1, <1>2

\* A new packet at the end of a queue takes nothing from the one SocketSend has
\* looked at.
LEMMA TakeStable ==
    ASSUME Inv,
           \A c \in Queues : queue[c] # <<>> =>
              queue'[c] # <<>> /\ Head(queue'[c]) = Head(queue[c]),
           \A c \in Queues : window'[c] >= window[c],
           window' \in [Queues -> Nat],
           UNCHANGED <<sspc, current>>
    PROVE  TakeOK'
<1> SUFFICES ASSUME sspc = "take"
             PROVE  /\ current \in Queues
                    /\ queue'[current] # <<>>
                    /\ Head(queue'[current]).kind = "data"
                    /\ Head(queue'[current]).len <= window'[current]
  BY DEF TakeOK
<1>1. /\ current \in Queues /\ queue[current] # <<>>
      /\ Head(queue[current]).kind = "data"
      /\ Head(queue[current]).len <= window[current]
  BY DEF Inv, TakeOK
<1>2. /\ queue'[current] # <<>>
      /\ Head(queue'[current]) = Head(queue[current])
      /\ window'[current] >= window[current]
  BY <1>1
<1>3. Head(queue[current]) \in Packet
  BY <1>1 DEF Inv, TypeOK
<1>4. /\ Head(queue[current]).len \in Nat
      /\ window[current] \in Nat /\ window'[current] \in Nat
  BY <1>1, <1>3 DEF Inv, TypeOK, Packet
<1> QED BY <1>1, <1>2, <1>4

\* queueOutboundData and the turns of its loop.
LEMMA QueueOrWaitInv ==
    ASSUME Inv, NEW t \in Threads, NEW p \in Packet, QueueOrWait(t, p),
           UNCHANGED <<window, ssVars, wireVars, granted>>
    PROVE  Inv'
<1> USE DEF ssVars, iterVars, wireVars
<1>1. CASE p.q = Main \/ PacketTotal(p) <= BytesAllowed(p.q)
  <2>1. /\ Enqueue(p)
        /\ pc' = [pc EXCEPT ![t] = "idle"]
        /\ request' = [request EXCEPT ![t] = None]
    BY <1>1 DEF QueueOrWait
  <2>2. /\ queue' \in [Queues -> Seq(Packet)]
        /\ totalBytes' \in [Queues -> Nat]
        /\ accepted' \in [Queues -> Nat]
        /\ ctlAt' \in [Queues -> Seq(Nat)]
        /\ \A c \in Queues : queue[c] # <<>> =>
             queue'[c] # <<>> /\ Head(queue'[c]) = Head(queue[c])
    BY <2>1, EnqueueType DEF Inv
  <2>3. TypeOK'
    BY <2>1, <2>2 DEF Inv, TypeOK
  <2>4. CallOK'
    BY <2>1 DEF Inv, TypeOK, CallOK
  <2>5. TakeOK'
    <3>1. window \in [Queues -> Nat] /\ window' = window /\ UNCHANGED <<sspc, current>>
      BY DEF Inv, TypeOK
    <3>2. \A c \in Queues : window'[c] >= window[c]
      BY <3>1
    <3> QED BY <2>2, <3>1, <3>2, TakeStable
  <2> QED BY <2>3, <2>4, <2>5 DEF Inv, WindowOK, SignalOK
<1>2. CASE ~ (p.q = Main \/ PacketTotal(p) <= BytesAllowed(p.q))
  <2>1. /\ pc' = [pc EXCEPT ![t] = "wait"]
        /\ request' = [request EXCEPT ![t] = p]
        /\ UNCHANGED <<queue, totalBytes, acceptVars>>
    BY <1>2 DEF QueueOrWait
  <2>2. TypeOK'
    BY <2>1 DEF Inv, TypeOK, acceptVars
  <2>3. CallOK'
    BY <2>1 DEF Inv, TypeOK, CallOK
  <2>4. TakeOK'
    BY <2>1 DEF Inv, TakeOK
  <2> QED BY <2>2, <2>3, <2>4 DEF Inv, WindowOK, SignalOK
<1> QED BY <1>1, <1>2

LEMMA PacketSubset ==
    ASSUME NEW Q \in SUBSET Queues, NEW K \in SUBSET Kinds, NEW L \in SUBSET Nat
    PROVE  [q : Q, kind : K, off : {0}, len : L, n : {0}] \subseteq Packet
<1> SUFFICES ASSUME NEW p \in [q : Q, kind : K, off : {0}, len : L, n : {0}]
             PROVE  p \in Packet
  OBVIOUS
<1>1. p.q \in Queues /\ p.kind \in Kinds /\ p.off \in Nat /\ p.len \in Nat /\ p.n \in Nat
  <2>1. p.q \in Q /\ p.kind \in K /\ p.off = 0 /\ p.len \in L /\ p.n = 0
    OBVIOUS
  <2>2. p.q \in Queues
    BY <2>1
  <2>3. p.kind \in Kinds
    BY <2>1
  <2>4. p.off \in Nat /\ p.n \in Nat
    BY <2>1
  <2>5. p.len \in Nat
    BY <2>1, Zenon
  <2> QED BY <2>2, <2>3, <2>4, <2>5
<1>2. p = [q |-> p.q, kind |-> p.kind, off |-> p.off, len |-> p.len, n |-> p.n]
  OBVIOUS
<1> QED BY <1>1, <1>2 DEF Packet

LEMMA UserPacketsType == UserPackets \subseteq Packet
<1>1. Channels \in SUBSET Queues /\ {Main} \in SUBSET Queues
  BY DEF Queues
<1>2. {"data"} \in SUBSET Kinds /\ {"control"} \in SUBSET Kinds /\ MainKinds \in SUBSET Kinds
  BY OutboundAssumption DEF Kinds
<1>3. DataSizes \in SUBSET Nat /\ ControlSizes \in SUBSET Nat /\ MainSizes \in SUBSET Nat
  BY ConstantsType
<1>4. [q : Channels, kind : {"data"}, off : {0}, len : DataSizes, n : {0}] \subseteq Packet
  BY <1>1, <1>2, <1>3, PacketSubset, Zenon
<1>5. [q : Channels, kind : {"control"}, off : {0}, len : ControlSizes, n : {0}]
        \subseteq Packet
  BY <1>1, <1>2, <1>3, PacketSubset, Zenon
<1>6. [q : {Main}, kind : MainKinds, off : {0}, len : MainSizes, n : {0}] \subseteq Packet
  BY <1>1, <1>2, <1>3, PacketSubset, Zenon
<1> QED BY <1>4, <1>5, <1>6, Zenon DEF UserPackets

LEMMA QueueWindowAdjustInv ==
    ASSUME Inv, NEW c \in Channels, QueueWindowAdjust(c)
    PROVE  Inv'
<1> DEFINE p == [q |-> c, kind |-> "control", off |-> 0, len |-> 9, n |-> 0]
<1>1. p \in Packet
  BY DEF Packet, Kinds, Queues
<1>2. Enqueue(p) /\ UNCHANGED <<window, userVars, ssVars, wireVars, granted>>
  BY DEF QueueWindowAdjust
<1> HIDE DEF p
<1> USE DEF userVars, ssVars, iterVars, wireVars
<1>3. /\ queue' \in [Queues -> Seq(Packet)]
      /\ totalBytes' \in [Queues -> Nat]
      /\ accepted' \in [Queues -> Nat]
      /\ ctlAt' \in [Queues -> Seq(Nat)]
      /\ \A d \in Queues : queue[d] # <<>> =>
           queue'[d] # <<>> /\ Head(queue'[d]) = Head(queue[d])
  BY <1>1, <1>2, EnqueueType DEF Inv
<1>4. TypeOK'
  BY <1>2, <1>3 DEF Inv, TypeOK
<1>5. TakeOK'
  <2>1. window \in [Queues -> Nat] /\ window' = window
    BY <1>2 DEF Inv, TypeOK
  <2>2. \A d \in Queues : window'[d] >= window[d]
    BY <2>1
  <2>3. UNCHANGED <<sspc, current>>
    BY <1>2
  <2> QED BY <1>3, <2>1, <2>2, <2>3, TakeStable
<1> QED BY <1>2, <1>4, <1>5 DEF Inv, CallOK, WindowOK, SignalOK

LEMMA AdjustWindowInv ==
    ASSUME Inv, NEW c \in Channels, NEW k \in Grants, AdjustWindowSizeRemote(c, k)
    PROVE  Inv'
<1> USE DEF userVars, ssVars, iterVars, wireVars, acceptVars
<1>1. c \in Queues /\ k \in Nat /\ MaxGrant < Word /\ Word \in Nat \ {0} /\ MaxGrant \in Nat
  BY ConstantsType, OutboundAssumption DEF Queues
<1>2. /\ window[c] \in Nat /\ granted[c] \in Nat
      /\ window[c] <= granted[c] /\ granted[c] + k <= MaxGrant
  BY <1>1 DEF Inv, TypeOK, WindowOK, AdjustWindowSizeRemote
<1>3. (window[c] + k) % Word = window[c] + k
  BY <1>1, <1>2, ModSmall
<1>4u. UNCHANGED <<queue, totalBytes, userVars, ssVars, acceptVars, wireVars>>
  BY ZenonT(40) DEF AdjustWindowSizeRemote
<1>4w. window' = [window EXCEPT ![c] = window[c] + k]
  BY <1>3, ZenonT(40) DEF AdjustWindowSizeRemote
<1>4g. granted' = [granted EXCEPT ![c] = granted[c] + k]
  BY ZenonT(40) DEF AdjustWindowSizeRemote
<1>4. /\ window' = [window EXCEPT ![c] = window[c] + k]
      /\ granted' = [granted EXCEPT ![c] = granted[c] + k]
      /\ UNCHANGED <<queue, totalBytes, userVars, ssVars, acceptVars, wireVars>>
  BY <1>4u, <1>4w, <1>4g
<1>4a. /\ window \in [Queues -> Nat] /\ granted \in [Queues -> Nat]
       /\ \A d \in Queues : window[d] <= granted[d] /\ granted[d] < Word
  BY DEF Inv, TypeOK, WindowOK
<1>4b. /\ window' = [window EXCEPT ![c] = window[c] + k]
       /\ granted' = [granted EXCEPT ![c] = granted[c] + k]
  BY <1>4
<1>5. window' \in [Queues -> Nat] /\ granted' \in [Queues -> Nat]
  <2>1. window[c] + k \in Nat /\ granted[c] + k \in Nat
    BY <1>1, <1>2
  <2> QED BY <2>1, <1>1, <1>4a, <1>4b
<1>6. TypeOK'
  BY <1>4, <1>5 DEF Inv, TypeOK
<1>7. WindowOK'
  <2> SUFFICES ASSUME NEW d \in Queues
               PROVE  window'[d] <= granted'[d] /\ granted'[d] < Word
    BY DEF WindowOK
  <2>1. CASE d = c
    BY <2>1, <1>1, <1>2, <1>4a, <1>4b
  <2>2. CASE d # c
    BY <2>2, <1>4a, <1>4b
  <2> QED BY <2>1, <2>2
<1>8. ASSUME NEW d \in Queues PROVE window'[d] >= window[d]
  <2>1. CASE d = c
    BY <2>1, <1>1, <1>2, <1>4a, <1>4b
  <2>2. CASE d # c
    BY <2>2, <1>4a, <1>4b
  <2> QED BY <2>1, <2>2
<1>9. TakeOK'
  BY <1>4, <1>5, <1>8, TakeStable DEF Inv
<1> QED BY <1>4, <1>6, <1>7, <1>9 DEF Inv, CallOK, SignalOK

\* The turns of getNextPacket that leave the queues alone.
LEMMA LookOnInv ==
    ASSUME Inv, sspc = "pick", NEW p \in Packet \cup {None}, Advance, ContinueWith(p),
           UNCHANGED <<queue, totalBytes, window, userVars, acceptVars, wireVars,
                       granted, disconnectSent>>
    PROVE  Inv'
<1> USE DEF userVars, wireVars, acceptVars
<1>1. /\ packed' \in Seq(Packet)
      /\ rawLeft' \in 0..(Word - 1)
      /\ sspc' \in {"pick", "encode", "overrun"}
      /\ found' \in Packet \cup {None}
      /\ current' \in Queues \cup {None}
      /\ firstRound' \in BOOLEAN
      /\ more' \in BOOLEAN
      /\ waited' \in BOOLEAN
  BY ContinueType DEF Inv
<1>2. nextNode' \in 1..(Len(QueueList) + 1)
  BY AdvanceType DEF Inv
<1>3. TypeOK'
  BY <1>1, <1>2 DEF Inv, TypeOK
<1>4. CallOK' /\ WindowOK'
  BY DEF Inv, CallOK, WindowOK
<1>5. TakeOK' /\ SignalOK'
  BY <1>1 DEF TakeOK, SignalOK
<1> QED BY <1>3, <1>4, <1>5 DEF Inv

LEMMA SplitType ==
    ASSUME Inv, NEW c \in Queues, queue[c] # <<>>, NEW first \in Nat,
           first <= Head(queue[c]).len, SplitFirstPacket(c, first)
    PROVE  /\ queue' \in [Queues -> Seq(Packet)]
           /\ totalBytes' \in [Queues -> Nat]
           /\ queue'[c] # <<>>
           /\ Head(queue'[c]) = [Head(queue[c]) EXCEPT !.len = first]
<1> DEFINE p == Head(queue[c])
           pieces == Pieces(p, first)
<1>1. queue[c] \in Seq(Packet) /\ totalBytes[c] \in Nat
  BY DEF Inv, TypeOK
<1>2. p \in Packet /\ Tail(queue[c]) \in Seq(Packet)
  BY <1>1
<1> HIDE DEF p
<1>3. /\ pieces \in Seq(Packet) /\ Len(pieces) >= 1
      /\ pieces[1] = [p EXCEPT !.len = first]
  BY <1>2, PiecesType DEF p
<1> HIDE DEF pieces
<1>4. /\ pieces \o Tail(queue[c]) \in Seq(Packet)
      /\ Len(pieces \o Tail(queue[c])) = Len(pieces) + Len(Tail(queue[c]))
      /\ (pieces \o Tail(queue[c]))[1] = pieces[1]
  BY <1>2, <1>3, ConcatProperties
<1>5. /\ pieces \o Tail(queue[c]) # <<>>
      /\ Head(pieces \o Tail(queue[c])) = [p EXCEPT !.len = first]
  BY <1>2, <1>3, <1>4
<1>6. queue' = [queue EXCEPT ![c] = pieces \o Tail(queue[c])]
  BY DEF SplitFirstPacket, pieces, p
<1>7. queue \in [Queues -> Seq(Packet)] /\ totalBytes \in [Queues -> Nat]
  BY DEF Inv, TypeOK
<1>8. queue' \in [Queues -> Seq(Packet)]
  BY <1>4, <1>6, <1>7
<1>9. PICK total \in Int : totalBytes' = [totalBytes EXCEPT ![c] = total % Word]
  <2>1. totalBytes' = [totalBytes EXCEPT ![c] =
            (totalBytes[c] - DataTotal(p.len) + PiecesTotal(p, first)) % Word]
    BY DEF SplitFirstPacket, Recount, p
  <2>2. p.len \in Nat /\ first \in Nat /\ p.len - first \in Nat
    BY <1>2 DEF Packet, p
  <2>3. \A k \in Nat : DataTotal(k) \in Nat
    BY TotalLenType DEF DataTotal, DataOverhead
  <2>4. PiecesTotal(p, first) \in Int
    <3> DEFINE rest == p.len - first
    <3>1. rest \in Nat /\ MaxPacketRemote \in Nat \ {0}
      BY <2>2, ConstantsType
    <3>2. rest \div MaxPacketRemote \in Nat /\ rest % MaxPacketRemote \in Nat
      <4> HIDE DEF rest
      <4>1. rest \div MaxPacketRemote \in Nat
        BY <3>1, DivBound
      <4>2. rest % MaxPacketRemote \in 0..(MaxPacketRemote - 1)
        BY <3>1, ModRange
      <4> QED BY <3>1, <4>1, <4>2
    <3>3. DataTotal(first) \in Nat /\ DataTotal(MaxPacketRemote) \in Nat
            /\ DataTotal(rest % MaxPacketRemote) \in Nat
      BY <2>2, <2>3, <3>1, <3>2
    <3>4. (rest \div MaxPacketRemote) * DataTotal(MaxPacketRemote) \in Nat
      BY <3>2, <3>3, ProductNat
    <3>5. PiecesTotal(p, first) = DataTotal(first)
            + (rest \div MaxPacketRemote) * DataTotal(MaxPacketRemote)
            + IF rest % MaxPacketRemote = 0 THEN 0 ELSE DataTotal(rest % MaxPacketRemote)
      BY DEF PiecesTotal
    <3> HIDE DEF rest
    <3> QED BY <3>3, <3>4, <3>5
  <2>5. totalBytes[c] - DataTotal(p.len) + PiecesTotal(p, first) \in Int
    <3>1. DataTotal(p.len) \in Nat
      BY <2>2, <2>3
    <3> QED BY <1>1, <2>4, <3>1
  <2> QED BY <2>1, <2>5
<1>10. totalBytes' \in [Queues -> Nat]
  <2>1. total % Word \in Nat
    BY ModRange, ConstantsType
  <2> QED BY <1>7, <1>9, <2>1
<1> QED BY <1>5, <1>6, <1>7, <1>8, <1>10 DEF p

LEMMA VisitDataInv ==
    ASSUME Inv, VisitData
    PROVE  Inv'
<1> USE DEF userVars, wireVars, acceptVars
<1> DEFINE c == Visited
           p == Head(queue[c])
           first == SendableData(p.len, window[c], Room)
<1>1. c \in Queues /\ queue[c] # <<>> /\ p.kind = "data"
  BY VisitedType DEF Inv, VisitData, HeadIs
<1>2. p \in Packet /\ p.len \in Nat /\ window[c] \in Nat
  <2>1. queue[c] \in Seq(Packet) /\ window[c] \in Nat
    BY <1>1 DEF Inv, TypeOK
  <2>2. p \in Packet
    BY <1>1, <2>1
  <2> QED BY <2>1, <2>2 DEF Packet
<1>3. first \in Nat /\ first <= p.len /\ first <= window[c]
  <2> HIDE DEF p, c
  <2> QED BY <1>2, SendableBounds, RoomType DEF Inv
<1>4. /\ IF first < p.len THEN SplitFirstPacket(c, first)
                          ELSE UNCHANGED <<queue, totalBytes>>
      /\ Advance
      /\ current' = c
      /\ sspc' = "take"
      /\ UNCHANGED <<window, userVars, acceptVars, wireVars, granted, firstRound, found,
                     more, packed, rawLeft, waited, disconnectSent>>
  BY DEF VisitData
<1> HIDE DEF c, first
<1>5. /\ queue' \in [Queues -> Seq(Packet)]
      /\ totalBytes' \in [Queues -> Nat]
      /\ queue'[c] # <<>>
      /\ Head(queue'[c]).kind = "data"
      /\ Head(queue'[c]).len <= window[c]
  <2>1. CASE first < p.len
    <3>1. SplitFirstPacket(c, first)
      BY <1>4, <2>1
    <3>2. /\ queue' \in [Queues -> Seq(Packet)]
          /\ totalBytes' \in [Queues -> Nat]
          /\ queue'[c] # <<>>
          /\ Head(queue'[c]) = [p EXCEPT !.len = first]
      BY <1>1, <1>3, <3>1, SplitType
    <3> HIDE DEF p
    <3>3. [p EXCEPT !.len = first].kind = p.kind /\ [p EXCEPT !.len = first].len = first
      BY <1>2, <1>3, ReshapedPacket
    <3> QED BY <1>1, <1>3, <3>2, <3>3
  <2>2. CASE ~ (first < p.len)
    <3>1. queue' = queue /\ totalBytes' = totalBytes
      BY <1>4, <2>2
    <3>2. queue \in [Queues -> Seq(Packet)] /\ totalBytes \in [Queues -> Nat]
      BY DEF Inv, TypeOK
    <3>3. p.len <= window[c]
      <4> HIDE DEF p
      <4> QED BY <1>2, <1>3, <2>2
    <3> QED BY <1>1, <3>1, <3>2, <3>3
  <2> QED BY <2>1, <2>2
<1>6. nextNode' \in 1..(Len(QueueList) + 1)
  BY <1>4, AdvanceType DEF Inv
<1>7. TypeOK'
  BY <1>1, <1>4, <1>5, <1>6 DEF Inv, TypeOK
<1>8. TakeOK'
  BY <1>1, <1>4, <1>5 DEF TakeOK
<1>9. CallOK' /\ WindowOK' /\ SignalOK'
  BY <1>4 DEF Inv, CallOK, WindowOK, SignalOK
<1> QED BY <1>7, <1>8, <1>9 DEF Inv

LEMMA DequeueType ==
    ASSUME Inv, NEW c \in Queues, queue[c] # <<>>, Dequeue(c)
    PROVE  /\ queue' \in [Queues -> Seq(Packet)]
           /\ totalBytes' \in [Queues -> Nat]
           /\ Head(queue[c]) \in Packet
<1>1. queue \in [Queues -> Seq(Packet)] /\ totalBytes \in [Queues -> Nat]
  BY DEF Inv, TypeOK
<1>2. Head(queue[c]) \in Packet /\ Tail(queue[c]) \in Seq(Packet)
  BY <1>1
<1>3. queue' \in [Queues -> Seq(Packet)]
  BY <1>1, <1>2 DEF Dequeue
<1>4. Minus(totalBytes[c], PacketTotal(Head(queue[c]))) \in Nat
  <2>1. totalBytes[c] \in Int /\ PacketTotal(Head(queue[c])) \in Int
    BY <1>1, <1>2, PacketTotalType
  <2>2. Minus(totalBytes[c], PacketTotal(Head(queue[c]))) \in 0..(Word - 1)
    BY <2>1, MinusType
  <2> QED BY <2>2, ConstantsType
<1>5. totalBytes' = [totalBytes EXCEPT ![c] =
                        Minus(totalBytes[c], PacketTotal(Head(queue[c])))]
  BY DEF Dequeue
<1>6. totalBytes' \in [Queues -> Nat]
  BY <1>1, <1>4, <1>5
<1> QED BY <1>2, <1>3, <1>6

\* The charge: the window loses exactly the length of the packet taken out.
LEMMA TakeDataExact ==
    ASSUME Inv, TakeData
    PROVE  /\ current \in Queues
           /\ Head(queue[current]).len \in Nat
           /\ Head(queue[current]).len <= window[current]
           /\ window' = [window EXCEPT ![current] =
                            window[current] - Head(queue[current]).len]
<1> DEFINE len == Head(queue[current]).len
<1>1. current \in Queues /\ queue[current] # <<>> /\ len <= window[current]
  BY DEF Inv, TakeData, TakeOK
<1>2. len \in Nat
  <2>1. queue[current] \in Seq(Packet)
    BY <1>1 DEF Inv, TypeOK
  <2>2. Head(queue[current]) \in Packet
    BY <1>1, <2>1
  <2> QED BY <2>2 DEF Packet
<1>3. window[current] \in Nat /\ window[current] < Word
  <2>1. /\ window[current] \in Nat /\ granted[current] \in Nat
        /\ window[current] <= granted[current] /\ granted[current] < Word
    BY <1>1 DEF Inv, TypeOK, WindowOK
  <2> QED BY <2>1, ConstantsType
<1>4. Minus(window[current], len) = window[current] - len
  <2> HIDE DEF len
  <2> QED BY <1>1, <1>2, <1>3, MinusExact
<1> QED BY <1>1, <1>2, <1>4 DEF TakeData

LEMMA TakeDataInv ==
    ASSUME Inv, TakeData
    PROVE  Inv'
<1> USE DEF userVars, wireVars, acceptVars
<1> DEFINE len == Head(queue[current]).len
<1>1. /\ current \in Queues
      /\ len \in Nat
      /\ len <= window[current]
      /\ window' = [window EXCEPT ![current] = window[current] - len]
  BY TakeDataExact
<1>2. queue[current] # <<>>
  BY DEF Inv, TakeData, TakeOK
<1>3. /\ queue' \in [Queues -> Seq(Packet)]
      /\ totalBytes' \in [Queues -> Nat]
      /\ Head(queue[current]) \in Packet
  BY <1>1, <1>2, DequeueType DEF TakeData
<1> HIDE DEF len
<1>4. /\ window \in [Queues -> Nat] /\ granted \in [Queues -> Nat]
      /\ \A d \in Queues : window[d] <= granted[d] /\ granted[d] < Word
  BY DEF Inv, TypeOK, WindowOK
<1>5. window[current] - len \in Nat /\ window[current] - len <= granted[current]
  BY <1>1, <1>4
<1>6. window' \in [Queues -> Nat]
  BY <1>1, <1>4, <1>5
<1>7. TypeOK'
  BY <1>3, <1>6 DEF Inv, TypeOK, TakeData
<1>8. WindowOK'
  <2>1. granted' = granted
    BY DEF TakeData
  <2> SUFFICES ASSUME NEW d \in Queues
               PROVE  window'[d] <= granted[d] /\ granted[d] < Word
    BY <2>1 DEF WindowOK
  <2>2. CASE d = current
    BY <2>2, <1>1, <1>4, <1>5
  <2>3. CASE d # current
    BY <2>3, <1>1, <1>4
  <2> QED BY <2>2, <2>3
<1>9. CallOK' /\ TakeOK' /\ SignalOK'
  BY <1>3 DEF Inv, TakeData, CallOK, TakeOK, SignalOK
<1> QED BY <1>7, <1>8, <1>9 DEF Inv

LEMMA VisitControlInv ==
    ASSUME Inv, VisitControl
    PROVE  Inv'
<1> USE DEF userVars, wireVars, acceptVars
<1>1. Visited \in Queues /\ queue[Visited] # <<>>
  BY VisitedType DEF Inv, VisitControl, HeadIs
<1>2. Dequeue(Visited)
  BY DEF VisitControl
<1>3. /\ queue' \in [Queues -> Seq(Packet)]
      /\ totalBytes' \in [Queues -> Nat]
      /\ Head(queue[Visited]) \in Packet
  BY <1>1, <1>2, DequeueType
<1>4. nextNode' \in 1..(Len(QueueList) + 1)
  BY AdvanceType DEF Inv, VisitControl
<1>5. UNCHANGED <<window, userVars, acceptVars, wireVars, granted, disconnectSent>>
  BY DEF VisitControl
<1>6. CASE Visited = Main
  <2>1. Return(Head(queue[Main]))
    BY <1>6 DEF VisitControl
  <2>2. /\ packed' \in Seq(Packet)
        /\ rawLeft' \in 0..(Word - 1)
        /\ sspc' \in {"pick", "encode", "overrun"}
        /\ found' = None
        /\ current' = None
        /\ firstRound' \in BOOLEAN
        /\ more' \in BOOLEAN
        /\ waited' \in BOOLEAN
    BY <1>3, <1>6, <2>1, ReturnType DEF Inv
  <2>3. TypeOK'
    BY <1>3, <1>4, <1>5, <2>2 DEF Inv, TypeOK
  <2> QED BY <1>5, <2>2, <2>3 DEF Inv, CallOK, WindowOK, TakeOK, SignalOK
<1>7. CASE Visited # Main
  <2>1. /\ found' = Head(queue[Visited])
        /\ more' = FALSE
        /\ sspc' = "signal"
        /\ UNCHANGED <<firstRound, current, packed, rawLeft, waited>>
    BY <1>7 DEF VisitControl
  <2>2. TypeOK'
    BY <1>3, <1>4, <1>5, <2>1 DEF Inv, TypeOK
  <2> QED BY <1>3, <1>5, <2>1, <2>2 DEF Inv, CallOK, WindowOK, TakeOK, SignalOK
<1> QED BY <1>6, <1>7

LEMMA VisitTooLargeInv ==
    ASSUME Inv, VisitTooLarge
    PROVE  Inv'
<1> USE DEF userVars, wireVars, acceptVars
<1>1. Visited \in Queues /\ queue[Visited] # <<>>
  BY VisitedType DEF Inv, VisitTooLarge, HeadIs
<1>2. Head(queue[Visited]) \in Packet
  <2>1. queue[Visited] \in Seq(Packet)
    BY <1>1 DEF Inv, TypeOK
  <2> QED BY <1>1, <2>1
<1>3. /\ sspc = "pick" /\ Advance
      /\ UNCHANGED <<queue, totalBytes, window, userVars, acceptVars, wireVars,
                     granted, disconnectSent>>
  BY DEF VisitTooLarge, HeadIs
<1>4. CASE Visited = Main
  <2>1. ContinueWith(Head(queue[Main])) /\ Head(queue[Main]) \in Packet \cup {None}
    BY <1>2, <1>4 DEF VisitTooLarge
  <2> QED BY <1>3, <2>1, LookOnInv
<1>5. CASE Visited # Main
  <2>1. /\ found' = Head(queue[Visited])
        /\ more' = KeepGoing
        /\ sspc' = "signal"
        /\ firstRound' = (firstRound /\ Node # None)
        /\ current' = Visited
        /\ UNCHANGED <<packed, rawLeft, waited>>
    BY <1>5 DEF VisitTooLarge
  <2>2. more' \in BOOLEAN /\ firstRound' \in BOOLEAN
    BY <2>1 DEF KeepGoing, Inv, TypeOK
  <2>3. nextNode' \in 1..(Len(QueueList) + 1)
    BY <1>3, AdvanceType DEF Inv
  <2>4. TypeOK'
    BY <1>1, <1>2, <1>3, <2>1, <2>2, <2>3 DEF Inv, TypeOK
  <2> QED BY <1>2, <1>3, <2>1, <2>4 DEF Inv, CallOK, WindowOK, TakeOK, SignalOK
<1> QED BY <1>4, <1>5

LEMMA SignalWritersInv ==
    ASSUME Inv, SignalWriters
    PROVE  Inv'
<1> USE DEF wireVars, acceptVars
<1>1. found \in Packet
  BY DEF Inv, SignalWriters, SignalOK
<1>2. /\ pc' \in [Threads -> {"idle", "wait", "woken"}]
      /\ \A t \in Threads : pc'[t] # "idle" => pc[t] # "idle"
  BY DEF SignalWriters, Signal, Waiters, Inv, TypeOK
<1>3. UNCHANGED <<queue, totalBytes, window, request, acceptVars, wireVars, granted,
                  nextNode, disconnectSent>>
  BY DEF SignalWriters
<1>4. /\ packed' \in Seq(Packet)
      /\ rawLeft' \in 0..(Word - 1)
      /\ sspc' \in {"pick", "encode", "overrun"}
      /\ found' \in Packet \cup {None}
      /\ current' \in Queues \cup {None}
      /\ firstRound' \in BOOLEAN
      /\ more' \in BOOLEAN
      /\ waited' \in BOOLEAN
  <2>1. CASE more
    BY <2>1 DEF SignalWriters, Inv, TypeOK
  <2>2. CASE ~ more
    <3>1. Return(found)
      BY <2>2 DEF SignalWriters
    <3> QED BY <1>1, <3>1, ReturnType DEF Inv
  <2> QED BY <2>1, <2>2
<1>5. TypeOK'
  BY <1>2, <1>3, <1>4 DEF Inv, TypeOK
<1>6. CallOK'
  BY <1>2, <1>3 DEF Inv, CallOK
<1> QED BY <1>3, <1>4, <1>5, <1>6 DEF Inv, WindowOK, TakeOK, SignalOK

LEMMA EncodePacketInv ==
    ASSUME Inv, EncodePacket
    PROVE  Inv'
<1> USE DEF userVars, acceptVars, iterVars
<1> DEFINE p == Head(packed)
           c == p.q
<1>1. p \in Packet /\ Tail(packed) \in Seq(Packet)
  BY DEF Inv, TypeOK, EncodePacket
<1>2. c \in Queues /\ p.len \in Nat /\ p.kind \in Kinds
  BY <1>1 DEF Packet
<1>3. /\ packed' = Tail(packed)
      /\ sent' = IF p.kind = "data" THEN [sent EXCEPT ![c] = sent[c] + p.len] ELSE sent
      /\ ctlSent' = IF p.kind = "data" THEN ctlSent
                    ELSE [ctlSent EXCEPT ![c] = ctlSent[c] + 1]
      /\ disconnectSent' = (disconnectSent \/ p.kind = "disconnect")
      /\ UNCHANGED <<queue, totalBytes, window, userVars, acceptVars, granted, sspc,
                     iterVars, found, rawLeft, waited>>
  BY DEF EncodePacket
<1> HIDE DEF c, p
<1>4. sent' \in [Queues -> Nat] /\ ctlSent' \in [Queues -> Nat]
  <2>1. sent \in [Queues -> Nat] /\ ctlSent \in [Queues -> Nat]
    BY DEF Inv, TypeOK
  <2>2. sent[c] + p.len \in Nat /\ ctlSent[c] + 1 \in Nat
    BY <1>2, <2>1
  <2> QED BY <1>2, <1>3, <2>1, <2>2
<1>5. disconnectSent' \in BOOLEAN
  BY <1>3 DEF Inv, TypeOK
<1>6. TypeOK'
  BY <1>1, <1>3, <1>4, <1>5 DEF Inv, TypeOK
<1> QED BY <1>3, <1>6 DEF Inv, CallOK, WindowOK, TakeOK, SignalOK

LEMMA SendInv ==
    ASSUME Inv, SendBuffer \/ SendFails
    PROVE  Inv'
<1> USE DEF userVars, acceptVars, wireVars, iterVars
<1>1. rawLeft' \in 0..(Word - 1)
  <2>1. RawBuf \in 0..(Word - 1)
    BY ConstantsType, OutboundAssumption
  <2> QED BY <2>1 DEF Inv, TypeOK, SendBuffer, SendFails
<1>2. /\ sspc' \in {"dead", "pick"}
      /\ UNCHANGED <<queue, totalBytes, window, userVars, acceptVars, wireVars, granted,
                     iterVars, found, packed, waited, disconnectSent>>
  BY DEF SendBuffer, SendFails
<1>3. TypeOK'
  BY <1>1, <1>2 DEF Inv, TypeOK
<1> QED BY <1>2, <1>3 DEF Inv, CallOK, WindowOK, TakeOK, SignalOK

LEMMA NextInv == Inv /\ [Next]_vars => Inv'
<1> SUFFICES ASSUME Inv, [Next]_vars PROVE Inv'
  OBVIOUS
<1>1. ASSUME NEW t \in Threads, QueueOutboundData(t) PROVE Inv'
  <2>1. PICK p \in UserPackets : WithinBounds(p) /\ QueueOrWait(t, p)
    BY <1>1 DEF QueueOutboundData
  <2>2. p \in Packet
    BY <2>1, UserPacketsType
  <2>3. UNCHANGED <<window, ssVars, wireVars, granted>>
    BY <1>1 DEF QueueOutboundData
  <2> QED BY <2>1, <2>2, <2>3, QueueOrWaitInv
<1>2. ASSUME NEW t \in Threads, WakeUp(t) PROVE Inv'
  <2>1. request[t] \in Packet
    BY <1>2 DEF WakeUp, Inv, CallOK
  <2> QED BY <1>2, <2>1, QueueOrWaitInv DEF WakeUp
<1>3. ASSUME NEW c \in Channels, QueueWindowAdjust(c) PROVE Inv'
  BY <1>3, QueueWindowAdjustInv
<1>4. ASSUME NEW c \in Channels, NEW k \in Grants, AdjustWindowSizeRemote(c, k) PROVE Inv'
  BY <1>4, AdjustWindowInv
<1>5. CASE VisitEmpty
  <2>1. found \in Packet \cup {None}
    BY DEF Inv, TypeOK
  <2> QED BY <1>5, <2>1, LookOnInv DEF VisitEmpty
<1>6. CASE VisitBlockedData
  BY <1>6, LookOnInv DEF VisitBlockedData, HeadIs
<1>7. CASE VisitData
  BY <1>7, VisitDataInv
<1>8. CASE TakeData
  BY <1>8, TakeDataInv
<1>9. CASE VisitControl
  BY <1>9, VisitControlInv
<1>10. CASE VisitTooLarge
  BY <1>10, VisitTooLargeInv
<1>11. CASE SignalWriters
  BY <1>11, SignalWritersInv
<1>12. CASE EncodePacket
  BY <1>12, EncodePacketInv
<1>13. CASE SendBuffer \/ SendFails
  BY <1>13, SendInv
<1>14. CASE UNCHANGED vars
  <2> USE DEF vars, userVars, ssVars, iterVars, acceptVars, wireVars
  <2> QED BY ZenonT(60), <1>14 DEF Inv, TypeOK, CallOK, WindowOK, TakeOK, SignalOK
<1> QED BY <1>1, <1>2, <1>3, <1>4, <1>5, <1>6, <1>7, <1>8, <1>9, <1>10, <1>11, <1>12,
           <1>13, <1>14 DEF Next, SocketSend, GetNextPacket

THEOREM Invariance == Spec => []Inv
  BY InitInv, NextInv, PTL DEF Spec

\* The state of the sending half keeps its shape, whatever the sizes of the
\* buffers, windows, packets and queues.
THEOREM TypeCorrect == Spec => []TypeOK
<1>1. Inv => TypeOK
  BY DEF Inv
<1> QED BY <1>1, Invariance, PTL

\* getNextPacket charges the peer's window exactly the length of what it takes
\* out, and never below zero, although the Transport thread adjusts the window
\* and user threads queue packets between the look at the window and the charge.
THEOREM ChargeCorrect == Spec => ChargeExact
<1>1. ASSUME Inv, [Next]_vars, sspc = "take", sspc' # "take"
      PROVE  window'[current] = window[current] - Head(queue[current]).len
  <2>1. TakeData
    <3>1. ~ UNCHANGED <<sspc>>
      BY <1>1
    <3> QED BY <1>1, <3>1
            DEF Next, QueueOutboundData, WakeUp, QueueWindowAdjust, AdjustWindowSizeRemote,
                SocketSend, GetNextPacket, VisitEmpty, VisitBlockedData, VisitData,
                VisitControl, VisitTooLarge, SignalWriters, EncodePacket, SendBuffer,
                SendFails, HeadIs, vars, ssVars
  <2>2. /\ current \in Queues
        /\ window' = [window EXCEPT ![current] =
                          window[current] - Head(queue[current]).len]
    BY <1>1, <2>1, TakeDataExact
  <2>3. window \in [Queues -> Nat]
    BY <1>1 DEF Inv, TypeOK
  <2> QED BY <2>2, <2>3
<1>2. Inv /\ [Next]_vars => [sspc = "take" /\ sspc' # "take"
        => window'[current] = window[current] - Head(queue[current]).len]_vars
  BY <1>1
<1> QED BY <1>2, Invariance, PTL DEF Spec, ChargeExact
-----------------------------------------------------------------------------
(* The raw buffer.  What getNextPacket hands out fits in the room it was      *)
(* asked for, or it is a packet that was only looked at: not channel data,    *)
(* and still the first of its queue.                                          *)

Peeked(p) == p.kind # "data" /\ queue[p.q] # <<>> /\ Head(queue[p.q]) = p

Peeks == Peeked(found) /\ PacketTotal(found) > Room

\* While SocketSend looks for a packet there is room for one.
RoomOK ==
    /\ sspc \in {"pick", "take", "signal"} => rawLeft >= MinRawLeft
    /\ sspc # "overrun" => rawLeft <= RawBuf

\* What has been chosen fits in the room it was chosen for, or was looked at.
FoundOK ==
    /\ sspc = "encode" => found = None
    /\ sspc = "pick" => found = None \/ Peeks
    /\ sspc = "take" => PacketTotal(Head(queue[current])) <= Room
    /\ sspc = "signal" => Peeks \/ (more = FALSE /\ PacketTotal(found) <= Room)
    /\ sspc = "overrun" => packed # <<>> /\ Peeked(Last(packed))

BufferInv == RoomOK /\ FoundOK

\* The first packet of a queue is one of its own.
HeadsOwn == \A c \in Queues : queue[c] # <<>> => Head(queue[c]).q = c

LEMMA RoomExact ==
    ASSUME Inv, RoomOK, sspc \in {"pick", "take", "signal"}
    PROVE  /\ Room = rawLeft - MacLen
           /\ Room \in Nat /\ Room >= MinRoom /\ Room < Word
           /\ rawLeft \in Nat /\ rawLeft < Word
<1>1. rawLeft \in Nat /\ rawLeft < Word /\ rawLeft >= MinRawLeft
  BY ConstantsType DEF Inv, TypeOK, RoomOK
<1>2. MacLen \in Nat /\ MacLen + MinRoom <= MinRawLeft /\ MinRoom = 32
  BY OutboundAssumption, ConstantsType DEF MinRoom
<1>3. MacLen <= rawLeft
  BY <1>1, <1>2 DEF MinRawLeft
<1>4. Room = rawLeft - MacLen
  BY <1>1, <1>2, <1>3, MinusExact DEF Room
<1> QED BY <1>1, <1>2, <1>4, ConstantsType DEF MinRawLeft

LEMMA AppendLast ==
    ASSUME NEW S, NEW s \in Seq(S), NEW x \in S
    PROVE  Last(Append(s, x)) = x /\ Front(Append(s, x)) = s
<1>1. /\ Append(s, x) \in Seq(S) /\ Len(Append(s, x)) = Len(s) + 1
      /\ Append(s, x)[Len(s) + 1] = x
      /\ \A i \in 1..Len(s) : Append(s, x)[i] = s[i]
  BY AppendProperties
<1>2. SubSeq(Append(s, x), 1, Len(s)) = s
  BY <1>1
<1>3. (Len(s) + 1) - 1 = Len(s)
  OBVIOUS
<1> QED BY <1>1, <1>2, <1>3 DEF Last, Front

\* Packing a packet that fits leaves a count of the free bytes that is right; a packet
\* that does not fit was only looked at.
LEMMA ReturnRoom ==
    ASSUME Inv, RoomOK, sspc \in {"pick", "signal"}, NEW p \in Packet \cup {None},
           p # None => PacketTotal(p) <= Room \/ (Peeked(p) /\ queue' = queue), Return(p)
    PROVE  RoomOK' /\ FoundOK'
<1>1. sspc' \in {"pick", "encode", "overrun"} /\ found' = None
  BY ReturnType DEF Inv
<1>2. /\ Room = rawLeft - MacLen /\ rawLeft \in Nat /\ rawLeft < Word
      /\ rawLeft >= MinRawLeft /\ rawLeft <= RawBuf /\ MacLen \in Nat /\ RawBuf \in Nat
  BY RoomExact, ConstantsType DEF RoomOK
<1>3. CASE p = None
  <2>1. ~ Overruns(p) /\ rawLeft' = rawLeft
    BY <1>3 DEF Overruns, Return
  <2>2. sspc' # "overrun"
    BY <2>1 DEF Return
  <2>3. RoomOK'
    BY <1>1, <1>2, <2>1 DEF RoomOK
  <2> QED BY <1>1, <2>2, <2>3 DEF FoundOK
<1>4. CASE p # None /\ PacketTotal(p) <= Room
  <2>1. PacketTotal(p) \in Nat /\ PacketTotal(p) <= Room
    BY <1>4, PacketTotalType
  <2>2. PacketTotal(p) + MacLen \in Nat /\ PacketTotal(p) + MacLen <= rawLeft
    BY <1>2, <2>1
  <2>3. Minus(rawLeft, PacketTotal(p) + MacLen) = rawLeft - (PacketTotal(p) + MacLen)
    BY <1>2, <2>2, MinusExact
  <2>4. rawLeft' = rawLeft - (PacketTotal(p) + MacLen)
    BY <1>4, <2>3 DEF Return
  <2>5. packed' = Append(packed, p) /\ packed' # <<>>
    <3>1. packed \in Seq(Packet) /\ p \in Packet
      BY <1>4 DEF Inv, TypeOK
    <3>2. packed' = Append(packed, p)
      BY <1>4 DEF Return
    <3> QED BY <3>1, <3>2, AppendFacts
  <2>6. ~ Overruns(p)
    BY <1>2, <2>2 DEF Overruns
  <2>7. sspc' = IF rawLeft' >= MinRawLeft THEN "pick" ELSE "encode"
    BY <1>4, <2>5, <2>6 DEF Return, AskAgain
  <2>8. RoomOK'
    BY <1>2, <2>2, <2>4, <2>7 DEF RoomOK, MinRawLeft
  <2> QED BY <1>1, <2>7, <2>8 DEF FoundOK
<1>5. CASE p # None /\ ~ (PacketTotal(p) <= Room)
  <2>1. p \in Packet /\ Peeked(p) /\ queue' = queue
    BY <1>5
  <2>2. PacketTotal(p) \in Nat /\ PacketTotal(p) > Room
    BY <1>5, <1>2, <2>1, PacketTotalType
  <2>3. Overruns(p)
    BY <1>2, <1>5, <2>2 DEF Overruns
  <2>4. sspc' = "overrun" /\ packed' = Append(packed, p)
    BY <1>5, <2>3 DEF Return
  <2>5. packed' # <<>> /\ Last(packed') = p
    <3>1. packed \in Seq(Packet)
      BY DEF Inv, TypeOK
    <3> QED BY <2>1, <2>4, <3>1, AppendFacts, AppendLast
  <2>6. p.kind # "data" /\ queue'[p.q] # <<>> /\ Head(queue'[p.q]) = p
    BY <2>1 DEF Peeked
  <2> QED BY <1>1, <2>4, <2>5, <2>6 DEF RoomOK, FoundOK, Peeked
<1> QED BY <1>3, <1>4, <1>5

LEMMA InitBuffer == Init => BufferInv
<1> SUFFICES ASSUME Init PROVE BufferInv
  OBVIOUS
<1>1. RoomOK
  BY OutboundAssumption, ConstantsType DEF Init, RoomOK
<1>2. FoundOK
  BY DEF Init, FoundOK
<1> QED BY <1>1, <1>2 DEF BufferInv

\* What SocketSend has looked at stays the first of its queue while others join it.
LEMMA PeekedKept ==
    ASSUME NEW p \in Packet, Peeked(p),
           \A c \in Queues : queue[c] # <<>> =>
              queue'[c] # <<>> /\ Head(queue'[c]) = Head(queue[c])
    PROVE  p.kind # "data" /\ queue'[p.q] # <<>> /\ Head(queue'[p.q]) = p
<1>1. p.q \in Queues
  BY DEF Packet
<1> QED BY <1>1 DEF Peeked

LEMMA UserBuffer ==
    ASSUME Inv, BufferInv, UNCHANGED ssVars,
           \A c \in Queues : queue[c] # <<>> =>
              queue'[c] # <<>> /\ Head(queue'[c]) = Head(queue[c])
    PROVE  BufferInv'
<1>1. /\ sspc' = sspc /\ found' = found /\ current' = current /\ more' = more
      /\ packed' = packed /\ rawLeft' = rawLeft
  BY DEF ssVars, iterVars
<1>2. RoomOK'
  BY <1>1 DEF BufferInv, RoomOK
<1>3. Room' = Room
  BY <1>1 DEF Room, Minus
<1>4. sspc = "take" => Head(queue'[current]) = Head(queue[current])
  BY DEF Inv, TakeOK
<1>5. Peeks /\ found \in Packet => Peeks'
  <2> SUFFICES ASSUME Peeks, found \in Packet PROVE Peeks'
    OBVIOUS
  <2>1. PICK p \in Packet : p = found
    OBVIOUS
  <2>2. Peeked(p) /\ PacketTotal(p) > Room
    BY <2>1 DEF Peeks
  <2>3. p.kind # "data" /\ queue'[p.q] # <<>> /\ Head(queue'[p.q]) = p
    BY <2>2, PeekedKept
  <2> QED BY <1>1, <1>3, <2>1, <2>2, <2>3 DEF Peeks, Peeked
<1>6. sspc = "overrun" => packed # <<>> /\ Peeked(Last(packed))'
  <2> SUFFICES ASSUME sspc = "overrun" PROVE packed # <<>> /\ Peeked(Last(packed))'
    OBVIOUS
  <2>1. packed # <<>> /\ Peeked(Last(packed)) /\ packed \in Seq(Packet)
    BY DEF BufferInv, FoundOK, Inv, TypeOK
  <2>2. PICK p \in Packet : p = Last(packed)
    BY <2>1 DEF Last
  <2>3. p.kind # "data" /\ queue'[p.q] # <<>> /\ Head(queue'[p.q]) = p
    BY <2>1, <2>2, PeekedKept
  <2> QED BY <1>1, <2>1, <2>2, <2>3 DEF Peeked
<1>7. /\ sspc = "signal" => found \in Packet
      /\ found # None => found \in Packet
  BY DEF Inv, SignalOK, TypeOK
<1>8. FoundOK'
  BY <1>1, <1>3, <1>4, <1>5, <1>6, <1>7 DEF BufferInv, FoundOK
<1> QED BY <1>2, <1>8 DEF BufferInv

LEMMA QueueOrWaitBuffer ==
    ASSUME Inv, BufferInv, NEW t \in Threads, NEW p \in Packet, QueueOrWait(t, p),
           UNCHANGED ssVars
    PROVE  BufferInv'
<1>1. CASE Enqueue(p)
  BY <1>1, EnqueueType, UserBuffer DEF Inv
<1>2. CASE queue' = queue
  BY <1>2, UserBuffer
<1> QED BY <1>1, <1>2 DEF QueueOrWait

\* Steps of SocketSend that go on with nothing, or with a packet that was looked at.
LEMMA LookOnBuffer ==
    ASSUME Inv, BufferInv, sspc = "pick", NEW p \in Packet \cup {None},
           p # None => Peeked(p) /\ PacketTotal(p) > Room, ContinueWith(p), queue' = queue
    PROVE  BufferInv'
<1>1. CASE KeepGoing
  <2>1. sspc' = "pick" /\ found' = p /\ rawLeft' = rawLeft
    BY <1>1 DEF ContinueWith
  <2>2. Room' = Room
    BY <2>1 DEF Room, Minus
  <2>3. p # None => Peeks'
    BY <2>1, <2>2 DEF Peeks, Peeked
  <2>4. FoundOK'
    BY <2>1, <2>3 DEF FoundOK
  <2>5. RoomOK'
    BY <2>1 DEF BufferInv, RoomOK
  <2> QED BY <2>4, <2>5 DEF BufferInv
<1>2. CASE ~ KeepGoing
  <2>1. Return(p)
    BY <1>2 DEF ContinueWith
  <2>2. RoomOK' /\ FoundOK'
    BY <2>1, ReturnRoom DEF BufferInv
  <2> QED BY <2>2 DEF BufferInv
<1> QED BY <1>1, <1>2

\* What VisitEmpty goes on with.
LEMMA FoundHere ==
    ASSUME Inv, BufferInv, sspc = "pick"
    PROVE  /\ found \in Packet \cup {None}
           /\ found # None => Peeked(found) /\ PacketTotal(found) > Room
  BY DEF Inv, TypeOK, BufferInv, FoundOK, Peeks

LEMMA VisitDataBuffer ==
    ASSUME Inv, BufferInv, VisitData
    PROVE  BufferInv'
<1> DEFINE c == Visited
           p == Head(queue[c])
           first == SendableData(p.len, window[c], Room)
<1>1. c \in Queues /\ queue[c] # <<>> /\ p.kind = "data" /\ sspc = "pick"
  BY VisitedType DEF Inv, VisitData, HeadIs
<1>2. p \in Packet /\ p.len \in Nat /\ window[c] \in Nat
  <2>1. queue[c] \in Seq(Packet) /\ window[c] \in Nat
    BY <1>1 DEF Inv, TypeOK
  <2>2. p \in Packet
    BY <1>1, <2>1
  <2> QED BY <2>1, <2>2 DEF Packet
<1>3. /\ Room \in Nat /\ Room >= MinRoom /\ Room < Word
  BY <1>1, RoomExact DEF BufferInv
<1>4. /\ first \in Nat /\ first <= p.len /\ first <= DataRoom(Room)
  <2> HIDE DEF p, c
  <2> QED BY <1>2, <1>3, SendableBounds
<1>5. /\ IF first < p.len THEN SplitFirstPacket(c, first)
                          ELSE UNCHANGED <<queue, totalBytes>>
      /\ current' = c
      /\ sspc' = "take"
      /\ UNCHANGED rawLeft
  BY DEF VisitData
<1> HIDE DEF c, first
<1>6. Head(queue'[c]).kind = "data" /\ Head(queue'[c]).len = first
  <2>1. CASE first < p.len
    <3>1. SplitFirstPacket(c, first)
      BY <1>5, <2>1
    <3>2. Head(queue'[c]) = [p EXCEPT !.len = first]
      BY <1>1, <1>4, <3>1, SplitType
    <3> HIDE DEF p
    <3>3. [p EXCEPT !.len = first].kind = p.kind /\ [p EXCEPT !.len = first].len = first
      BY <1>2, <1>4, ReshapedPacket
    <3> QED BY <1>1, <3>2, <3>3
  <2>2. CASE ~ (first < p.len)
    <3>1. queue' = queue
      BY <1>5, <2>2
    <3>2. p.len = first
      <4> HIDE DEF p
      <4> QED BY <1>2, <1>4, <2>2
    <3> QED BY <1>1, <3>1, <3>2
  <2> QED BY <2>1, <2>2
<1>7. DataTotal(first) <= Room
  BY <1>3, <1>4, DataFits
<1>8. Room' = Room
  BY <1>5 DEF Room, Minus
<1>9. RoomOK'
  BY <1>1, <1>5 DEF BufferInv, RoomOK
<1>10. PacketTotal(Head(queue'[c])) = DataTotal(first)
  BY <1>6 DEF PacketTotal
<1>11. FoundOK'
  BY <1>5, <1>7, <1>8, <1>10 DEF FoundOK
<1> QED BY <1>9, <1>11 DEF BufferInv

LEMMA TakeDataBuffer ==
    ASSUME Inv, BufferInv, TakeData
    PROVE  BufferInv'
<1>1. current \in Queues /\ queue[current] # <<>> /\ sspc = "take"
  BY DEF Inv, TakeData, TakeOK
<1>2. /\ found' = Head(queue[current]) /\ more' = FALSE /\ sspc' = "signal"
      /\ UNCHANGED rawLeft
  BY DEF TakeData
<1>3. RoomOK'
  BY <1>1, <1>2 DEF BufferInv, RoomOK
<1>4. Room' = Room
  BY <1>2 DEF Room, Minus
<1>5. PacketTotal(Head(queue[current])) <= Room
  BY <1>1 DEF BufferInv, FoundOK
<1>6. FoundOK'
  BY <1>2, <1>4, <1>5 DEF FoundOK
<1> QED BY <1>3, <1>6 DEF BufferInv

LEMMA VisitControlBuffer ==
    ASSUME Inv, BufferInv, VisitControl
    PROVE  BufferInv'
<1>1. /\ Visited \in Queues /\ queue[Visited] # <<>> /\ sspc = "pick"
      /\ PacketTotal(Head(queue[Visited])) <= Room
  BY VisitedType DEF Inv, VisitControl, HeadIs
<1>2. Head(queue[Visited]) \in Packet
  BY <1>1, DequeueType DEF VisitControl, Inv
<1>3. CASE Visited = Main
  <2>1. Return(Head(queue[Main]))
    BY <1>3 DEF VisitControl
  <2>2. Head(queue[Main]) \in Packet \cup {None}
    BY <1>2, <1>3
  <2>3. RoomOK' /\ FoundOK'
    BY <1>1, <1>3, <2>1, <2>2, ReturnRoom DEF BufferInv
  <2> QED BY <2>3 DEF BufferInv
<1>4. CASE Visited # Main
  <2>1. /\ found' = Head(queue[Visited]) /\ more' = FALSE /\ sspc' = "signal"
        /\ rawLeft' = rawLeft
    BY <1>4 DEF VisitControl
  <2>2. Room' = Room
    BY <2>1 DEF Room, Minus
  <2>3. RoomOK'
    BY <1>1, <2>1 DEF BufferInv, RoomOK
  <2>4. FoundOK'
    BY <1>1, <2>1, <2>2 DEF FoundOK
  <2> QED BY <2>3, <2>4 DEF BufferInv
<1> QED BY <1>3, <1>4

LEMMA VisitTooLargeBuffer ==
    ASSUME Inv, BufferInv, HeadsOwn, VisitTooLarge
    PROVE  BufferInv'
<1>1. PICK c \in Queues : c = Visited
  BY VisitedType DEF Inv, VisitTooLarge, HeadIs
<1>2. /\ queue[c] # <<>> /\ sspc = "pick" /\ queue' = queue
      /\ Head(queue[c]).kind # "data" /\ PacketTotal(Head(queue[c])) > Room
  BY <1>1 DEF VisitTooLarge, HeadIs
<1>3. PICK p \in Packet : p = Head(queue[c])
  BY <1>2 DEF Inv, TypeOK
<1>4. Peeked(p) /\ PacketTotal(p) > Room
  BY <1>2, <1>3 DEF HeadsOwn, Peeked
<1>5. CASE c = Main
  <2>1. ContinueWith(p)
    BY <1>1, <1>3, <1>5 DEF VisitTooLarge
  <2> QED BY <1>2, <1>4, <2>1, LookOnBuffer
<1>6. CASE c # Main
  <2>1. found' = p /\ sspc' = "signal" /\ rawLeft' = rawLeft
    BY <1>1, <1>3, <1>6 DEF VisitTooLarge
  <2>2. Room' = Room
    BY <2>1 DEF Room, Minus
  <2>3. RoomOK'
    BY <1>2, <2>1 DEF BufferInv, RoomOK
  <2>4. Peeks'
    BY <1>2, <1>4, <2>1, <2>2 DEF Peeks, Peeked
  <2>5. FoundOK'
    BY <2>1, <2>4 DEF FoundOK
  <2> QED BY <2>3, <2>5 DEF BufferInv
<1> QED BY <1>5, <1>6

LEMMA SignalWritersBuffer ==
    ASSUME Inv, BufferInv, SignalWriters
    PROVE  BufferInv'
<1>1. /\ sspc = "signal" /\ queue' = queue
      /\ Peeks \/ (more = FALSE /\ PacketTotal(found) <= Room)
  BY DEF BufferInv, FoundOK, SignalWriters
<1>2. PICK p \in Packet : p = found
  BY <1>1 DEF Inv, SignalOK
<1>3. CASE more
  <2>1. sspc' = "pick" /\ found' = found /\ rawLeft' = rawLeft /\ Peeks
    BY <1>1, <1>3 DEF SignalWriters
  <2>2. Room' = Room
    BY <2>1 DEF Room, Minus
  <2>3. Peeks'
    BY <1>1, <2>1, <2>2 DEF Peeks, Peeked
  <2>4. RoomOK' /\ FoundOK'
    BY <1>1, <2>1, <2>3 DEF BufferInv, RoomOK, FoundOK
  <2> QED BY <2>4 DEF BufferInv
<1>4. CASE ~ more
  <2>1. Return(p)
    BY <1>2, <1>4 DEF SignalWriters
  <2>2. PacketTotal(p) <= Room \/ (Peeked(p) /\ queue' = queue)
    BY <1>1, <1>2 DEF Peeks
  <2>3. RoomOK' /\ FoundOK'
    BY <1>1, <2>1, <2>2, ReturnRoom DEF BufferInv
  <2> QED BY <2>3 DEF BufferInv
<1> QED BY <1>3, <1>4

LEMMA NextBuffer ==
    ASSUME Inv, BufferInv, HeadsOwn, [Next]_vars
    PROVE  BufferInv'
<1>1. ASSUME NEW t \in Threads, QueueOutboundData(t) PROVE BufferInv'
  <2>1. PICK p \in UserPackets : QueueOrWait(t, p)
    BY <1>1 DEF QueueOutboundData
  <2>2. p \in Packet
    BY <2>1, UserPacketsType
  <2>3. UNCHANGED ssVars
    BY <1>1 DEF QueueOutboundData
  <2> QED BY <2>1, <2>2, <2>3, QueueOrWaitBuffer
<1>2. ASSUME NEW t \in Threads, WakeUp(t) PROVE BufferInv'
  <2>1. request[t] \in Packet
    BY <1>2 DEF WakeUp, Inv, CallOK
  <2> QED BY <1>2, <2>1, QueueOrWaitBuffer DEF WakeUp
<1>3. ASSUME NEW c \in Channels, QueueWindowAdjust(c) PROVE BufferInv'
  <2> DEFINE p == [q |-> c, kind |-> "control", off |-> 0, len |-> 9, n |-> 0]
  <2>1. Enqueue(p) /\ UNCHANGED ssVars
    BY <1>3 DEF QueueWindowAdjust
  <2>2. p \in Packet
    BY DEF Packet, Kinds, Queues
  <2> HIDE DEF p
  <2> QED BY <2>1, <2>2, EnqueueType, UserBuffer DEF Inv
<1>4. ASSUME NEW c \in Channels, NEW k \in Grants, AdjustWindowSizeRemote(c, k)
      PROVE  BufferInv'
  BY <1>4, UserBuffer DEF AdjustWindowSizeRemote
<1>5. CASE VisitEmpty
  <2>1. ContinueWith(found) /\ sspc = "pick" /\ queue' = queue
    BY <1>5 DEF VisitEmpty
  <2>2. PICK p \in Packet \cup {None} : p = found
    BY <2>1, FoundHere
  <2> QED BY <2>1, <2>2, FoundHere, LookOnBuffer
<1>6. CASE VisitBlockedData
  <2>1. ContinueWith(None) /\ sspc = "pick" /\ queue' = queue
    BY <1>6 DEF VisitBlockedData, HeadIs
  <2> QED BY <2>1, LookOnBuffer
<1>7. CASE VisitData
  BY <1>7, VisitDataBuffer
<1>8. CASE TakeData
  BY <1>8, TakeDataBuffer
<1>9. CASE VisitControl
  BY <1>9, VisitControlBuffer
<1>10. CASE VisitTooLarge
  BY <1>10, VisitTooLargeBuffer
<1>11. CASE SignalWriters
  BY <1>11, SignalWritersBuffer
<1>12. CASE EncodePacket
  BY <1>12 DEF EncodePacket, BufferInv, RoomOK, FoundOK, iterVars
<1>13. CASE SendBuffer \/ SendFails
  <2>1. /\ sspc' = "dead" \/ (sspc' = "pick" /\ rawLeft' = RawBuf)
        /\ rawLeft' = RawBuf \/ rawLeft' = rawLeft
        /\ sspc = "encode" /\ found' = found
    BY <1>13 DEF SendBuffer, SendFails
  <2>2. found = None
    BY <2>1 DEF BufferInv, FoundOK
  <2>3. RawBuf \in Nat /\ RawBuf >= MinRawLeft
    BY OutboundAssumption
  <2> QED BY <2>1, <2>2, <2>3 DEF BufferInv, RoomOK, FoundOK
<1>14. CASE UNCHANGED vars
  BY <1>14, UserBuffer DEF vars
<1> QED BY <1>1, <1>2, <1>3, <1>4, <1>5, <1>6, <1>7, <1>8, <1>9, <1>10, <1>11, <1>12,
           <1>13, <1>14 DEF Next, SocketSend, GetNextPacket

-----------------------------------------------------------------------------
(* The byte stream of a channel. *)

\* What SocketSend has taken out of the queues and not yet encoded.
Taken ==
    IF sspc = "signal" /\ PacketTotal(found) <= Room THEN Append(packed, found)
    ELSE IF sspc = "overrun" THEN Front(packed) ELSE packed

\* The packets of queue c among those of T, in their order.
Of(T, c) == Selection(T, {p \in Packet : p.q = c})

\* The place in the byte stream at which a packet ends.
End(p) == p.off + (IF p.kind = "data" THEN p.len ELSE 0)

Start(s, b, i) == IF i <= Len(s) THEN s[i].off ELSE b

\* The packets of s carry the bytes from a up to b: each begins where the one
\* before it ends.
Bytes(s, a, b) ==
    /\ Start(s, b, 1) = a
    /\ \A i \in 1 .. Len(s) : End(s[i]) = Start(s, b, i + 1)
    /\ \A i, j \in 1 .. Len(s) + 1 : i <= j => Start(s, b, i) <= Start(s, b, j)

\* They hold the control packets of rank m + 1 up to n, once and in order.
Ranks(s, m, n) ==
    /\ \A i \in 1 .. Len(s) : s[i].kind # "data" => m < s[i].n /\ s[i].n <= n
    /\ \A i, j \in 1 .. Len(s) :
          i < j /\ s[i].kind # "data" /\ s[j].kind # "data" => s[i].n < s[j].n
    /\ \A k \in m + 1 .. n : \E i \in 1 .. Len(s) : s[i].kind # "data" /\ s[i].n = k

\* A packet of queue c that was accepted, or a piece of one; A[n] is the place of the
\* control packet of rank n.
Accepted(c, A) ==
    {p \in Packet : /\ p.q = c
                    /\ p.kind = "data" => p.n = 0 /\ p.len \in 1 .. MaxBytes
                    /\ p.kind # "data" => p.n \in 1 .. Len(A) /\ p.off = A[p.n]}

\* One that the peer takes.
Sendable(c, A) == {p \in Accepted(c, A) : p.kind = "data" => p.len <= MaxPacketRemote}

\* SocketSend holds O of queue c, and Q is in the queue.  O leads from the s bytes
\* and x control packets sent to the g bytes charged, Q from there to the a bytes
\* and the control packets A accepted.
Line(c, O, Q, s, x, g, a, A) ==
    /\ O \in Seq(Sendable(c, A)) /\ Q \in Seq(Accepted(c, A))
    /\ Bytes(O, s, g) /\ Bytes(Q, g, a)
    /\ \E m \in x .. Len(A) : Ranks(O, x, m) /\ Ranks(Q, m, Len(A))

LineInv ==
    \A c \in Queues : Line(c, Of(Taken, c), queue[c], sent[c], ctlSent[c],
                          granted[c] - window[c], accepted[c], ctlAt[c])

\* The packet looked at is small enough for the peer.
TakeSmall == sspc = "take" => Head(queue[current]).len <= MaxPacketRemote

\* The data a thread waits to queue is within the bound on a call.
CallSmall ==
    \A t \in Threads : pc[t] # "idle" /\ request[t].kind = "data"
        => request[t].len \in 1 .. MaxBytes

StreamInv == LineInv /\ TakeSmall /\ CallSmall

-----------------------------------------------------------------------------
(* Sequences of packets as pieces of a byte stream. *)

LEMMA EndType ==
    ASSUME NEW p \in Packet
    PROVE  End(p) \in Nat /\ p.off \in Nat /\ p.off <= End(p)
  BY DEF End, Packet

LEMMA StartType ==
    ASSUME NEW s \in Seq(Packet), NEW b \in Nat, NEW i \in 1 .. Len(s) + 1
    PROVE  Start(s, b, i) \in Nat
  BY EndType DEF Start

LEMMA BytesEmpty ==
    ASSUME NEW a \in Nat
    PROVE  Bytes(<<>>, a, a)
  BY DEF Bytes, Start

LEMMA BytesSingle ==
    ASSUME NEW p \in Packet
    PROVE  Bytes(<<p>>, p.off, End(p))
<1> DEFINE s == <<p>>
<1>1. Len(s) = 1 /\ s[1] = p
  OBVIOUS
<1> HIDE DEF s
<1>2. Start(s, End(p), 1) = p.off /\ Start(s, End(p), 2) = End(p)
  BY <1>1 DEF Start
<1>3. p.off \in Nat /\ End(p) \in Nat /\ p.off <= End(p)
  BY EndType
<1>4. Bytes(s, p.off, End(p))
  <2>1. \A i \in 1 .. Len(s) : End(s[i]) = Start(s, End(p), i + 1)
    BY <1>1, <1>2
  <2>2. ASSUME NEW i \in 1 .. Len(s) + 1, NEW j \in 1 .. Len(s) + 1, i <= j
        PROVE  Start(s, End(p), i) <= Start(s, End(p), j)
    <3>1. (i = 1 \/ i = 2) /\ (j = 1 \/ j = 2) /\ i <= j
      BY <1>1, <2>2
    <3> QED BY <3>1, <1>2, <1>3
  <2> QED BY <1>2, <2>1, <2>2 DEF Bytes
<1> QED BY <1>4 DEF s

\* What begins where something else ends continues it.
LEMMA BytesConcat ==
    ASSUME NEW s \in Seq(Packet), NEW t \in Seq(Packet), NEW a \in Nat, NEW b \in Nat,
           NEW c \in Nat, Bytes(s, a, b), Bytes(t, b, c)
    PROVE  Bytes(s \o t, a, c)
<1> DEFINE u == s \o t  n == Len(s)  m == Len(t)
<1>1. /\ u \in Seq(Packet) /\ Len(u) = n + m /\ n \in Nat /\ m \in Nat
      /\ \A i \in 1 .. n : u[i] = s[i]
      /\ \A i \in n + 1 .. n + m : u[i] = t[i - n]
  BY ConcatProperties
<1> HIDE DEF u
<1>2. ASSUME NEW i \in 1 .. n + 1 PROVE Start(u, c, i) = Start(s, b, i)
  <2>1. CASE i <= n
    BY <1>1, <2>1 DEF Start
  <2>2. CASE i = n + 1
    <3>1. Start(s, b, i) = b
      BY <1>1, <2>2 DEF Start, n
    <3>2. Start(t, c, 1) = b
      BY DEF Bytes
    <3>3. Start(u, c, i) = Start(t, c, 1)
      <4>1. CASE m = 0
        <5>1. ~(i <= Len(u)) /\ ~(1 <= Len(t))
          BY <4>1, <1>1, <2>2
        <5> QED BY <5>1 DEF Start
      <4>2. CASE m # 0
        <5>1. i <= Len(u) /\ 1 <= Len(t) /\ i \in n + 1 .. n + m /\ i - n = 1
          BY <4>2, <1>1, <2>2
        <5>2. u[i] = t[1]
          BY <5>1, <1>1
        <5> QED BY <5>1, <5>2 DEF Start
      <4> QED BY <4>1, <4>2
    <3> QED BY <3>1, <3>2, <3>3
  <2> QED BY <1>1, <2>1, <2>2
<1>3. ASSUME NEW i \in n + 1 .. n + m + 1 PROVE Start(u, c, i) = Start(t, c, i - n)
  BY <1>1 DEF Start
<1>4. /\ \A i \in 1 .. n : End(s[i]) = Start(s, b, i + 1)
      /\ \A i, j \in 1 .. n + 1 : i <= j => Start(s, b, i) <= Start(s, b, j)
      /\ Start(s, b, 1) = a
  BY DEF Bytes
<1>5. /\ \A i \in 1 .. m : End(t[i]) = Start(t, c, i + 1)
      /\ \A i, j \in 1 .. m + 1 : i <= j => Start(t, c, i) <= Start(t, c, j)
      /\ Start(t, c, 1) = b
  BY DEF Bytes
<1> HIDE DEF n, m
<1>6. Start(u, c, 1) = a
  BY <1>1, <1>2, <1>4
<1>7. ASSUME NEW i \in 1 .. n + m PROVE End(u[i]) = Start(u, c, i + 1)
  <2>1. CASE i <= n
    <3>1. i \in 1 .. n /\ i + 1 \in 1 .. n + 1
      BY <1>1, <2>1
    <3> QED BY <3>1, <1>1, <1>2, <1>4
  <2>2. CASE ~ (i <= n)
    <3>1. i - n \in 1 .. m /\ i \in n + 1 .. n + m /\ i + 1 \in n + 1 .. n + m + 1
            /\ (i + 1) - n = (i - n) + 1
      BY <1>1, <2>2
    <3>2. End(t[i - n]) = Start(t, c, (i - n) + 1)
      BY <3>1, <1>5
    <3>3. Start(u, c, i + 1) = Start(t, c, (i + 1) - n)
      BY <3>1, <1>3
    <3> QED BY <3>1, <3>2, <3>3, <1>1
  <2> QED BY <2>1, <2>2
<1>8. ASSUME NEW i \in 1 .. n + m + 1, NEW j \in 1 .. n + m + 1, i <= j
      PROVE  Start(u, c, i) <= Start(u, c, j)
  <2>1. CASE j <= n
    <3>1. i \in 1 .. n + 1 /\ j \in 1 .. n + 1
      BY SMTT(30), <1>1, <1>8, <2>1
    <3> QED BY <3>1, <1>2, <1>4, <1>8
  <2>2. CASE n < i
    <3>1. /\ i \in n + 1 .. n + m + 1 /\ j \in n + 1 .. n + m + 1
          /\ i - n \in 1 .. m + 1 /\ j - n \in 1 .. m + 1 /\ i - n <= j - n
      BY SMTT(30), <1>1, <1>8, <2>2
    <3> QED BY <3>1, <1>3, <1>5
  <2>3. CASE i <= n /\ n < j
    <3>1. /\ i \in 1 .. n + 1 /\ n + 1 \in 1 .. n + 1 /\ i <= n + 1
          /\ j \in n + 1 .. n + m + 1 /\ j - n \in 1 .. m + 1 /\ 1 \in 1 .. m + 1
          /\ 1 <= j - n
      BY SMTT(30), <1>1, <2>3
    <3>2. Start(u, c, i) <= Start(u, c, n + 1)
      BY <3>1, <1>2, <1>4
    <3>3. Start(t, c, 1) <= Start(t, c, j - n)
      BY <3>1, <1>5
    <3>4. Start(u, c, n + 1) = Start(t, c, 1) /\ Start(u, c, j) = Start(t, c, j - n)
      <4>1. n + 1 \in n + 1 .. n + m + 1 /\ (n + 1) - n = 1
        BY <1>1
      <4> QED BY <4>1, <3>1, <1>3
    <3>5. /\ Start(u, c, i) \in Nat /\ Start(u, c, n + 1) \in Nat /\ Start(u, c, j) \in Nat
      BY <3>1, <1>1, StartType
    <3> QED BY <3>2, <3>3, <3>4, <3>5
  <2> QED BY <1>1, <2>1, <2>2, <2>3
<1>9. Bytes(u, a, c)
  BY <1>1, <1>6, <1>7, <1>8 DEF Bytes
<1> QED BY <1>9 DEF u

LEMMA BytesTail ==
    ASSUME NEW s \in Seq(Packet), s # <<>>, NEW a \in Nat, NEW b \in Nat, Bytes(s, a, b)
    PROVE  /\ Head(s).off = a
           /\ End(Head(s)) <= b
           /\ Bytes(Tail(s), End(Head(s)), b)
<1> DEFINE t == Tail(s)  n == Len(t)
<1>1. /\ t \in Seq(Packet) /\ Len(s) = n + 1 /\ n \in Nat /\ Head(s) = s[1]
      /\ \A i \in 1 .. n : t[i] = s[i + 1]
  OBVIOUS
<1> HIDE DEF t
<1>2. /\ \A i \in 1 .. n + 1 : End(s[i]) = Start(s, b, i + 1)
      /\ \A i, j \in 1 .. n + 2 : i <= j => Start(s, b, i) <= Start(s, b, j)
      /\ Start(s, b, 1) = a
  BY <1>1 DEF Bytes
<1>3. \A i \in 1 .. n + 1 : Start(t, b, i) = Start(s, b, i + 1)
  BY <1>1 DEF Start
<1> HIDE DEF n
<1>4. s[1].off = a
  BY <1>1, <1>2 DEF Start
<1>5. End(s[1]) = Start(s, b, 2)
  BY <1>1, <1>2
<1>6. Start(s, b, 2) <= Start(s, b, n + 2) /\ Start(s, b, n + 2) = b
  <2>1. Start(s, b, n + 2) = b
    BY <1>1 DEF Start
  <2>2. 2 \in 1 .. n + 2 /\ n + 2 \in 1 .. n + 2 /\ 2 <= n + 2
    BY <1>1
  <2> QED BY <1>2, <2>1, <2>2
<1>7. Bytes(t, End(s[1]), b)
  <2>1. Start(t, b, 1) = End(s[1])
    BY <1>1, <1>3, <1>5
  <2>2. ASSUME NEW i \in 1 .. n PROVE End(t[i]) = Start(t, b, i + 1)
    <3>1. i + 1 \in 1 .. n + 1
      BY <1>1
    <3>2. End(s[i + 1]) = Start(s, b, (i + 1) + 1)
      BY <3>1, <1>2
    <3> QED BY <3>1, <3>2, <1>1, <1>3
  <2>3. ASSUME NEW i \in 1 .. n + 1, NEW j \in 1 .. n + 1, i <= j
        PROVE  Start(t, b, i) <= Start(t, b, j)
    <3>1. i + 1 \in 1 .. n + 2 /\ j + 1 \in 1 .. n + 2 /\ i + 1 <= j + 1
      BY <1>1, <2>3
    <3>2. Start(s, b, i + 1) <= Start(s, b, j + 1)
      BY <3>1, <1>2
    <3> QED BY <3>2, <1>3
  <2>4. Len(t) = n
    BY DEF n
  <2> QED BY <2>1, <2>2, <2>3, <2>4 DEF Bytes
<1> QED BY <1>1, <1>4, <1>5, <1>6, <1>7 DEF t

LEMMA BytesAppend ==
    ASSUME NEW s \in Seq(Packet), NEW p \in Packet, NEW a \in Nat, Bytes(s, a, p.off)
    PROVE  Bytes(Append(s, p), a, End(p))
<1>1. Append(s, p) = s \o <<p>> /\ <<p>> \in Seq(Packet)
  OBVIOUS
<1>2. Bytes(<<p>>, p.off, End(p)) /\ p.off \in Nat /\ End(p) \in Nat
  BY BytesSingle, EndType
<1> DEFINE t == <<p>>
<1> HIDE DEF t
<1>3. Bytes(s \o t, a, End(p))
  BY <1>1, <1>2, BytesConcat DEF t
<1> QED BY <1>1, <1>3 DEF t

(* The ranks of the control packets among them. *)

LEMMA RanksNone ==
    ASSUME NEW s \in Seq(Packet), NEW m \in Nat, \A i \in 1 .. Len(s) : s[i].kind = "data"
    PROVE  Ranks(s, m, m)
  BY DEF Ranks

LEMMA RanksSingle ==
    ASSUME NEW p \in Packet, p.kind # "data", NEW m \in Nat, p.n = m + 1
    PROVE  Ranks(<<p>>, m, m + 1)
<1> DEFINE s == <<p>>
<1>1. Len(s) = 1 /\ s[1] = p
  OBVIOUS
<1> HIDE DEF s
<1>2. \A i \in 1 .. Len(s) : i = 1
  BY <1>1
<1>3. \A k \in m + 1 .. m + 1 : k = m + 1
  OBVIOUS
<1>4. Ranks(s, m, m + 1)
  BY <1>1, <1>2, <1>3 DEF Ranks
<1> QED BY <1>4 DEF s

LEMMA RanksConcat ==
    ASSUME NEW s \in Seq(Packet), NEW t \in Seq(Packet), NEW m \in Nat, NEW k \in Nat,
           NEW n \in Nat, m <= k, k <= n, Ranks(s, m, k), Ranks(t, k, n)
    PROVE  Ranks(s \o t, m, n)
<1> DEFINE u == s \o t  x == Len(s)  y == Len(t)
<1>1. /\ u \in Seq(Packet) /\ Len(u) = x + y /\ x \in Nat /\ y \in Nat
      /\ \A i \in 1 .. x : u[i] = s[i]
      /\ \A i \in x + 1 .. x + y : u[i] = t[i - x]
  BY ConcatProperties
<1>2. /\ \A i \in 1 .. x : s[i].kind # "data" => m < s[i].n /\ s[i].n <= k
      /\ \A i, j \in 1 .. x :
            i < j /\ s[i].kind # "data" /\ s[j].kind # "data" => s[i].n < s[j].n
      /\ \A r \in m + 1 .. k : \E i \in 1 .. x : s[i].kind # "data" /\ s[i].n = r
  BY DEF Ranks
<1>3. /\ \A i \in 1 .. y : t[i].kind # "data" => k < t[i].n /\ t[i].n <= n
      /\ \A i, j \in 1 .. y :
            i < j /\ t[i].kind # "data" /\ t[j].kind # "data" => t[i].n < t[j].n
      /\ \A r \in k + 1 .. n : \E i \in 1 .. y : t[i].kind # "data" /\ t[i].n = r
  BY DEF Ranks
<1> HIDE DEF u, x, y
<1>0. ASSUME NEW i \in 1 .. x + y PROVE u[i].n \in Nat
  <2>1. i \in 1 .. Len(u)
    BY <1>1
  <2>2. u[i] \in Packet
    BY <1>1, <2>1, ElementOfSeq
  <2> QED BY <2>2 DEF Packet
<1>4. ASSUME NEW i \in 1 .. x + y, u[i].kind # "data" PROVE m < u[i].n /\ u[i].n <= n
  <2>1. CASE i <= x
    <3>1. u[i] = s[i] /\ i \in 1 .. x
      BY <1>1, <2>1
    <3>2. m < s[i].n /\ s[i].n <= k
      BY <3>1, <1>2, <1>4
    <3> QED BY <3>1, <3>2, <1>0
  <2>2. CASE ~ (i <= x)
    <3>1. u[i] = t[i - x] /\ i - x \in 1 .. y
      BY <1>1, <2>2
    <3>2. k < t[i - x].n /\ t[i - x].n <= n
      BY <3>1, <1>3, <1>4
    <3> QED BY <3>1, <3>2, <1>0
  <2> QED BY <2>1, <2>2
<1>5. ASSUME NEW i \in 1 .. x + y, NEW j \in 1 .. x + y, i < j,
             u[i].kind # "data", u[j].kind # "data"
      PROVE  u[i].n < u[j].n
  <2>0. i \in 1 .. x + y /\ j \in 1 .. x + y /\ i < j
    BY <1>5
  <2>1. CASE j <= x
    <3>1. u[i] = s[i] /\ i \in 1 .. x /\ u[j] = s[j] /\ j \in 1 .. x
      BY <1>1, <2>0, <2>1
    <3> QED BY <3>1, <2>0, <1>2, <1>5
  <2>2. CASE x < i
    <3>1. /\ i \in x + 1 .. x + y /\ i - x \in 1 .. y
          /\ j \in x + 1 .. x + y /\ j - x \in 1 .. y
          /\ i - x < j - x
      BY <1>1, <2>0, <2>2
    <3>2. u[i] = t[i - x] /\ u[j] = t[j - x]
      BY <1>1, <3>1
    <3> QED BY <3>1, <3>2, <1>3, <1>5
  <2>3. CASE i <= x /\ x < j
    <3>1. u[i] = s[i] /\ i \in 1 .. x /\ u[j] = t[j - x] /\ j - x \in 1 .. y
      BY <1>1, <2>0, <2>3
    <3>2. s[i].n <= k /\ k < t[j - x].n
      BY <3>1, <1>2, <1>3, <1>5
    <3>3. u[i].n \in Nat /\ u[j].n \in Nat
      BY <2>0, <1>0
    <3> QED BY SMTT(30), <3>1, <3>2, <3>3
  <2> QED BY <1>1, <2>0, <2>1, <2>2, <2>3
<1>6. ASSUME NEW r \in m + 1 .. n PROVE \E i \in 1 .. x + y : u[i].kind # "data" /\ u[i].n = r
  <2>1. CASE r <= k
    <3>1. PICK i \in 1 .. x : s[i].kind # "data" /\ s[i].n = r
      BY <1>2, <2>1
    <3>2. i \in 1 .. x + y /\ u[i] = s[i]
      BY <1>1
    <3> QED BY <3>1, <3>2
  <2>2. CASE ~ (r <= k)
    <3>1. PICK i \in 1 .. y : t[i].kind # "data" /\ t[i].n = r
      BY <1>3, <2>2
    <3>2. x + i \in x + 1 .. x + y /\ x + i \in 1 .. x + y /\ (x + i) - x = i
      BY <1>1
    <3>3. u[x + i] = t[i]
      BY <1>1, <3>2
    <3> QED BY <3>1, <3>2, <3>3
  <2> QED BY <2>1, <2>2
<1>7. Ranks(u, m, n)
  BY <1>1, <1>4, <1>5, <1>6 DEF Ranks
<1> QED BY <1>7 DEF u

LEMMA RanksAppend ==
    ASSUME NEW s \in Seq(Packet), NEW p \in Packet, NEW m \in Nat, NEW n \in Nat, m <= n,
           Ranks(s, m, n)
    PROVE  /\ p.kind = "data" => Ranks(Append(s, p), m, n)
           /\ p.kind # "data" /\ p.n = n + 1 => Ranks(Append(s, p), m, n + 1)
<1> DEFINE t == <<p>>
<1>1. Append(s, p) = s \o t /\ t \in Seq(Packet) /\ Len(t) = 1 /\ t[1] = p
  OBVIOUS
<1>2. p.kind # "data" /\ p.n = n + 1 => Ranks(t, n, n + 1)
  BY RanksSingle
<1> HIDE DEF t
<1>3. p.kind = "data" => Ranks(t, n, n)
  <2>1. \A i \in 1 .. Len(t) : t[i] = p
    BY <1>1
  <2> QED BY <1>1, <2>1, RanksNone
<1>4. p.kind = "data" => Ranks(s \o t, m, n)
  BY <1>1, <1>3, RanksConcat
<1>5. p.kind # "data" /\ p.n = n + 1 => Ranks(s \o t, m, n + 1)
  <2>1. n + 1 \in Nat /\ n <= n + 1
    OBVIOUS
  <2> QED BY <1>1, <1>2, <2>1, RanksConcat
<1> QED BY <1>1, <1>4, <1>5

LEMMA RanksTail ==
    ASSUME NEW s \in Seq(Packet), s # <<>>, NEW m \in Nat, NEW n \in Nat, m <= n,
           Ranks(s, m, n)
    PROVE  /\ Head(s).kind = "data" => Ranks(Tail(s), m, n)
           /\ Head(s).kind # "data" =>
                Head(s).n = m + 1 /\ m + 1 <= n /\ Ranks(Tail(s), m + 1, n)
<1> DEFINE t == Tail(s)  x == Len(t)
<1>1. /\ t \in Seq(Packet) /\ Len(s) = x + 1 /\ x \in Nat /\ Head(s) = s[1]
      /\ \A i \in 1 .. x : t[i] = s[i + 1]
  OBVIOUS
<1> HIDE DEF t
<1>2. /\ \A i \in 1 .. x + 1 : s[i].kind # "data" => m < s[i].n /\ s[i].n <= n
      /\ \A i, j \in 1 .. x + 1 :
            i < j /\ s[i].kind # "data" /\ s[j].kind # "data" => s[i].n < s[j].n
      /\ \A r \in m + 1 .. n : \E i \in 1 .. x + 1 : s[i].kind # "data" /\ s[i].n = r
  BY <1>1 DEF Ranks
<1>3. Len(t) = x
  BY DEF x
<1> HIDE DEF x
<1>4. ASSUME NEW i \in 1 .. x + 1 PROVE s[i].n \in Nat
  <2>1. i \in 1 .. Len(s)
    BY <1>1
  <2>2. s[i] \in Packet
    BY <2>1, ElementOfSeq
  <2> QED BY <2>2 DEF Packet
<1>5. \A i \in 1 .. x : i + 1 \in 1 .. x + 1 /\ 1 < i + 1
  BY <1>1
<1>6. \A i, j \in 1 .. x :
         i < j /\ t[i].kind # "data" /\ t[j].kind # "data" => t[i].n < t[j].n
  BY <1>1, <1>2, <1>5
<1>7. \A i \in 1 .. x + 1 : i # 1 => i - 1 \in 1 .. x /\ t[i - 1] = s[i]
  BY <1>1
<1>8. CASE s[1].kind = "data"
  <2>1. \A i \in 1 .. x : t[i].kind # "data" => m < t[i].n /\ t[i].n <= n
    BY <1>1, <1>2, <1>5
  <2>2. ASSUME NEW r \in m + 1 .. n PROVE \E i \in 1 .. x : t[i].kind # "data" /\ t[i].n = r
    <3>1. PICK i \in 1 .. x + 1 : s[i].kind # "data" /\ s[i].n = r
      BY <1>2
    <3>2. i # 1
      BY <3>1, <1>8
    <3> QED BY <3>1, <3>2, <1>7
  <2>3. Ranks(t, m, n)
    BY <1>3, <1>6, <2>1, <2>2 DEF Ranks
  <2> QED BY <1>1, <1>8, <2>3 DEF t
<1>9. CASE s[1].kind # "data"
  <2>0. 1 \in 1 .. x + 1
    BY <1>1
  <2>1. m < s[1].n /\ s[1].n <= n /\ s[1].n \in Nat
    BY <2>0, <1>2, <1>4, <1>9
  <2>2. s[1].n = m + 1
    <3>1. m + 1 \in m + 1 .. n
      BY <2>1
    <3>2. PICK i \in 1 .. x + 1 : s[i].kind # "data" /\ s[i].n = m + 1
      BY <3>1, <1>2
    <3>3. CASE i = 1
      BY <3>2, <3>3
    <3>4. CASE i # 1
      <4>1. 1 < i
        BY <3>4
      <4>2. s[1].n < s[i].n
        BY <4>1, <2>0, <1>2, <1>9, <3>2
      <4> QED BY <4>2, <3>2, <2>1
    <3> QED BY <3>3, <3>4
  <2>3. ASSUME NEW i \in 1 .. x, t[i].kind # "data" PROVE m + 1 < t[i].n /\ t[i].n <= n
    <3>1. t[i] = s[i + 1] /\ i + 1 \in 1 .. x + 1 /\ 1 < i + 1
      BY <1>1, <1>5
    <3>2. s[1].n < s[i + 1].n /\ s[i + 1].n <= n
      BY <3>1, <2>0, <2>3, <1>2, <1>9
    <3> QED BY <3>1, <3>2, <2>2
  <2>4. ASSUME NEW r \in (m + 1) + 1 .. n
        PROVE  \E i \in 1 .. x : t[i].kind # "data" /\ t[i].n = r
    <3>1. r \in m + 1 .. n /\ r # m + 1
      OBVIOUS
    <3>2. PICK i \in 1 .. x + 1 : s[i].kind # "data" /\ s[i].n = r
      BY <3>1, <1>2
    <3>3. i # 1
      BY <3>1, <3>2, <2>2
    <3> QED BY <3>2, <3>3, <1>7
  <2>5. Ranks(t, m + 1, n)
    BY <1>3, <1>6, <2>3, <2>4 DEF Ranks
  <2> QED BY <1>1, <1>9, <2>1, <2>2, <2>5 DEF t
<1> QED BY <1>1, <1>8, <1>9

(* Splitting a packet. *)

\* The number of packets of at most b bytes that a bytes need.
LEMMA PieceCount ==
    ASSUME NEW a \in Nat \ {0}, NEW b \in Nat \ {0}
    PROVE  LET n == (a + b - 1) \div b
           IN  n \in Nat /\ n >= 1 /\ (n - 1) * b < a /\ a <= n * b
<1> DEFINE d == a + b - 1  n == d \div b
<1>1. d \in Nat /\ d >= b
  OBVIOUS
<1> HIDE DEF d
<1>2. n \in Nat /\ b * n <= d
  BY <1>1, DivBound
<1>3. d < b * n + b
  BY <1>1, SMT
<1>4. n * b = b * n /\ n * b \in Nat
  BY <1>2, ProductNat
<1>5. n >= 1
  <2>1. n # 0
    <3> SUFFICES ASSUME n = 0 PROVE FALSE
      OBVIOUS
    <3>1. b * n = 0
      BY SMT
    <3> QED BY <3>1, <1>1, <1>3
  <2> QED BY <2>1, <1>2
<1>6. (n - 1) * b = n * b - b
  <2>1. n \in Int /\ b \in Int
    BY <1>2
  <2> HIDE DEF n
  <2> QED BY <2>1, SMT
<1> DEFINE z == n * b  y == (n - 1) * b
<1>7. z \in Nat /\ z <= d /\ d < z + b /\ y = z - b /\ d = a + b - 1
  BY <1>2, <1>3, <1>4, <1>6 DEF d
<1> HIDE DEF z, y
<1>8. y < a /\ a <= z
  BY <1>7
<1> QED BY <1>2, <1>5, <1>8 DEF z, y, d

\* The distances at which packets of b bytes begin.
LEMMA Multiples ==
    ASSUME NEW b \in Nat
    PROVE  \A i \in Nat \ {0} : (i - 1) * b \in Nat /\ ((i + 1) - 1) * b = (i - 1) * b + b
<1> SUFFICES ASSUME NEW i \in Nat \ {0}
             PROVE  (i - 1) * b \in Nat /\ ((i + 1) - 1) * b = (i - 1) * b + b
  OBVIOUS
<1> DEFINE k == i - 1
<1>1. k \in Nat /\ (i + 1) - 1 = k + 1
  OBVIOUS
<1> HIDE DEF k
<1>2. k * b \in Nat
  BY <1>1, ProductNat
<1>3. (k + 1) * b = k * b + b
  BY <1>1, SMT
<1> QED BY <1>1, <1>2, <1>3 DEF k

LEMMA PiecesBytes ==
    ASSUME NEW p \in Packet, p.kind = "data", NEW first \in Nat, first >= 1, first < p.len
    PROVE  /\ Bytes(Pieces(p, first), p.off, End(p))
           /\ \A i \in 1 .. Len(Pieces(p, first)) :
                 LET r == Pieces(p, first)[i]
                 IN  /\ r \in Packet /\ r.q = p.q /\ r.kind = "data" /\ r.n = p.n
                     /\ r.len \in 1 .. p.len
<1> DEFINE M == MaxPacketRemote
           rest == p.len - first
           count == (rest + M - 1) \div M
           mult(i) == (i - 1) * M
           offset(i) == first + mult(i)
           piece(i) == [p EXCEPT !.off = p.off + offset(i),
                                 !.len = Smaller(M, p.len - offset(i))]
           base == p.off + first
<1>1. /\ p.len \in Nat /\ p.off \in Nat /\ rest \in Nat \ {0} /\ M \in Nat \ {0}
      /\ base \in Nat /\ End(p) = base + rest /\ p.len = first + rest
  <2>1. p.len \in Nat /\ p.off \in Nat /\ M \in Nat \ {0} /\ End(p) = p.off + p.len
    BY ConstantsType DEF Packet, End
  <2> HIDE DEF M
  <2> QED BY <2>1
<1>2. /\ count \in Nat /\ count >= 1 /\ mult(count) < rest
      /\ rest <= count * M
  <2> HIDE DEF rest, M
  <2> QED BY <1>1, PieceCount
<1>3. \A i \in Nat \ {0} : mult(i) \in Nat /\ mult(i + 1) = mult(i) + M
  BY <1>1, Multiples
<1>4. rest <= mult(count) + M
  <2>1. mult(count + 1) = count * M
    <3>1. (count + 1) - 1 = count
      BY <1>2
    <3> QED BY <3>1
  <2>2. mult(count + 1) = mult(count) + M
    BY <1>2, <1>3
  <2> QED BY <1>2, <2>1, <2>2
<1>5. \A i, j \in Nat \ {0} : i <= j => mult(i) <= mult(j)
  <2> SUFFICES ASSUME NEW i \in Nat \ {0}, NEW j \in Nat \ {0}, i <= j
               PROVE  mult(i) <= mult(j)
    OBVIOUS
  <2>1. i - 1 \in Nat /\ j - 1 \in Nat /\ i - 1 <= j - 1
    OBVIOUS
  <2> HIDE DEF M
  <2>2. (i - 1) * M <= (j - 1) * M
    BY <1>1, <2>1, ProductMonotone
  <2> QED BY <2>2
<1>6. mult(1) = 0
  <2>1. 1 - 1 = 0 /\ 0 * M = 0
    BY <1>1
  <2> QED BY <2>1
<1> HIDE DEF mult, rest, count, M
<1>7. ASSUME NEW i \in 1 .. count
      PROVE  mult(i) \in Nat /\ mult(i) < rest
  <2>1. i \in Nat \ {0} /\ count \in Nat \ {0} /\ i <= count
    BY <1>2
  <2>2. mult(i) <= mult(count) /\ mult(i) \in Nat /\ mult(count) \in Nat
    BY <2>1, <1>3, <1>5
  <2> QED BY <2>2, <1>1, <1>2
<1>8. ASSUME NEW i \in 1 .. count, i < count
      PROVE  mult(i) + M < rest
  <2>1. i + 1 \in 1 .. count
    BY <1>8, <1>2
  <2>2. mult(i + 1) = mult(i) + M
    BY <1>3
  <2> QED BY <1>7, <2>1, <2>2
<1>9. ASSUME NEW i \in 1 .. count
      PROVE  /\ piece(i) \in Packet /\ piece(i).q = p.q /\ piece(i).kind = "data"
             /\ piece(i).n = p.n
             /\ piece(i).len \in 1 .. p.len
             /\ piece(i).off = base + mult(i)
             /\ End(piece(i)) = IF i < count THEN base + mult(i + 1) ELSE base + rest
  <2> DEFINE off == p.off + offset(i)  len == Smaller(M, p.len - offset(i))
  <2>1. /\ off = base + mult(i) /\ off \in Nat /\ p.len - offset(i) = rest - mult(i)
    BY <1>1, <1>7
  <2>2. rest - mult(i) \in Nat /\ rest - mult(i) >= 1
    BY <1>1, <1>7
  <2>3. len \in Nat /\ len >= 1 /\ len <= rest - mult(i)
        /\ len = IF M <= rest - mult(i) THEN M ELSE rest - mult(i)
    <3>1. len = IF M <= rest - mult(i) THEN M ELSE rest - mult(i)
      BY <2>1 DEF Smaller
    <3> QED BY <3>1, <2>2, <1>1
  <2>4. /\ piece(i) \in Packet /\ piece(i).q = p.q /\ piece(i).kind = "data"
        /\ piece(i).n = p.n
        /\ piece(i).len = len /\ piece(i).off = off
    <3> HIDE DEF off, len
    <3>1. piece(i) = [p EXCEPT !.off = off, !.len = len]
      BY Zenon DEF off, len
    <3> HIDE DEF piece
    <3> QED BY <2>1, <2>3, <3>1 DEF Packet
  <2>5. len \in 1 .. p.len
    BY <2>3, <1>1, <1>7
  <2>6. End(piece(i)) = off + len
    BY <2>4 DEF End
  <2>7. CASE i < count
    <3>1. len = M
      BY <2>3, <1>8, <2>7, <1>7, <1>1
    <3>2. mult(i + 1) = mult(i) + M
      BY <1>3
    <3>3. off + len = base + mult(i + 1)
      BY <3>1, <3>2, <2>1, <1>1, <1>7
    <3> QED BY <2>4, <2>5, <2>6, <2>7, <3>3, <2>1
  <2>8. CASE ~ (i < count)
    <3>1. i = count
      BY <2>8, <1>2
    <3>2. len = rest - mult(i)
      BY <2>3, <3>1, <1>4, <1>1, <1>7
    <3>3. off + len = base + rest
      BY <3>2, <2>1, <1>1, <1>7
    <3> QED BY <2>4, <2>5, <2>6, <2>8, <3>3, <2>1
  <2> QED BY <2>7, <2>8
<1> DEFINE h == [p EXCEPT !.len = first]
           head == <<h>>
           tail == [i \in 1 .. count |-> piece(i)]
<1>10. Pieces(p, first) = head \o tail
  BY DEF Pieces, rest, count, mult, M
<1> HIDE DEF piece
<1>11. /\ h \in Packet /\ h.q = p.q /\ h.kind = "data" /\ h.n = p.n /\ h.len = first
       /\ h.off = p.off
       /\ End(h) = base
  BY <1>1 DEF Packet, End
<1> HIDE DEF h
<1>12. tail \in Seq(Packet) /\ Len(tail) = count /\ \A i \in 1 .. count : tail[i] = piece(i)
  BY <1>2, <1>9
<1>13. head \in Seq(Packet) /\ Len(head) = 1 /\ head[1] = h
  BY <1>11
<1>14. Bytes(head, p.off, base)
  BY <1>11, BytesSingle
<1> HIDE DEF head, tail, base
<1>15. Bytes(tail, base, base + rest)
  <2> DEFINE S(i) == Start(tail, base + rest, i)
  <2>1. ASSUME NEW i \in 1 .. count PROVE S(i) = base + mult(i)
    BY <1>9, <1>12 DEF Start
  <2>2. S(count + 1) = base + rest
    BY <1>2, <1>12 DEF Start
  <2>3. S(1) = base
    BY <2>1, <1>1, <1>2, <1>6
  <2> HIDE DEF S
  <2>4. ASSUME NEW i \in 1 .. count PROVE End(tail[i]) = S(i + 1)
    <3>1. End(tail[i]) = IF i < count THEN base + mult(i + 1) ELSE base + rest
      BY <1>9, <1>12
    <3>2. CASE i < count
      <4>1. i + 1 \in 1 .. count
        BY <3>2, <1>2
      <4> QED BY <4>1, <3>1, <3>2, <2>1
    <3>3. CASE ~ (i < count)
      <4>1. i + 1 = count + 1
        BY <3>3, <1>2
      <4> QED BY <4>1, <3>1, <3>3, <2>2
    <3> QED BY <3>2, <3>3
  <2>5. ASSUME NEW i \in 1 .. count + 1, NEW j \in 1 .. count + 1, i <= j
        PROVE  S(i) <= S(j)
    <3>1. CASE j \in 1 .. count
      <4>1. i \in 1 .. count /\ i \in Nat \ {0} /\ j \in Nat \ {0}
        BY <3>1, <2>5, <1>2
      <4>2. mult(i) <= mult(j) /\ mult(i) \in Nat /\ mult(j) \in Nat
        BY <4>1, <1>5, <1>3, <2>5
      <4>3. S(i) = base + mult(i) /\ S(j) = base + mult(j)
        BY <3>1, <4>1, <2>1
      <4> QED BY <4>2, <4>3, <1>1
    <3>2. CASE j = count + 1
      <4>1. CASE i = count + 1
        BY <3>2, <4>1, <2>2, <1>1
      <4>2. CASE i \in 1 .. count
        BY <3>2, <4>2, <2>1, <2>2, <1>7, <1>1
      <4> QED BY <4>1, <4>2, <1>2
    <3> QED BY <3>1, <3>2, <1>2
  <2> QED BY <1>12, <2>3, <2>4, <2>5 DEF Bytes, S
<1>16. Bytes(head \o tail, p.off, base + rest)
  <2>1. base + rest \in Nat
    BY <1>1
  <2> QED BY <1>1, <1>12, <1>13, <1>14, <1>15, <2>1, BytesConcat
<1>16a. /\ Len(head \o tail) = Len(head) + Len(tail)
        /\ \A i \in 1 .. Len(head) : (head \o tail)[i] = head[i]
        /\ \A i \in Len(head) + 1 .. Len(head) + Len(tail) :
              (head \o tail)[i] = tail[i - Len(head)]
  <2>1. head \in Seq(Packet) /\ tail \in Seq(Packet)
    BY <1>12, <1>13
  <2> QED BY <2>1, ConcatProperties
<1>17. ASSUME NEW i \in 1 .. count + 1
       PROVE  LET r == (head \o tail)[i]
              IN  /\ r \in Packet /\ r.q = p.q /\ r.kind = "data" /\ r.n = p.n
                  /\ r.len \in 1 .. p.len
  <2>1. CASE i = 1
    <3>1. (head \o tail)[i] = h
      BY <2>1, <1>13, <1>16a
    <3>2. first \in 1 .. p.len
      BY <1>1
    <3> QED BY <3>1, <3>2, <1>11
  <2>2. CASE i # 1
    <3>1. i - 1 \in 1 .. count /\ i \in Len(head) + 1 .. Len(head) + Len(tail)
      BY <2>2, <1>2, <1>12, <1>13
    <3>2. (head \o tail)[i] = piece(i - 1)
      BY <3>1, <1>12, <1>13, <1>16a
    <3> QED BY <3>1, <3>2, <1>9
  <2> QED BY <2>1, <2>2
<1>18. Len(head \o tail) = count + 1
  BY <1>2, <1>12, <1>13, <1>16a
<1> QED BY <1>1, <1>10, <1>16, <1>17, <1>18

-----------------------------------------------------------------------------
(* One queue, and the packets of it in SocketSend's hands. *)

LEMMA MembersSeq ==
    ASSUME NEW T, NEW s \in Seq(T), NEW S, \A i \in 1 .. Len(s) : s[i] \in S
    PROVE  s \in Seq(S)
<1>1. Len(s) \in Nat /\ s \in [1 .. Len(s) -> T]
  BY LenProperties
<1>2. s \in [1 .. Len(s) -> S]
  BY <1>1
<1> QED BY <1>1, <1>2, SeqDef

LEMMA AcceptedType ==
    ASSUME NEW c, NEW A
    PROVE  /\ Sendable(c, A) \subseteq Accepted(c, A)
           /\ Accepted(c, A) \subseteq Packet
           /\ Seq(Sendable(c, A)) \subseteq Seq(Packet)
           /\ Seq(Accepted(c, A)) \subseteq Seq(Packet)
<1>1. Sendable(c, A) \subseteq Accepted(c, A) /\ Accepted(c, A) \subseteq Packet
  BY DEF Accepted, Sendable
<1>2. \A S, T : S \subseteq T => Seq(S) \subseteq Seq(T)
  OBVIOUS
<1> QED BY <1>1, <1>2

\* What was accepted stays so when more is.
LEMMA AcceptedGrows ==
    ASSUME NEW c, NEW A \in Seq(Nat), NEW a \in Nat
    PROVE  /\ Seq(Accepted(c, A)) \subseteq Seq(Accepted(c, Append(A, a)))
           /\ Seq(Sendable(c, A)) \subseteq Seq(Sendable(c, Append(A, a)))
<1> DEFINE B == Append(A, a)
<1>1. Len(B) = Len(A) + 1 /\ \A i \in 1 .. Len(A) : i \in 1 .. Len(B) /\ B[i] = A[i]
  OBVIOUS
<1> HIDE DEF B
<1>2. Accepted(c, A) \subseteq Accepted(c, B)
  BY <1>1 DEF Accepted
<1>3. Sendable(c, A) \subseteq Sendable(c, B)
  BY <1>2 DEF Sendable
<1>4. \A S, T : S \subseteq T => Seq(S) \subseteq Seq(T)
  OBVIOUS
<1> QED BY <1>2, <1>3, <1>4 DEF B

\* Queue::enqueue of channel data.
LEMMA LineData ==
    ASSUME NEW c, NEW O, NEW Q, NEW s \in Nat, NEW x \in Nat, NEW g \in Nat, NEW a \in Nat,
           NEW A \in Seq(Nat), Line(c, O, Q, s, x, g, a, A),
           NEW p \in Packet, p.q = c, p.kind = "data", p.len \in 1 .. MaxBytes, p.off = a,
           p.n = 0
    PROVE  Line(c, O, Append(Q, p), s, x, g, a + p.len, A)
<1>1. /\ O \in Seq(Sendable(c, A)) /\ Q \in Seq(Accepted(c, A))
      /\ Bytes(O, s, g) /\ Bytes(Q, g, a)
  BY DEF Line
<1>2. PICK m \in x .. Len(A) : Ranks(O, x, m) /\ Ranks(Q, m, Len(A))
  BY DEF Line
<1>3. Q \in Seq(Packet)
  BY <1>1, AcceptedType
<1>4. p \in Accepted(c, A)
  BY DEF Accepted
<1>5. Append(Q, p) \in Seq(Accepted(c, A))
  BY <1>1, <1>4, AppendFacts
<1>6. End(p) = a + p.len
  BY DEF End
<1>7. Bytes(Append(Q, p), g, a + p.len)
  BY <1>1, <1>3, <1>6, BytesAppend
<1>8. Ranks(Append(Q, p), m, Len(A))
  <2>1. m \in Nat /\ Len(A) \in Nat /\ m <= Len(A)
    BY <1>2
  <2> QED BY <2>1, <1>2, <1>3, RanksAppend
<1> QED BY <1>1, <1>2, <1>5, <1>7, <1>8 DEF Line

\* Queue::enqueue of another packet.
LEMMA LineControl ==
    ASSUME NEW c, NEW O, NEW Q, NEW s \in Nat, NEW x \in Nat, NEW g \in Nat, NEW a \in Nat,
           NEW A \in Seq(Nat), Line(c, O, Q, s, x, g, a, A),
           NEW p \in Packet, p.q = c, p.kind # "data", p.off = a, p.n = Len(A) + 1
    PROVE  Line(c, O, Append(Q, p), s, x, g, a, Append(A, a))
<1> DEFINE B == Append(A, a)
<1>0. Len(B) = Len(A) + 1 /\ B[Len(A) + 1] = a /\ Len(A) \in Nat
  OBVIOUS
<1>1. /\ O \in Seq(Sendable(c, A)) /\ Q \in Seq(Accepted(c, A))
      /\ Bytes(O, s, g) /\ Bytes(Q, g, a)
  BY DEF Line
<1>2. PICK m \in x .. Len(A) : Ranks(O, x, m) /\ Ranks(Q, m, Len(A))
  BY DEF Line
<1>3. Q \in Seq(Packet)
  BY <1>1, AcceptedType
<1>4. O \in Seq(Sendable(c, B)) /\ Q \in Seq(Accepted(c, B))
  BY <1>1, AcceptedGrows
<1> HIDE DEF B
<1>5. p \in Accepted(c, B)
  BY <1>0 DEF Accepted
<1>6. Append(Q, p) \in Seq(Accepted(c, B))
  BY <1>4, <1>5, AppendFacts
<1>7. End(p) = a
  BY EndType DEF End
<1>8. Bytes(Append(Q, p), g, a)
  BY <1>1, <1>3, <1>7, BytesAppend
<1>9. Ranks(Append(Q, p), m, Len(B))
  <2>1. m \in Nat /\ Len(A) \in Nat /\ m <= Len(A)
    BY <1>2
  <2> QED BY <2>1, <1>0, <1>2, <1>3, RanksAppend
<1>10. m \in x .. Len(B)
  BY <1>0, <1>2
<1>11. Line(c, O, Append(Q, p), s, x, g, a, B)
  BY <1>1, <1>2, <1>4, <1>6, <1>8, <1>9, <1>10 DEF Line
<1> QED BY <1>11 DEF B

\* Queue::dequeue by getNextPacket.
LEMMA LineTake ==
    ASSUME NEW c, NEW O, NEW Q, NEW s \in Nat, NEW x \in Nat, NEW g \in Nat, NEW a \in Nat,
           NEW A \in Seq(Nat), Line(c, O, Q, s, x, g, a, A), Q # <<>>,
           Head(Q).kind = "data" => Head(Q).len <= MaxPacketRemote
    PROVE  /\ End(Head(Q)) = g + (IF Head(Q).kind = "data" THEN Head(Q).len ELSE 0)
           /\ Line(c, Append(O, Head(Q)), Tail(Q), s, x, End(Head(Q)), a, A)
<1>1. /\ O \in Seq(Sendable(c, A)) /\ Q \in Seq(Accepted(c, A))
      /\ Bytes(O, s, g) /\ Bytes(Q, g, a)
  BY DEF Line
<1>2. PICK m \in x .. Len(A) : Ranks(O, x, m) /\ Ranks(Q, m, Len(A))
  BY DEF Line
<1>3. Q \in Seq(Packet) /\ O \in Seq(Packet)
  BY <1>1, AcceptedType
<1>4. PICK p \in Accepted(c, A) : p = Head(Q)
  BY <1>1
<1>5. PICK R \in Seq(Accepted(c, A)) : R = Tail(Q)
  BY <1>1, HeadTailProperties
<1>6. p \in Packet /\ p \in Sendable(c, A)
  BY <1>4, AcceptedType DEF Sendable
<1>7. /\ p.off = g /\ End(p) <= a /\ Bytes(R, End(p), a)
  BY <1>1, <1>3, <1>4, <1>5, BytesTail
<1>8. Append(O, p) \in Seq(Sendable(c, A))
  BY <1>1, <1>6, AppendFacts
<1>9. Bytes(Append(O, p), s, End(p))
  BY <1>1, <1>3, <1>6, <1>7, BytesAppend
<1>10. m \in Nat /\ Len(A) \in Nat /\ m <= Len(A) /\ x <= m
  BY <1>2
<1>11. \E k \in x .. Len(A) : Ranks(Append(O, p), x, k) /\ Ranks(R, k, Len(A))
  <2>1. CASE p.kind = "data"
    <3>1. Ranks(R, m, Len(A))
      BY <2>1, <1>2, <1>3, <1>4, <1>5, <1>10, RanksTail
    <3>2. Ranks(Append(O, p), x, m)
      BY <2>1, <1>2, <1>3, <1>6, <1>10, RanksAppend
    <3> QED BY <3>1, <3>2
  <2>2. CASE p.kind # "data"
    <3>1. p.n = m + 1 /\ m + 1 <= Len(A) /\ Ranks(R, m + 1, Len(A))
      BY <2>2, <1>2, <1>3, <1>4, <1>5, <1>10, RanksTail
    <3>2. Ranks(Append(O, p), x, m + 1)
      BY <2>2, <3>1, <1>2, <1>3, <1>6, <1>10, RanksAppend
    <3>3. m + 1 \in x .. Len(A)
      BY <3>1, <1>10
    <3> QED BY <3>1, <3>2, <3>3
  <2> QED BY <2>1, <2>2
<1>12. Line(c, Append(O, p), R, s, x, End(p), a, A)
  BY <1>5, <1>7, <1>8, <1>9, <1>11 DEF Line
<1>13. End(p) = g + (IF p.kind = "data" THEN p.len ELSE 0)
  BY <1>7 DEF End
<1> QED BY <1>4, <1>5, <1>12, <1>13

\* Queue::splitFirstPacket.
LEMMA LineSplit ==
    ASSUME NEW c, NEW O, NEW Q, NEW s \in Nat, NEW x \in Nat, NEW g \in Nat, NEW a \in Nat,
           NEW A \in Seq(Nat), Line(c, O, Q, s, x, g, a, A), Q # <<>>,
           Head(Q).kind = "data", NEW first \in Nat, first >= 1, first < Head(Q).len
    PROVE  Line(c, O, Pieces(Head(Q), first) \o Tail(Q), s, x, g, a, A)
<1>1. /\ O \in Seq(Sendable(c, A)) /\ Q \in Seq(Accepted(c, A))
      /\ Bytes(O, s, g) /\ Bytes(Q, g, a)
  BY DEF Line
<1>2. PICK m \in x .. Len(A) : Ranks(O, x, m) /\ Ranks(Q, m, Len(A))
  BY DEF Line
<1>3. Q \in Seq(Packet)
  BY <1>1, AcceptedType
<1>4. PICK p \in Accepted(c, A) : p = Head(Q)
  BY <1>1
<1>5. PICK R \in Seq(Accepted(c, A)) : R = Tail(Q)
  BY <1>1, HeadTailProperties
<1>6. /\ p \in Packet /\ p.kind = "data" /\ p.q = c /\ p.n = 0
      /\ p.len \in 1 .. MaxBytes /\ first < p.len /\ first <= p.len
  <2>1. p \in Packet /\ p.kind = "data" /\ p.q = c /\ p.n = 0 /\ p.len \in 1 .. MaxBytes
    BY <1>4 DEF Accepted
  <2>2. first < p.len
    BY <1>4
  <2> QED BY <2>1, <2>2
<1>7. /\ p.off = g /\ End(p) <= a /\ Bytes(R, End(p), a)
  BY <1>1, <1>3, <1>4, <1>5, BytesTail
<1>8. PICK P \in Seq(Packet) : P = Pieces(p, first)
  BY <1>6, PiecesType
<1>9. /\ Bytes(P, p.off, End(p))
      /\ \A i \in 1 .. Len(P) :
            /\ P[i] \in Packet /\ P[i].q = p.q /\ P[i].kind = "data" /\ P[i].n = p.n
            /\ P[i].len \in 1 .. p.len
  BY SMTT(30), <1>6, <1>8, PiecesBytes
<1>10. P \in Seq(Accepted(c, A))
  <2>1. ASSUME NEW i \in 1 .. Len(P) PROVE P[i] \in Accepted(c, A)
    <3>0. MaxBytes \in Nat
      BY OutboundAssumption
    <3>1. p.len \in 1 .. MaxBytes /\ P[i].len \in 1 .. p.len
      BY <1>6, <1>9
    <3>2. P[i].len \in 1 .. MaxBytes
      BY <3>0, <3>1
    <3> QED BY <3>2, <1>6, <1>9 DEF Accepted
  <2> QED BY <2>1, <1>8, MembersSeq
<1>11. R \in Seq(Packet)
  BY <1>5, AcceptedType
<1>12. Bytes(P \o R, g, a)
  BY <1>6, <1>7, <1>8, <1>9, <1>11, EndType, BytesConcat
<1>13. Ranks(P \o R, m, Len(A))
  <2>1. m \in Nat /\ Len(A) \in Nat /\ m <= Len(A)
    BY <1>2
  <2>2. Ranks(P, m, m)
    BY <2>1, <1>8, <1>9, RanksNone
  <2>3. Ranks(R, m, Len(A))
    BY <2>1, <1>2, <1>3, <1>4, <1>5, <1>6, RanksTail
  <2> QED BY <2>1, <2>2, <2>3, <1>8, <1>11, RanksConcat
<1>14. P \o R \in Seq(Accepted(c, A))
  BY <1>5, <1>10, ConcatProperties
<1>15. Line(c, O, P \o R, s, x, g, a, A)
  BY <1>1, <1>2, <1>12, <1>13, <1>14 DEF Line
<1> QED BY <1>4, <1>5, <1>8, <1>15

\* No byte of a packet that SocketSend holds is in the queue.
LEMMA LineOrder ==
    ASSUME NEW c, NEW O, NEW Q, NEW s \in Nat, NEW x \in Nat, NEW g \in Nat, NEW a \in Nat,
           NEW A \in Seq(Nat), Line(c, O, Q, s, x, g, a, A)
    PROVE  /\ \A i \in 1 .. Len(O) : End(O[i]) <= g
           /\ \A i, j \in 1 .. Len(O) : i < j => End(O[i]) <= O[j].off
           /\ \A j \in 1 .. Len(Q) : g <= Q[j].off
           /\ g <= a
<1>1. O \in Seq(Packet) /\ Q \in Seq(Packet) /\ Bytes(O, s, g) /\ Bytes(Q, g, a)
  BY AcceptedType DEF Line
<1> DEFINE n == Len(O)  k == Len(Q)
<1>2. n \in Nat /\ k \in Nat
  BY <1>1
<1>3. /\ \A i \in 1 .. n : End(O[i]) = Start(O, g, i + 1)
      /\ \A i, j \in 1 .. n + 1 : i <= j => Start(O, g, i) <= Start(O, g, j)
      /\ \A i \in 1 .. n : Start(O, g, i) = O[i].off
      /\ Start(O, g, n + 1) = g
  BY <1>1, <1>2 DEF Bytes, Start
<1>4. /\ Start(Q, a, 1) = g
      /\ \A i, j \in 1 .. k + 1 : i <= j => Start(Q, a, i) <= Start(Q, a, j)
      /\ \A i \in 1 .. k : Start(Q, a, i) = Q[i].off
      /\ Start(Q, a, k + 1) = a
  BY <1>1, <1>2 DEF Bytes, Start
<1> HIDE DEF n, k
<1>5. ASSUME NEW i \in 1 .. n PROVE End(O[i]) <= g
  <2>1. i + 1 \in 1 .. n + 1 /\ n + 1 \in 1 .. n + 1 /\ i + 1 <= n + 1
    BY <1>2
  <2>2. Start(O, g, i + 1) <= Start(O, g, n + 1)
    BY <2>1, <1>3
  <2> QED BY <2>2, <1>3
<1>6. ASSUME NEW i \in 1 .. n, NEW j \in 1 .. n, i < j PROVE End(O[i]) <= O[j].off
  <2>1. i + 1 \in 1 .. n + 1 /\ j \in 1 .. n + 1 /\ i + 1 <= j
    BY <1>2, <1>6
  <2>2. Start(O, g, i + 1) <= Start(O, g, j)
    BY <2>1, <1>3
  <2> QED BY <2>2, <1>3
<1>7. ASSUME NEW j \in 1 .. k PROVE g <= Q[j].off
  <2>1. 1 \in 1 .. k + 1 /\ j \in 1 .. k + 1 /\ 1 <= j
    BY <1>2
  <2>2. Start(Q, a, 1) <= Start(Q, a, j)
    BY <2>1, <1>4
  <2> QED BY <2>2, <1>4
<1>8. g <= a
  <2>1. 1 \in 1 .. k + 1 /\ k + 1 \in 1 .. k + 1 /\ 1 <= k + 1
    BY <1>2
  <2>2. Start(Q, a, 1) <= Start(Q, a, k + 1)
    BY <2>1, <1>4
  <2> QED BY <2>2, <1>4
<1> QED BY <1>5, <1>6, <1>7, <1>8 DEF n, k

\* Encoding the first packet that SocketSend holds of the queue.
LEMMA LineSent ==
    ASSUME NEW c, NEW O, NEW Q, NEW s \in Nat, NEW x \in Nat, NEW g \in Nat, NEW a \in Nat,
           NEW A \in Seq(Nat), Line(c, O, Q, s, x, g, a, A), O # <<>>
    PROVE  /\ Head(O) \in Sendable(c, A) /\ Head(O).off = s
           /\ Head(O).kind = "data" =>
                /\ s + Head(O).len <= g /\ s + Head(O).len <= a
                /\ x < Len(A) => s + Head(O).len <= A[x + 1]
                /\ Line(c, Tail(O), Q, s + Head(O).len, x, g, a, A)
           /\ Head(O).kind # "data" =>
                /\ Head(O).n = x + 1 /\ x < Len(A) /\ A[x + 1] = s
                /\ Line(c, Tail(O), Q, s, x + 1, g, a, A)
<1>1. /\ O \in Seq(Sendable(c, A)) /\ Q \in Seq(Accepted(c, A))
      /\ Bytes(O, s, g) /\ Bytes(Q, g, a)
  BY DEF Line
<1>2. PICK m \in x .. Len(A) : Ranks(O, x, m) /\ Ranks(Q, m, Len(A))
  BY DEF Line
<1>3. Q \in Seq(Packet) /\ O \in Seq(Packet)
  BY <1>1, AcceptedType
<1>4. PICK p \in Sendable(c, A) : p = Head(O)
  BY <1>1
<1>5. PICK R \in Seq(Sendable(c, A)) : R = Tail(O)
  BY <1>1, HeadTailProperties
<1>6. p \in Packet /\ p \in Accepted(c, A)
  BY <1>4, AcceptedType
<1>7. /\ p.off = s /\ End(p) <= g /\ Bytes(R, End(p), g)
  BY <1>1, <1>3, <1>4, <1>5, BytesTail
<1>8. m \in Nat /\ Len(A) \in Nat /\ m <= Len(A) /\ x <= m
  BY <1>2
<1>9. /\ \A i, j \in 1 .. Len(O) : i < j => End(O[i]) <= O[j].off
      /\ \A j \in 1 .. Len(Q) : g <= Q[j].off
      /\ g <= a
  BY LineOrder
<1>10. CASE p.kind = "data"
  <2>1. End(p) = s + p.len /\ p.len \in Nat
    BY <1>6, <1>7, <1>10 DEF End, Packet
  <2>2. s + p.len <= g /\ s + p.len <= a
    BY <2>1, <1>7, <1>9
  <2>3. Ranks(R, x, m)
    BY <1>2, <1>3, <1>4, <1>5, <1>8, <1>10, RanksTail
  <2>4. Line(c, R, Q, s + p.len, x, g, a, A)
    BY <1>1, <1>2, <1>5, <1>7, <2>1, <2>3 DEF Line
  <2>5. ASSUME x < Len(A) PROVE s + p.len <= A[x + 1]
    <3>1. CASE x < m
      <4>1. x + 1 \in x + 1 .. m
        BY <3>1, <1>8
      <4>2. PICK i \in 1 .. Len(O) : O[i].kind # "data" /\ O[i].n = x + 1
        BY <4>1, <1>2 DEF Ranks
      <4>3. O[i] \in Accepted(c, A) /\ O[1] = p /\ Len(O) \in Nat
        BY <1>1, <1>4, AcceptedType
      <4>4. O[i].off = A[x + 1]
        BY <4>2, <4>3 DEF Accepted
      <4>5. i # 1
        BY <4>2, <4>3, <1>10
      <4>6. 1 \in 1 .. Len(O) /\ 1 < i
        BY <4>3, <4>5
      <4>7. End(O[1]) <= O[i].off
        BY <4>6, <1>9
      <4> QED BY <4>3, <4>4, <4>7, <2>1
    <3>2. CASE x = m
      <4>1. x + 1 \in m + 1 .. Len(A)
        BY <3>2, <1>8, <2>5
      <4>2. PICK i \in 1 .. Len(Q) : Q[i].kind # "data" /\ Q[i].n = x + 1
        BY <4>1, <1>2 DEF Ranks
      <4>3. Q[i] \in Accepted(c, A) /\ Q[i] \in Packet
        BY <1>1, AcceptedType
      <4>4. Q[i].off = A[x + 1] /\ Q[i].off \in Nat
        BY <4>2, <4>3, EndType DEF Accepted
      <4>5. g <= Q[i].off
        BY <1>9
      <4> QED BY SMTT(30), <4>4, <4>5, <2>1, <2>2
    <3> QED BY <3>1, <3>2, <1>8
  <2> QED BY <1>4, <1>5, <1>7, <1>10, <2>2, <2>4, <2>5
<1>11. CASE p.kind # "data"
  <2>1. End(p) = s
    BY <1>6, <1>7, <1>11 DEF End
  <2>2. p.n = x + 1 /\ x + 1 <= m /\ Ranks(R, x + 1, m)
    BY <1>2, <1>3, <1>4, <1>5, <1>8, <1>11, RanksTail
  <2>3. p.off = A[p.n]
    BY <1>6, <1>11 DEF Accepted
  <2>4. m \in x + 1 .. Len(A)
    BY <2>2, <1>8
  <2>5. Line(c, R, Q, s, x + 1, g, a, A)
    BY <1>1, <1>2, <1>5, <1>7, <2>1, <2>2, <2>4 DEF Line
  <2>6. x < Len(A) /\ A[x + 1] = s
    BY <2>2, <2>3, <1>7, <1>8
  <2> QED BY <1>4, <1>5, <1>7, <1>11, <2>2, <2>5, <2>6
<1> QED BY <1>10, <1>11

\* A packet that SocketSend holds is not in the queue.
LEMMA LineApart ==
    ASSUME NEW c, NEW O, NEW Q, NEW s \in Nat, NEW x \in Nat, NEW g \in Nat, NEW a \in Nat,
           NEW A \in Seq(Nat), Line(c, O, Q, s, x, g, a, A),
           NEW i \in 1 .. Len(O), NEW j \in 1 .. Len(Q)
    PROVE  O[i] # Q[j]
<1> SUFFICES ASSUME O[i] = Q[j] PROVE FALSE
  OBVIOUS
<1>1. O \in Seq(Sendable(c, A)) /\ Q \in Seq(Accepted(c, A))
  BY DEF Line
<1>2. PICK m \in x .. Len(A) : Ranks(O, x, m) /\ Ranks(Q, m, Len(A))
  BY DEF Line
<1>3. PICK p \in Accepted(c, A) : p = O[i] /\ p = Q[j]
  BY <1>1
<1>4. p \in Packet /\ p.off \in Nat /\ p.n \in Nat
  BY <1>3, AcceptedType DEF Packet
<1>5. End(p) <= g /\ g <= p.off
  BY <1>3, LineOrder
<1>6. CASE p.kind = "data"
  <2>1. End(p) = p.off + p.len /\ p.len \in Nat /\ p.len >= 1
    BY <1>3, <1>4, <1>6 DEF End, Accepted, Packet
  <2> QED BY SMTT(30), <2>1, <1>4, <1>5
<1>7. CASE p.kind # "data"
  <2>1. p.n <= m /\ m < p.n
    BY <1>2, <1>3, <1>7 DEF Ranks
  <2>2. m \in Nat
    BY <1>2
  <2> QED BY <2>1, <2>2, <1>4
<1> QED BY <1>6, <1>7

-----------------------------------------------------------------------------
(* The steps. *)

LEMMA OfAppend ==
    ASSUME NEW T \in Seq(Packet), NEW p \in Packet, NEW c
    PROVE  Of(Append(T, p), c) = IF p.q = c THEN Append(Of(T, c), p) ELSE Of(T, c)
<1> DEFINE S == {r \in Packet : r.q = c}
<1>1. p \in S <=> p.q = c
  OBVIOUS
<1> HIDE DEF S
<1>2. Selection(Append(T, p), S) =
        IF p \in S THEN Append(Selection(T, S), p) ELSE Selection(T, S)
  BY SelectionAppend
<1> QED BY <1>1, <1>2 DEF Of, S

LEMMA OfTail ==
    ASSUME NEW T \in Seq(Packet), T # <<>>, NEW c
    PROVE  /\ Head(T).q = c =>
                /\ Of(T, c) # <<>> /\ Head(Of(T, c)) = Head(T)
                /\ Tail(Of(T, c)) = Of(Tail(T), c)
           /\ Head(T).q # c => Of(T, c) = Of(Tail(T), c)
<1> DEFINE S == {r \in Packet : r.q = c}
<1>1. PICK p \in Packet : p = Head(T)
  OBVIOUS
<1>2. Tail(T) \in Seq(Packet)
  BY HeadTailProperties
<1>3. p \in S <=> p.q = c
  OBVIOUS
<1> HIDE DEF S
<1>4. PICK R \in Seq(Packet \cap S) : R = Selection(Tail(T), S)
  BY <1>2, SelectionType
<1>5. /\ p \in S => Selection(T, S) = <<p>> \o R
      /\ p \notin S => Selection(T, S) = R
  BY <1>1, <1>4, SelectionHead
<1>6. <<p>> \o R # <<>> /\ Head(<<p>> \o R) = p /\ Tail(<<p>> \o R) = R
  <2>1. R \in Seq(Packet)
    BY <1>4
  <2> HIDE DEF S
  <2> QED BY <2>1
<1> QED BY <1>1, <1>3, <1>4, <1>5, <1>6 DEF Of, S

LEMMA TakenType ==
    ASSUME Inv
    PROVE  /\ Taken \in Seq(Packet)
           /\ sspc \notin {"signal", "overrun"} => Taken = packed
<1>1. packed \in Seq(Packet)
  BY DEF Inv, TypeOK
<1>2. Front(packed) \in Seq(Packet)
  <2>1. CASE packed = <<>>
    <3>1. Front(packed) = SubSeq(<<>>, 1, Len(<<>>) - 1)
      BY <2>1 DEF Front
    <3> QED BY <3>1
  <2>2. CASE packed # <<>>
    <3>1. Len(packed) \in Nat /\ Len(packed) >= 1
      BY <1>1, <2>2
    <3> QED BY <1>1, <3>1 DEF Front
  <2> QED BY <2>1, <2>2
<1>3. sspc = "signal" => Append(packed, found) \in Seq(Packet)
  BY <1>1, AppendFacts DEF Inv, SignalOK
<1> QED BY <1>1, <1>2, <1>3 DEF Taken

\* The packets in the queue of a channel are the channel's own.
LEMMA LineHeads ==
    ASSUME LineInv
    PROVE  HeadsOwn
<1> SUFFICES ASSUME NEW c \in Queues, queue[c] # <<>> PROVE Head(queue[c]).q = c
  BY DEF HeadsOwn
<1>1. Line(c, Of(Taken, c), queue[c], sent[c], ctlSent[c], granted[c] - window[c],
           accepted[c], ctlAt[c])
  BY DEF LineInv
<1>2. queue[c] \in Seq(Accepted(c, ctlAt[c]))
  BY <1>1 DEF Line
<1>3. Head(queue[c]) \in Accepted(c, ctlAt[c])
  BY <1>2, HeadTailProperties
<1> QED BY <1>3 DEF Accepted

\* The numbers of a queue.
LEMMA QueueNumbers ==
    ASSUME Inv, NEW c \in Queues
    PROVE  /\ sent[c] \in Nat /\ ctlSent[c] \in Nat /\ accepted[c] \in Nat
           /\ window[c] \in Nat /\ granted[c] \in Nat /\ window[c] <= granted[c]
           /\ granted[c] - window[c] \in Nat
           /\ ctlAt[c] \in Seq(Nat) /\ queue[c] \in Seq(Packet)
<1>1. /\ sent[c] \in Nat /\ ctlSent[c] \in Nat /\ accepted[c] \in Nat
      /\ window[c] \in Nat /\ granted[c] \in Nat
  BY DEF Inv, TypeOK
<1>2. ctlAt[c] \in Seq(Nat) /\ queue[c] \in Seq(Packet)
  BY DEF Inv, TypeOK
<1>3. window[c] <= granted[c]
  BY DEF Inv, WindowOK
<1> QED BY <1>1, <1>2, <1>3

\* The packet as Queue::enqueue puts it in the queue.
LEMMA EnqueueExact ==
    ASSUME Inv, NEW p \in Packet, Enqueue(p)
    PROVE  \E r \in Packet :
              /\ r.q = p.q /\ r.kind = p.kind /\ r.len = p.len /\ r.off = accepted[p.q]
              /\ r.n = IF p.kind = "data" THEN 0 ELSE Len(ctlAt[p.q]) + 1
              /\ queue' = [queue EXCEPT ![p.q] = Append(queue[p.q], r)]
<1> DEFINE c == p.q
           n == IF p.kind = "data" THEN 0 ELSE Len(ctlAt[c]) + 1
           r == [p EXCEPT !.off = accepted[c], !.n = n]
<1>1. c \in Queues
  BY DEF Packet
<1>2. accepted[c] \in Nat /\ n \in Nat
  BY <1>1, QueueNumbers
<1>3. queue' = [queue EXCEPT ![c] = Append(queue[c], r)]
  BY DEF Enqueue
<1> HIDE DEF n, c
<1>4. /\ r \in Packet /\ r.q = p.q /\ r.kind = p.kind /\ r.len = p.len
      /\ r.off = accepted[c] /\ r.n = n
  BY <1>2 DEF Packet
<1> HIDE DEF r
<1> QED BY <1>3, <1>4 DEF c, n

LEMMA EnqueueLine ==
    ASSUME Inv, LineInv, NEW p \in Packet, p.kind = "data" => p.len \in 1 .. MaxBytes,
           Enqueue(p), UNCHANGED <<window, ssVars, wireVars, granted>>
    PROVE  LineInv'
<1>0. PICK c \in Queues : c = p.q
  BY DEF Packet
<1>1. PICK r \in Packet :
         /\ r.q = c /\ r.kind = p.kind /\ r.len = p.len /\ r.off = accepted[c]
         /\ r.n = IF p.kind = "data" THEN 0 ELSE Len(ctlAt[c]) + 1
         /\ queue' = [queue EXCEPT ![c] = Append(queue[c], r)]
  BY <1>0, EnqueueExact
<1>2. /\ accepted' = IF p.kind = "data"
                     THEN [accepted EXCEPT ![c] = accepted[c] + p.len] ELSE accepted
      /\ ctlAt' = IF p.kind = "data" THEN ctlAt
                  ELSE [ctlAt EXCEPT ![c] = Append(ctlAt[c], accepted[c])]
  BY <1>0 DEF Enqueue
<1>3. UNCHANGED <<window, granted, sent, ctlSent, packed, found, sspc, rawLeft>>
  BY DEF ssVars, wireVars
<1>4. Taken' = Taken
  BY <1>3 DEF Taken, Room, Minus
<1>5. /\ queue \in [Queues -> Seq(Packet)] /\ accepted \in [Queues -> Nat]
      /\ ctlAt \in [Queues -> Seq(Nat)]
  BY DEF Inv, TypeOK
<1> SUFFICES ASSUME NEW d \in Queues
             PROVE  Line(d, Of(Taken, d), queue'[d], sent[d], ctlSent[d],
                         granted[d] - window[d], accepted'[d], ctlAt'[d])
  BY <1>3, <1>4 DEF LineInv
<1>6. Line(d, Of(Taken, d), queue[d], sent[d], ctlSent[d], granted[d] - window[d],
           accepted[d], ctlAt[d])
  BY DEF LineInv
<1>7. CASE d # c
  <2>1. queue'[d] = queue[d] /\ accepted'[d] = accepted[d] /\ ctlAt'[d] = ctlAt[d]
    BY <1>1, <1>2, <1>5, <1>7
  <2> QED BY <1>6, <2>1
<1>8. CASE d = c
  <2>1. queue'[c] = Append(queue[c], r)
    BY <1>1, <1>5
  <2>2. CASE p.kind = "data"
    <3>1. accepted'[c] = accepted[c] + r.len /\ ctlAt'[c] = ctlAt[c]
      BY <1>1, <1>2, <1>5, <2>2
    <3>2. /\ r.len \in 1 .. MaxBytes /\ r.kind = "data" /\ r.off = accepted[c]
          /\ r.q = c /\ r.n = 0
      BY <1>1, <2>2
    <3>3. Line(c, Of(Taken, c), Append(queue[c], r), sent[c], ctlSent[c],
               granted[c] - window[c], accepted[c] + r.len, ctlAt[c])
      BY <1>6, <1>8, <3>2, QueueNumbers, LineData
    <3> QED BY <1>8, <2>1, <3>1, <3>3
  <2>3. CASE p.kind # "data"
    <3>1. accepted'[c] = accepted[c] /\ ctlAt'[c] = Append(ctlAt[c], accepted[c])
      BY <1>2, <1>5, <2>3
    <3>2. r.n = Len(ctlAt[c]) + 1 /\ r.kind # "data" /\ r.off = accepted[c] /\ r.q = c
      BY <1>1, <2>3
    <3>3. Line(c, Of(Taken, c), Append(queue[c], r), sent[c], ctlSent[c],
               granted[c] - window[c], accepted[c], Append(ctlAt[c], accepted[c]))
      BY <1>6, <1>8, <3>2, QueueNumbers, LineControl
    <3> QED BY <1>8, <2>1, <3>1, <3>3
  <2> QED BY <2>2, <2>3
<1> QED BY <1>7, <1>8

\* A step that leaves the counters and the queues alone, and what SocketSend holds.
LEMMA SameLine ==
    ASSUME LineInv, Taken' = Taken,
           UNCHANGED <<queue, window, granted, sent, ctlSent, accepted, ctlAt>>
    PROVE  LineInv'
  BY DEF LineInv

\* What the first packets of the queues are does not change for SocketSend.
LEMMA EnqueueTake ==
    ASSUME Inv, TakeSmall, NEW p \in Packet, Enqueue(p), UNCHANGED ssVars
    PROVE  TakeSmall'
<1>1. UNCHANGED <<sspc, current, found>>
  BY DEF ssVars, iterVars
<1>2. sspc = "take" => current \in Queues /\ queue[current] # <<>>
  BY DEF Inv, TakeOK
<1>3. sspc = "take" => Head(queue'[current]) = Head(queue[current])
  BY <1>2, EnqueueType DEF Inv
<1> QED BY <1>1, <1>3 DEF TakeSmall

LEMMA QueueOrWaitLine ==
    ASSUME Inv, StreamInv, NEW t \in Threads, NEW p \in Packet,
           p.kind = "data" => p.len \in 1 .. MaxBytes, QueueOrWait(t, p),
           UNCHANGED <<window, ssVars, wireVars, granted>>
    PROVE  StreamInv'
<1>0. pc \in [Threads -> {"idle", "wait", "woken"}]
        /\ request \in [Threads -> Packet \cup {None}]
  BY DEF Inv, TypeOK
<1>1. CASE p.q = Main \/ PacketTotal(p) <= BytesAllowed(p.q)
  <2>1. /\ Enqueue(p)
        /\ pc' = [pc EXCEPT ![t] = "idle"]
        /\ request' = [request EXCEPT ![t] = None]
    BY <1>1 DEF QueueOrWait
  <2>2. LineInv'
    BY <2>1, EnqueueLine DEF StreamInv
  <2>3. TakeSmall'
    BY <2>1, EnqueueTake DEF StreamInv
  <2>4. CallSmall'
    BY <1>0, <2>1 DEF StreamInv, CallSmall
  <2> QED BY <2>2, <2>3, <2>4 DEF StreamInv
<1>2. CASE ~ (p.q = Main \/ PacketTotal(p) <= BytesAllowed(p.q))
  <2>1. /\ pc' = [pc EXCEPT ![t] = "wait"]
        /\ request' = [request EXCEPT ![t] = p]
        /\ UNCHANGED <<queue, totalBytes, acceptVars>>
    BY <1>2 DEF QueueOrWait
  <2>2. LineInv'
    BY <2>1, SameLine DEF StreamInv, Taken, Room, Minus, ssVars, wireVars, acceptVars
  <2>3. TakeSmall'
    BY <2>1 DEF StreamInv, TakeSmall, ssVars, iterVars
  <2>4. CallSmall'
    BY <1>0, <2>1 DEF StreamInv, CallSmall
  <2> QED BY <2>2, <2>3, <2>4 DEF StreamInv
<1> QED BY <1>1, <1>2

\* The sizes of the data a call may bring.
LEMMA UserSmall ==
    ASSUME Inv, NEW p \in UserPackets, WithinBounds(p), p.kind = "data"
    PROVE  p.len \in 1 .. MaxBytes
<1>1. p.len \in DataSizes
  <2>1. MainKinds \subseteq {"main", "disconnect"}
    BY OutboundAssumption
  <2> QED BY <2>1 DEF UserPackets
<1>2. p.len \in Nat \ {0}
  BY <1>1, OutboundAssumption
<1>3. accepted[p.q] + p.len <= MaxBytes
  BY DEF WithinBounds
<1>4. accepted[p.q] \in Nat /\ MaxBytes \in Nat
  <2>1. p.q \in Queues
    BY UserPacketsType DEF Packet
  <2>2. accepted[p.q] \in Nat
    BY <2>1, QueueNumbers
  <2>3. MaxBytes \in Nat
    BY OutboundAssumption
  <2> QED BY <2>2, <2>3
<1> QED BY <1>2, <1>3, <1>4

LEMMA QueueWindowAdjustLine ==
    ASSUME Inv, StreamInv, NEW c \in Channels, QueueWindowAdjust(c)
    PROVE  StreamInv'
<1> DEFINE p == [q |-> c, kind |-> "control", off |-> 0, len |-> 9, n |-> 0]
<1>1. p \in Packet /\ p.kind # "data"
  BY DEF Packet, Kinds, Queues
<1>2. Enqueue(p) /\ UNCHANGED <<window, userVars, ssVars, wireVars, granted>>
  BY DEF QueueWindowAdjust
<1> HIDE DEF p
<1>3. LineInv'
  BY <1>1, <1>2, EnqueueLine DEF StreamInv
<1>4. TakeSmall'
  BY <1>1, <1>2, EnqueueTake DEF StreamInv
<1>5. CallSmall'
  BY <1>2 DEF StreamInv, CallSmall, userVars
<1> QED BY <1>3, <1>4, <1>5 DEF StreamInv

\* What the peer grants is there for the window too.
LEMMA GrantExact ==
    ASSUME Inv, NEW c \in Channels, NEW k \in Grants, AdjustWindowSizeRemote(c, k)
    PROVE  /\ c \in Queues /\ k \in 1 .. MaxGrant
           /\ window' = [window EXCEPT ![c] = window[c] + k]
           /\ granted' = [granted EXCEPT ![c] = granted[c] + k]
<1>1. /\ c \in Queues /\ k \in Nat \ {0} /\ MaxGrant < Word
      /\ Word \in Nat \ {0} /\ MaxGrant \in Nat
  BY ConstantsType, OutboundAssumption DEF Queues
<1>2. /\ window[c] \in Nat /\ granted[c] \in Nat
      /\ window[c] <= granted[c] /\ granted[c] + k <= MaxGrant
  BY <1>1, QueueNumbers DEF AdjustWindowSizeRemote
<1>3. window[c] + k \in Nat /\ window[c] + k < Word /\ k \in 1 .. MaxGrant
  BY <1>1, <1>2
<1>4. (window[c] + k) % Word = window[c] + k
  BY <1>1, <1>3, ModSmall
<1>5. /\ window' = [window EXCEPT ![c] = window[c] + k]
      /\ granted' = [granted EXCEPT ![c] = granted[c] + k]
  BY <1>4 DEF AdjustWindowSizeRemote
<1> QED BY <1>1, <1>3, <1>5

LEMMA AdjustWindowLine ==
    ASSUME Inv, StreamInv, NEW c \in Channels, NEW k \in Grants, AdjustWindowSizeRemote(c, k)
    PROVE  StreamInv'
<1>1. /\ c \in Queues /\ k \in Nat
      /\ window' = [window EXCEPT ![c] = window[c] + k]
      /\ granted' = [granted EXCEPT ![c] = granted[c] + k]
  BY GrantExact, ConstantsType
<1>2. UNCHANGED <<queue, sent, ctlSent, accepted, ctlAt, packed, found, sspc, current,
                  rawLeft, userVars>>
  BY DEF AdjustWindowSizeRemote, ssVars, iterVars, acceptVars, wireVars
<1>3. window \in [Queues -> Nat] /\ granted \in [Queues -> Nat]
  BY DEF Inv, TypeOK
<1>4. ASSUME NEW d \in Queues PROVE granted'[d] - window'[d] = granted[d] - window[d]
  <2>1. CASE d = c
    <3>1. granted'[d] = granted[d] + k /\ window'[d] = window[d] + k
      BY <2>1, <1>1, <1>3
    <3>2. granted[d] \in Nat /\ window[d] \in Nat
      BY <1>3
    <3> QED BY <3>1, <3>2, <1>1
  <2>2. CASE d # c
    BY <2>2, <1>1, <1>3
  <2> QED BY <2>1, <2>2
<1>5. LineInv'
  <2> SUFFICES ASSUME NEW d \in Queues
               PROVE  Line(d, Of(Taken, d), queue[d], sent[d], ctlSent[d],
                           granted'[d] - window'[d], accepted[d], ctlAt[d])
    BY <1>2 DEF LineInv, Taken, Room, Minus
  <2> QED BY <1>4 DEF StreamInv, LineInv
<1>6. TakeSmall' /\ CallSmall'
  BY <1>2 DEF StreamInv, TakeSmall, CallSmall, userVars
<1> QED BY <1>5, <1>6 DEF StreamInv

\* Return hands over what getNextPacket found; a packet that was only looked at is not
\* taken.
LEMMA ReturnTaken ==
    ASSUME Inv, BufferInv, sspc \in {"pick", "signal"}, NEW p \in Packet \cup {None},
           Return(p)
    PROVE  /\ sspc' \notin {"take", "signal"}
           /\ p = None => Taken' = packed
           /\ p # None /\ PacketTotal(p) <= Room => Taken' = Append(packed, p)
           /\ p # None /\ PacketTotal(p) > Room => Taken' = packed
<1>1. sspc' \in {"pick", "encode", "overrun"}
  BY ReturnType DEF Inv
<1>2. sspc' # "overrun" => Taken' = packed'
  BY <1>1 DEF Taken
<1>3. packed' = IF p = None THEN packed ELSE Append(packed, p)
  BY DEF Return
<1>4. CASE p = None
  <2>1. sspc' # "overrun"
    BY <1>4 DEF Return, Overruns
  <2> QED BY <1>1, <1>2, <1>3, <1>4, <2>1
<1>5. CASE p # None
  <2>1. /\ Room = rawLeft - MacLen /\ rawLeft \in Nat /\ MacLen \in Nat
        /\ PacketTotal(p) \in Nat
    BY <1>5, RoomExact, ConstantsType, PacketTotalType DEF BufferInv
  <2>2. CASE PacketTotal(p) <= Room
    <3>1. ~ Overruns(p)
      BY <2>1, <2>2 DEF Overruns
    <3>2. sspc' # "overrun"
      BY <3>1 DEF Return
    <3> QED BY <1>1, <1>2, <1>3, <1>5, <2>1, <2>2, <3>2
  <2>3. CASE PacketTotal(p) > Room
    <3>1. Overruns(p)
      BY <1>5, <2>1, <2>3 DEF Overruns
    <3>2. sspc' = "overrun"
      BY <3>1 DEF Return
    <3>3. Front(packed') = packed
      <4>1. packed \in Seq(Packet) /\ p \in Packet
        BY <1>5 DEF Inv, TypeOK
      <4> QED BY <1>3, <1>5, <4>1, AppendLast
    <3>4. Taken' = packed
      BY <3>2, <3>3 DEF Taken
    <3> QED BY <1>5, <2>1, <2>3, <3>2, <3>4
  <2> QED BY <2>1, <2>2, <2>3
<1> QED BY <1>4, <1>5

LEMMA LookOnLine ==
    ASSUME Inv, BufferInv, StreamInv, sspc = "pick", NEW p \in Packet \cup {None},
           p # None => PacketTotal(p) > Room, ContinueWith(p),
           UNCHANGED <<queue, window, userVars, acceptVars, wireVars, granted>>
    PROVE  StreamInv'
<1>1. Taken = packed
  BY DEF Taken
<1>2. Taken' = packed /\ sspc' # "take"
  <2>1. CASE KeepGoing
    <3>1. packed' = packed /\ sspc' = "pick"
      BY <2>1 DEF ContinueWith
    <3> QED BY <3>1 DEF Taken
  <2>2. CASE ~ KeepGoing
    <3>1. Return(p)
      BY <2>2 DEF ContinueWith
    <3> QED BY <3>1, ReturnTaken
  <2> QED BY <2>1, <2>2
<1>3. LineInv'
  BY <1>1, <1>2, SameLine DEF StreamInv, acceptVars, wireVars
<1>4. TakeSmall' /\ CallSmall'
  BY <1>2 DEF StreamInv, TakeSmall, CallSmall, userVars
<1> QED BY <1>3, <1>4 DEF StreamInv

\* At least one byte of the data goes, and no more than the peer takes in a packet.
LEMMA SendableSome ==
    ASSUME NEW len \in Nat, len >= 1, NEW win \in Nat, NEW room \in Nat,
           MaySendData(win, room), room < Word
    PROVE  /\ SendableData(len, win, room) >= 1
           /\ SendableData(len, win, room) <= MaxPacketRemote
<1>1. win > 16 /\ room >= 32
  BY DEF MaySendData, MinWindow, MinRoom
<1>2. DataRoom(room) \in Nat /\ DataRoom(room) >= 1
  <2>1. room % 16 \in 0 .. 15
    BY SMT
  <2>2. 18 + (room % 16) \in Nat /\ 18 + (room % 16) <= room
    BY <1>1, SMT
  <2>3. DataRoom(room) = room - (18 + (room % 16))
    BY <2>2, MinusExact DEF DataRoom
  <2>4. room = 32 => room % 16 = 0
    BY SMT
  <2> DEFINE r == room % 16
  <2> HIDE DEF r
  <2>5. r \in 0 .. 15 /\ DataRoom(room) = room - (18 + r) /\ (room = 32 => r = 0)
    BY <2>1, <2>3, <2>4 DEF r
  <2>6. room = 32 \/ room = 33 => r < 14
    BY SMT DEF r
  <2> QED BY <1>1, <2>5, <2>6
<1>3. MaxPacketRemote \in Nat /\ MaxPacketRemote >= 1
  BY ConstantsType
<1> QED BY <1>1, <1>2, <1>3 DEF SendableData, Smaller

LEMMA VisitDataLine ==
    ASSUME Inv, BufferInv, StreamInv, VisitData
    PROVE  StreamInv'
<1> DEFINE c == Visited
           p == Head(queue[c])
           first == SendableData(p.len, window[c], Room)
<1>1. c \in Queues /\ queue[c] # <<>> /\ p.kind = "data" /\ sspc = "pick"
      /\ MaySendData(window[c], Room)
  BY VisitedType DEF Inv, VisitData, HeadIs
<1>2. Room \in Nat /\ Room < Word
  BY <1>1, RoomExact DEF BufferInv
<1>3. /\ IF first < p.len THEN SplitFirstPacket(c, first)
                          ELSE UNCHANGED <<queue, totalBytes>>
      /\ current' = c
      /\ sspc' = "take"
      /\ UNCHANGED <<window, userVars, acceptVars, wireVars, granted, packed>>
  BY DEF VisitData
<1> HIDE DEF c
<1>4. Line(c, Of(Taken, c), queue[c], sent[c], ctlSent[c], granted[c] - window[c],
           accepted[c], ctlAt[c])
  BY <1>1 DEF StreamInv, LineInv
<1>5. PICK r \in Packet : r = p /\ r.len \in Nat /\ r.len >= 1
  <2>1. queue[c] \in Seq(Accepted(c, ctlAt[c]))
    BY <1>4 DEF Line
  <2>2. p \in Accepted(c, ctlAt[c])
    BY <1>1, <2>1, HeadTailProperties
  <2> HIDE DEF p
  <2>3. p \in Packet /\ p.len \in 1 .. MaxBytes
    BY <1>1, <2>2 DEF Accepted
  <2> QED BY <2>3
<1>6. window[c] \in Nat
  BY <1>1, QueueNumbers
<1>7. first \in Nat /\ first >= 1 /\ first <= p.len /\ first <= MaxPacketRemote
  <2>1. first = SendableData(r.len, window[c], Room)
    BY <1>5
  <2> HIDE DEF first
  <2>2. first \in Nat /\ first <= r.len
    BY <1>2, <1>5, <1>6, <2>1, SendableBounds
  <2>3. first >= 1 /\ first <= MaxPacketRemote
    BY <1>1, <1>2, <1>5, <1>6, <2>1, SendableSome
  <2> QED BY <1>5, <2>2, <2>3
<1> HIDE DEF first
<1>8. Taken' = Taken
  BY <1>1, <1>3 DEF Taken
<1>9. UNCHANGED <<window, granted, sent, ctlSent, accepted, ctlAt>>
  BY <1>3 DEF acceptVars, wireVars
<1>10. CASE first < p.len
  <2>1. SplitFirstPacket(c, first)
    BY <1>3, <1>10
  <2>2. queue' = [queue EXCEPT ![c] = Pieces(p, first) \o Tail(queue[c])]
    BY <2>1 DEF SplitFirstPacket
  <2>3. queue \in [Queues -> Seq(Packet)]
    BY DEF Inv, TypeOK
  <2>4. Line(c, Of(Taken, c), Pieces(Head(queue[c]), first) \o Tail(queue[c]), sent[c],
             ctlSent[c], granted[c] - window[c], accepted[c], ctlAt[c])
    BY <1>1, <1>4, <1>7, <1>10, QueueNumbers, LineSplit
  <2>5. LineInv'
    <3> SUFFICES ASSUME NEW d \in Queues
                 PROVE  Line(d, Of(Taken, d), queue'[d], sent[d], ctlSent[d],
                             granted[d] - window[d], accepted[d], ctlAt[d])
      BY <1>8, <1>9 DEF LineInv
    <3>1. CASE d = c
      <4>1. queue'[d] = Pieces(p, first) \o Tail(queue[c])
        BY <3>1, <1>1, <2>2, <2>3
      <4> QED BY <3>1, <4>1, <2>4
    <3>2. CASE d # c
      <4>1. queue'[d] = queue[d]
        BY <3>2, <2>2, <2>3
      <4> QED BY <4>1 DEF StreamInv, LineInv
    <3> QED BY <3>1, <3>2
  <2>6. Head(queue'[c]) = [p EXCEPT !.len = first]
    BY <1>1, <1>7, <2>1, SplitType
  <2>7. Head(queue'[c]).len = first
    <3>1. [r EXCEPT !.len = first].len = first
      BY <1>7, ReshapedPacket
    <3> QED BY <3>1, <2>6, <1>5
  <2>8. TakeSmall'
    BY <1>3, <1>7, <2>7 DEF TakeSmall
  <2>9. CallSmall'
    BY <1>3 DEF StreamInv, CallSmall, userVars
  <2> QED BY <2>5, <2>8, <2>9 DEF StreamInv
<1>11. CASE ~ (first < p.len)
  <2>1. queue' = queue
    BY <1>3, <1>11
  <2>2. LineInv'
    BY <1>8, <1>9, <2>1, SameLine DEF StreamInv
  <2>3. p.len = first
    BY <1>5, <1>7, <1>11
  <2>4. TakeSmall'
    BY <1>3, <1>7, <2>1, <2>3 DEF TakeSmall
  <2>5. CallSmall'
    BY <1>3 DEF StreamInv, CallSmall, userVars
  <2> QED BY <2>2, <2>4, <2>5 DEF StreamInv
<1> QED BY <1>10, <1>11

\* Taking a packet out of its queue: SocketSend holds it from then on, and the
\* window of its channel is charged for its data.
LEMMA TakeLine ==
    ASSUME Inv, LineInv, NEW c \in Queues, queue[c] # <<>>,
           NEW p \in Packet, p = Head(queue[c]), p.kind = "data" => p.len <= MaxPacketRemote,
           Taken = packed, Taken' = Append(packed, p),
           queue' = [queue EXCEPT ![c] = Tail(queue[c])],
           window' = [window EXCEPT ![c] =
               window[c] - (IF p.kind = "data" THEN p.len ELSE 0)],
           UNCHANGED <<granted, sent, ctlSent, accepted, ctlAt>>
    PROVE  LineInv'
<1>1. Taken = packed /\ packed \in Seq(Packet)
  BY TakenType DEF Inv
<1>2. /\ queue \in [Queues -> Seq(Packet)] /\ window \in [Queues -> Nat]
  BY DEF Inv, TypeOK
<1>2a. PICK T \in Seq(Packet) : T = Taken
  BY <1>1
<1>2b. PICK U : U = Taken'
  OBVIOUS
<1>2c. U = Append(T, p)
  BY <1>1, <1>2a, <1>2b
<1>3. \A d \in Queues : Of(U, d) = IF p.q = d THEN Append(Of(T, d), p) ELSE Of(T, d)
  BY ZenonT(40), <1>2c, OfAppend
<1> SUFFICES ASSUME NEW d \in Queues
             PROVE  Line(d, Of(U, d), queue'[d], sent[d], ctlSent[d],
                         granted[d] - window'[d], accepted[d], ctlAt[d])
  BY <1>2b DEF LineInv
<1>4. Line(d, Of(T, d), queue[d], sent[d], ctlSent[d], granted[d] - window[d],
           accepted[d], ctlAt[d])
  BY <1>2a DEF LineInv
<1>5. p.q = c
  <2>1. Line(c, Of(Taken, c), queue[c], sent[c], ctlSent[c], granted[c] - window[c],
             accepted[c], ctlAt[c])
    BY DEF LineInv
  <2>2. queue[c] \in Seq(Accepted(c, ctlAt[c]))
    BY <2>1 DEF Line
  <2>3. p \in Accepted(c, ctlAt[c])
    BY <2>2, HeadTailProperties
  <2> QED BY <2>3 DEF Accepted
<1>6. CASE d # c
  <2>1. queue'[d] = queue[d] /\ window'[d] = window[d] /\ Of(U, d) = Of(T, d)
    BY <1>2, <1>3, <1>5, <1>6
  <2> QED BY <1>4, <2>1
<1>7. CASE d = c
  <2>1. queue'[c] = Tail(queue[c]) /\ Of(U, c) = Append(Of(T, c), p)
    BY <1>2, <1>3, <1>5
  <2>2. window'[c] = window[c] - (IF p.kind = "data" THEN p.len ELSE 0)
    BY <1>2
  <2>3. /\ End(p) = (granted[c] - window[c]) + (IF p.kind = "data" THEN p.len ELSE 0)
        /\ Line(c, Append(Of(T, c), p), Tail(queue[c]), sent[c], ctlSent[c], End(p),
                accepted[c], ctlAt[c])
    <3> DEFINE g == granted[c] - window[c]  h == Head(queue[c])
    <3>1. Line(c, Of(T, c), queue[c], sent[c], ctlSent[c], g, accepted[c], ctlAt[c])
      BY <1>4, <1>7
    <3>2. g \in Nat /\ sent[c] \in Nat /\ ctlSent[c] \in Nat /\ accepted[c] \in Nat
            /\ ctlAt[c] \in Seq(Nat)
      BY QueueNumbers
    <3>3. h.kind = "data" => h.len <= MaxPacketRemote
      OBVIOUS
    <3> HIDE DEF g
    <3>4. /\ End(h) = g + (IF h.kind = "data" THEN h.len ELSE 0)
          /\ Line(c, Append(Of(T, c), h), Tail(queue[c]), sent[c], ctlSent[c], End(h),
                  accepted[c], ctlAt[c])
      BY <3>1, <3>2, <3>3, LineTake
    <3> QED BY <3>4 DEF g
  <2>4. granted[c] - window'[c] = End(p)
    <3>1. granted[c] \in Nat /\ window[c] \in Nat /\ p.len \in Nat
      BY QueueNumbers DEF Packet
    <3> QED BY <2>2, <2>3, <3>1
  <2> QED BY <1>7, <2>1, <2>3, <2>4
<1> QED BY <1>6, <1>7

LEMMA TakeDataLine ==
    ASSUME Inv, BufferInv, StreamInv, TakeData
    PROVE  StreamInv'
<1> DEFINE c == current
<1>1. /\ c \in Queues /\ queue[c] # <<>> /\ Head(queue[c]).kind = "data"
      /\ Head(queue[c]).len <= MaxPacketRemote /\ sspc = "take"
      /\ PacketTotal(Head(queue[c])) <= Room
  BY DEF Inv, StreamInv, TakeSmall, TakeData, TakeOK, BufferInv, FoundOK
<1>2. /\ queue' = [queue EXCEPT ![c] = Tail(queue[c])] /\ found' = Head(queue[c])
      /\ sspc' = "signal"
      /\ UNCHANGED <<userVars, granted, sent, ctlSent, accepted, ctlAt, packed, rawLeft>>
  BY DEF TakeData, Dequeue, acceptVars, wireVars
<1>3. PICK p \in Packet : p = Head(queue[c])
  BY <1>1 DEF Inv, TypeOK
<1>4. window' = [window EXCEPT ![c] = window[c] - p.len]
  BY <1>3, TakeDataExact
<1>5. Taken = packed /\ Taken' = Append(packed, p)
  BY <1>1, <1>2, <1>3 DEF Taken, Room, Minus
<1>6. LineInv'
  <2>1. p.kind = "data" /\ p.len <= MaxPacketRemote
    BY <1>1, <1>3
  <2>2. window' = [window EXCEPT ![c] = window[c] - (IF p.kind = "data" THEN p.len ELSE 0)]
    BY <2>1, <1>4
  <2>3. PICK d \in Queues : d = c
    BY <1>1
  <2> HIDE DEF c
  <2> QED BY <1>1, <1>2, <1>3, <1>5, <2>1, <2>2, <2>3, TakeLine DEF StreamInv
<1>7. TakeSmall' /\ CallSmall'
  BY <1>2 DEF StreamInv, TakeSmall, CallSmall, userVars
<1> QED BY <1>6, <1>7 DEF StreamInv

LEMMA VisitControlLine ==
    ASSUME Inv, BufferInv, StreamInv, VisitControl
    PROVE  StreamInv'
<1>1. PICK c \in Queues : c = Visited
  BY VisitedType DEF Inv, VisitControl, HeadIs
<1>2. /\ queue[c] # <<>> /\ Head(queue[c]).kind # "data" /\ sspc = "pick"
      /\ PacketTotal(Head(queue[c])) <= Room
      /\ queue' = [queue EXCEPT ![c] = Tail(queue[c])]
      /\ UNCHANGED <<window, userVars, granted, sent, ctlSent, accepted, ctlAt>>
  BY <1>1 DEF VisitControl, HeadIs, Dequeue, acceptVars, wireVars
<1>3. PICK p \in Packet : p = Head(queue[c])
  BY <1>2 DEF Inv, TypeOK
<1>4. p # None
  BY NoneAssumption
<1>5. Taken = packed /\ Taken' = Append(packed, p) /\ sspc' # "take"
  <2>1. CASE c = Main
    <3>1. Return(p)
      BY <2>1, <1>1, <1>3 DEF VisitControl
    <3> QED BY <3>1, <1>2, <1>3, <1>4, ReturnTaken DEF Taken
  <2>2. CASE c # Main
    <3>1. found' = p /\ packed' = packed /\ sspc' = "signal" /\ rawLeft' = rawLeft
      BY <2>2, <1>1, <1>3 DEF VisitControl
    <3> QED BY <3>1, <1>2, <1>3 DEF Taken, Room, Minus
  <2> QED BY <2>1, <2>2
<1>6. window' = [window EXCEPT ![c] = window[c] - (IF p.kind = "data" THEN p.len ELSE 0)]
  <2>1. window \in [Queues -> Nat] /\ window' = window
    BY <1>2 DEF Inv, TypeOK
  <2>2. window[c] - 0 = window[c]
    BY <2>1
  <2>3. [window EXCEPT ![c] = window[c]] = window
    BY <2>1
  <2> QED BY <2>1, <2>2, <2>3, <1>2, <1>3
<1>7. LineInv'
  BY <1>2, <1>3, <1>5, <1>6, TakeLine DEF StreamInv
<1>8. TakeSmall' /\ CallSmall'
  BY <1>2, <1>5 DEF StreamInv, TakeSmall, CallSmall, userVars
<1> QED BY <1>7, <1>8 DEF StreamInv

\* A packet that does not fit stays in its queue.
LEMMA VisitTooLargeLine ==
    ASSUME Inv, BufferInv, StreamInv, VisitTooLarge
    PROVE  StreamInv'
<1>1. PICK c \in Queues : c = Visited
  BY VisitedType DEF Inv, VisitTooLarge, HeadIs
<1>2. /\ queue[c] # <<>> /\ sspc = "pick" /\ PacketTotal(Head(queue[c])) > Room
      /\ UNCHANGED <<queue, window, userVars, acceptVars, wireVars, granted>>
  BY <1>1 DEF VisitTooLarge, HeadIs
<1>3. PICK p \in Packet : p = Head(queue[c])
  <2>1. queue[c] \in Seq(Packet)
    BY QueueNumbers
  <2> QED BY <1>2, <2>1
<1>4. CASE c = Main
  <2>1. ContinueWith(p)
    BY <1>1, <1>3, <1>4 DEF VisitTooLarge
  <2> QED BY <1>2, <1>3, <2>1, LookOnLine
<1>5. CASE c # Main
  <2>1. found' = p /\ sspc' = "signal" /\ rawLeft' = rawLeft /\ packed' = packed
    BY <1>1, <1>3, <1>5 DEF VisitTooLarge
  <2>2. PacketTotal(p) \in Nat /\ Room \in Nat
    BY PacketTotalType, RoomType DEF Inv
  <2>3. ~ (PacketTotal(p) <= Room)
    BY <1>2, <1>3, <2>2
  <2>4. Taken = packed /\ Taken' = packed
    BY <1>2, <2>1, <2>3 DEF Taken, Room, Minus
  <2>5. LineInv'
    BY <1>2, <2>4, SameLine DEF StreamInv, acceptVars, wireVars
  <2>6. TakeSmall' /\ CallSmall'
    BY <1>2, <2>1 DEF StreamInv, TakeSmall, CallSmall, userVars
  <2> QED BY <2>5, <2>6 DEF StreamInv
<1> QED BY <1>4, <1>5

LEMMA SignalWritersLine ==
    ASSUME Inv, BufferInv, StreamInv, SignalWriters
    PROVE  StreamInv'
<1>1. /\ sspc = "signal"
      /\ UNCHANGED <<queue, window, request, granted, sent, ctlSent, accepted, ctlAt>>
  BY DEF SignalWriters, acceptVars, wireVars
<1>2. PICK p \in Packet : p = found
  BY <1>1 DEF Inv, SignalOK
<1>3. p # None /\ PacketTotal(p) \in Nat /\ Room \in Nat
  BY NoneAssumption, PacketTotalType, RoomType DEF Inv
<1>4. Taken' = Taken /\ sspc' # "take"
  <2>1. CASE more
    <3>1. sspc' = "pick" /\ packed' = packed /\ PacketTotal(p) > Room
      BY <1>1, <1>2, <2>1 DEF SignalWriters, BufferInv, FoundOK, Peeks
    <3>2. ~ (PacketTotal(p) <= Room)
      BY <1>3, <3>1
    <3> QED BY <1>1, <1>2, <3>1, <3>2 DEF Taken
  <2>2. CASE ~ more
    <3>1. Return(p)
      BY <1>2, <2>2 DEF SignalWriters
    <3>2. CASE PacketTotal(p) <= Room
      BY <1>1, <1>2, <1>3, <3>1, <3>2, ReturnTaken DEF Taken
    <3>3. CASE ~ (PacketTotal(p) <= Room)
      <4>1. PacketTotal(p) > Room
        BY <1>3, <3>3
      <4>2. Taken' = packed /\ sspc' # "take"
        BY <1>1, <1>3, <3>1, <4>1, ReturnTaken
      <4> QED BY <1>1, <1>2, <3>3, <4>2 DEF Taken
    <3> QED BY <3>2, <3>3
  <2> QED BY <2>1, <2>2
<1>5. LineInv'
  BY <1>1, <1>4, SameLine DEF StreamInv
<1>6. \A t \in Threads : pc'[t] # "idle" => pc[t] # "idle"
  BY DEF SignalWriters, Signal, Waiters, Inv, TypeOK
<1>7. TakeSmall' /\ CallSmall'
  BY <1>1, <1>4, <1>6 DEF StreamInv, TakeSmall, CallSmall
<1> QED BY <1>5, <1>7 DEF StreamInv

\* Encoding a packet, which is the next of its queue.
LEMMA EncodeExact ==
    ASSUME Inv, BufferInv, LineInv, EncodePacket,
           NEW p \in Packet, p = Head(packed), NEW c \in Queues, c = p.q
    PROVE  /\ Taken = packed /\ Taken' = Tail(packed) /\ packed \in Seq(Packet) /\ packed # <<>>
           /\ Of(packed, c) # <<>> /\ Head(Of(packed, c)) = p
           /\ Tail(Of(packed, c)) = Of(Tail(packed), c)
           /\ \A d \in Queues : d # c => Of(Tail(packed), d) = Of(packed, d)
           /\ Line(c, Of(packed, c), queue[c], sent[c], ctlSent[c], granted[c] - window[c],
                   accepted[c], ctlAt[c])
<1>1. packed \in Seq(Packet) /\ packed # <<>> /\ packed' = Tail(packed)
        /\ sspc = "encode" /\ sspc' = sspc
  BY DEF Inv, TypeOK, EncodePacket
<1>2. Taken = packed /\ Taken' = Tail(packed)
  BY <1>1 DEF Taken
<1>3. PICK T \in Seq(Packet) : T = packed
  BY <1>1
<1>4. /\ Of(T, c) # <<>> /\ Head(Of(T, c)) = p
      /\ Tail(Of(T, c)) = Of(Tail(T), c)
      /\ \A d \in Queues : d # c => Of(Tail(T), d) = Of(T, d)
  BY <1>1, <1>3, OfTail
<1>5. Line(c, Of(Taken, c), queue[c], sent[c], ctlSent[c], granted[c] - window[c],
           accepted[c], ctlAt[c])
  BY DEF LineInv
<1> QED BY <1>1, <1>2, <1>3, <1>4, <1>5

LEMMA EncodeLine ==
    ASSUME Inv, BufferInv, StreamInv, EncodePacket
    PROVE  StreamInv'
<1>1. PICK p \in Packet : p = Head(packed)
  <2>1. packed # <<>> /\ packed \in Seq(Packet)
    BY DEF EncodePacket, Inv, TypeOK
  <2> QED BY <2>1, HeadTailProperties
<1>2. PICK c \in Queues : c = p.q
  BY DEF Packet
<1>3. /\ sent' = IF p.kind = "data" THEN [sent EXCEPT ![c] = sent[c] + p.len] ELSE sent
      /\ ctlSent' = IF p.kind = "data" THEN ctlSent
                    ELSE [ctlSent EXCEPT ![c] = ctlSent[c] + 1]
      /\ UNCHANGED <<queue, window, userVars, granted, accepted, ctlAt, sspc>>
      /\ sspc = "encode"
  BY <1>1, <1>2 DEF EncodePacket, acceptVars
<1>4. PICK T \in Seq(Packet) : T = packed
  BY DEF Inv, TypeOK
<1>5. PICK U : U = Tail(T)
  OBVIOUS
<1>6. /\ Taken = T /\ Taken' = U /\ Of(T, c) # <<>> /\ Head(Of(T, c)) = p
      /\ Tail(Of(T, c)) = Of(U, c)
      /\ \A d \in Queues : d # c => Of(U, d) = Of(T, d)
      /\ Line(c, Of(T, c), queue[c], sent[c], ctlSent[c], granted[c] - window[c],
              accepted[c], ctlAt[c])
  BY <1>1, <1>2, <1>4, <1>5, EncodeExact DEF StreamInv
<1>7. /\ p.kind = "data" => Line(c, Of(U, c), queue[c], sent[c] + p.len, ctlSent[c],
                                 granted[c] - window[c], accepted[c], ctlAt[c])
      /\ p.kind # "data" => Line(c, Of(U, c), queue[c], sent[c], ctlSent[c] + 1,
                                 granted[c] - window[c], accepted[c], ctlAt[c])
  <2> DEFINE g == granted[c] - window[c]  O == Of(T, c)
  <2>1. g \in Nat /\ sent[c] \in Nat /\ ctlSent[c] \in Nat /\ accepted[c] \in Nat
          /\ ctlAt[c] \in Seq(Nat)
    BY QueueNumbers
  <2>2. Line(c, O, queue[c], sent[c], ctlSent[c], g, accepted[c], ctlAt[c]) /\ O # <<>>
    BY <1>6
  <2> HIDE DEF g, O
  <2>3. /\ Head(O).kind = "data" =>
             Line(c, Tail(O), queue[c], sent[c] + Head(O).len, ctlSent[c], g, accepted[c],
                  ctlAt[c])
        /\ Head(O).kind # "data" =>
             Line(c, Tail(O), queue[c], sent[c], ctlSent[c] + 1, g, accepted[c], ctlAt[c])
    BY <2>1, <2>2, LineSent
  <2> QED BY <2>3, <1>6 DEF g, O
<1>8. sent \in [Queues -> Nat] /\ ctlSent \in [Queues -> Nat]
  BY DEF Inv, TypeOK
<1>9. LineInv'
  <2> SUFFICES ASSUME NEW d \in Queues
               PROVE  Line(d, Of(U, d), queue[d], sent'[d], ctlSent'[d],
                           granted[d] - window[d], accepted[d], ctlAt[d])
    BY <1>3, <1>6 DEF LineInv
  <2>1. CASE d # c
    <3>1. sent'[d] = sent[d] /\ ctlSent'[d] = ctlSent[d] /\ Of(U, d) = Of(T, d)
      BY <2>1, <1>3, <1>6, <1>8
    <3> QED BY <3>1, <1>6 DEF StreamInv, LineInv
  <2>2. CASE d = c /\ p.kind = "data"
    <3>1. sent'[c] = sent[c] + p.len /\ ctlSent'[c] = ctlSent[c]
      BY <2>2, <1>3, <1>8
    <3> QED BY <3>1, <2>2, <1>7
  <2>3. CASE d = c /\ p.kind # "data"
    <3>1. sent'[c] = sent[c] /\ ctlSent'[c] = ctlSent[c] + 1
      BY <2>3, <1>3, <1>8
    <3> QED BY <3>1, <2>3, <1>7
  <2> QED BY <2>1, <2>2, <2>3
<1>10. TakeSmall' /\ CallSmall'
  BY <1>3 DEF StreamInv, TakeSmall, CallSmall, userVars
<1> QED BY <1>9, <1>10 DEF StreamInv

LEMMA SendLine ==
    ASSUME Inv, StreamInv, SendBuffer \/ SendFails
    PROVE  StreamInv'
<1>1. /\ UNCHANGED <<queue, window, granted, sent, ctlSent, accepted, ctlAt, packed,
                     userVars>>
      /\ sspc = "encode" /\ sspc' \in {"pick", "dead"}
  BY DEF SendBuffer, SendFails, acceptVars, wireVars
<1>2. LineInv'
  BY <1>1, SameLine DEF StreamInv, Taken
<1> QED BY <1>1, <1>2 DEF StreamInv, TakeSmall, CallSmall, userVars

LEMMA InitLine == Init => StreamInv
<1> SUFFICES ASSUME Init PROVE StreamInv
  OBVIOUS
<1>1. Taken = <<>>
  BY DEF Init, Taken
<1>2. ASSUME NEW c \in Queues
      PROVE  Line(c, Of(Taken, c), queue[c], sent[c], ctlSent[c], granted[c] - window[c],
                  accepted[c], ctlAt[c])
  <2>1. Of(Taken, c) = <<>>
    BY <1>1, SelectionEmpty DEF Of
  <2>2. queue[c] = <<>> /\ sent[c] = 0 /\ ctlSent[c] = 0 /\ accepted[c] = 0 /\ ctlAt[c] = <<>>
    BY <1>2 DEF Init
  <2>3. granted[c] - window[c] = 0
    BY <1>2, ConstantsType DEF Init
  <2>4. Bytes(<<>>, 0, 0)
    BY BytesEmpty
  <2>5. Ranks(<<>>, 0, 0)
    <3>1. <<>> \in Seq(Packet) /\ \A i \in 1 .. Len(<<>>) : <<>>[i].kind = "data"
      OBVIOUS
    <3> QED BY <3>1, RanksNone
  <2>6. Len(<<>>) = 0 /\ 0 \in 0 .. 0 /\ <<>> \in Seq(Sendable(c, <<>>))
          /\ <<>> \in Seq(Accepted(c, <<>>))
    OBVIOUS
  <2>7. Line(c, <<>>, <<>>, 0, 0, 0, 0, <<>>)
    BY <2>4, <2>5, <2>6 DEF Line
  <2> QED BY <2>1, <2>2, <2>3, <2>7
<1>3. TakeSmall /\ CallSmall
  BY DEF Init, TakeSmall, CallSmall
<1> QED BY <1>2, <1>3 DEF StreamInv, LineInv

LEMMA NextLine ==
    ASSUME Inv, BufferInv, StreamInv, [Next]_vars
    PROVE  StreamInv'
<1>1. ASSUME NEW t \in Threads, QueueOutboundData(t) PROVE StreamInv'
  <2>1. PICK p \in UserPackets : WithinBounds(p) /\ QueueOrWait(t, p)
    BY <1>1 DEF QueueOutboundData
  <2>2. p \in Packet /\ (p.kind = "data" => p.len \in 1 .. MaxBytes)
    BY <2>1, UserPacketsType, UserSmall
  <2> QED BY <1>1, <2>1, <2>2, QueueOrWaitLine DEF QueueOutboundData
<1>2. ASSUME NEW t \in Threads, WakeUp(t) PROVE StreamInv'
  <2>1. pc[t] # "idle" /\ request[t] \in Packet
    BY <1>2 DEF WakeUp, Inv, CallOK
  <2>2. request[t].kind = "data" => request[t].len \in 1 .. MaxBytes
    BY <2>1 DEF StreamInv, CallSmall
  <2> QED BY <1>2, <2>1, <2>2, QueueOrWaitLine DEF WakeUp
<1>3. ASSUME NEW c \in Channels, QueueWindowAdjust(c) PROVE StreamInv'
  BY <1>3, QueueWindowAdjustLine
<1>4. ASSUME NEW c \in Channels, NEW k \in Grants, AdjustWindowSizeRemote(c, k)
      PROVE  StreamInv'
  BY <1>4, AdjustWindowLine
<1>5. CASE VisitEmpty
  <2>1. ContinueWith(found) /\ sspc = "pick"
    BY <1>5 DEF VisitEmpty
  <2>2. PICK p \in Packet \cup {None} : p = found
    BY <2>1, FoundHere
  <2>3. p # None => PacketTotal(p) > Room
    BY <2>1, <2>2, FoundHere
  <2> QED BY <1>5, <2>1, <2>2, <2>3, LookOnLine DEF VisitEmpty
<1>6. CASE VisitBlockedData
  <2>1. ContinueWith(None) /\ sspc = "pick"
    BY <1>6 DEF VisitBlockedData, HeadIs
  <2> QED BY <1>6, <2>1, LookOnLine DEF VisitBlockedData
<1>7. CASE VisitData
  BY <1>7, VisitDataLine
<1>8. CASE TakeData
  BY <1>8, TakeDataLine
<1>9. CASE VisitControl
  BY <1>9, VisitControlLine
<1>10. CASE VisitTooLarge
  BY <1>10, VisitTooLargeLine
<1>11. CASE SignalWriters
  BY <1>11, SignalWritersLine
<1>12. CASE EncodePacket
  BY <1>12, EncodeLine
<1>13. CASE SendBuffer \/ SendFails
  BY <1>13, SendLine
<1>14. CASE UNCHANGED vars
  <2>1. UNCHANGED <<queue, window, granted, sent, ctlSent, accepted, ctlAt, packed, found,
                    rawLeft, sspc, current, pc, request>>
    BY <1>14 DEF vars, userVars, ssVars, iterVars, acceptVars, wireVars
  <2>2. LineInv'
    BY <2>1, SameLine DEF StreamInv, Taken, Room, Minus
  <2> QED BY <2>1, <2>2 DEF StreamInv, TakeSmall, CallSmall
<1> QED BY <1>1, <1>2, <1>3, <1>4, <1>5, <1>6, <1>7, <1>8, <1>9, <1>10, <1>11, <1>12,
           <1>13, <1>14 DEF Next, SocketSend, GetNextPacket

LEMMA LineInvariance == Spec => [](Inv /\ BufferInv /\ StreamInv)
<1>1. Init => Inv /\ BufferInv /\ StreamInv
  BY InitInv, InitBuffer, InitLine
<1>2. Inv /\ BufferInv /\ StreamInv /\ [Next]_vars => (Inv /\ BufferInv /\ StreamInv)'
  BY NextInv, NextBuffer, NextLine, LineHeads DEF StreamInv
<1> QED BY <1>1, <1>2, PTL DEF Spec

\* Whatever the sizes of packets, buffers and windows: data, cut to the room, and what was
\* taken out of a queue never overrun the raw buffer of SocketSend; the packet that does is
\* still the first of its queue.
THEOREM BufferCorrect == Spec => []OnlyPeekedOverruns
<1>1. BufferInv => OnlyPeekedOverruns
  BY DEF BufferInv, RoomOK, FoundOK, Peeked, OnlyPeekedOverruns
<1> QED BY <1>1, LineInvariance, PTL

\* What is packed, but for the packet that overruns the buffer, was taken.
LEMMA PackedTaken ==
    ASSUME Inv, BufferInv, NEW i \in 1 .. Len(packed), ~ (sspc = "overrun" /\ i = Len(packed))
    PROVE  \E k \in 1 .. Len(Taken) : Taken[k] = packed[i]
<1>1. packed \in Seq(Packet) /\ Len(packed) \in Nat
  BY DEF Inv, TypeOK
<1>2. CASE sspc = "signal" /\ PacketTotal(found) <= Room
  <2>1. Taken = Append(packed, found) /\ found \in Packet
    BY <1>2 DEF Taken, Inv, SignalOK
  <2>2. Len(Taken) = Len(packed) + 1 /\ Taken[i] = packed[i]
    BY <1>1, <2>1
  <2> QED BY <1>1, <2>2
<1>3. CASE sspc = "overrun"
  <2>1. Taken = SubSeq(packed, 1, Len(packed) - 1)
    BY <1>3 DEF Taken, Front
  <2>2. i \in 1 .. Len(packed) - 1
    BY <1>1, <1>3
  <2>3. Len(Taken) = Len(packed) - 1 /\ Taken[i] = packed[i]
    BY <1>1, <2>1, <2>2
  <2> QED BY <2>2, <2>3
<1>4. CASE ~ (sspc = "signal" /\ PacketTotal(found) <= Room) /\ sspc # "overrun"
  BY <1>4 DEF Taken
<1> QED BY <1>2, <1>3, <1>4

\* A packet that SocketSend has packed, and will delete when it is encoded, is in no
\* queue any more, whatever was split, queued and granted in between; but for the one that
\* overruns the buffer.
THEOREM NoDanglingAlways == Spec => []NoDangling
<1>1. Inv /\ BufferInv /\ StreamInv => NoDangling
  <2> SUFFICES ASSUME Inv, BufferInv, StreamInv,
                      NEW i \in DOMAIN packed, NEW j \in DOMAIN queue[packed[i].q],
                      ~ (sspc = "overrun" /\ i = Len(packed))
               PROVE  queue[packed[i].q][j] # packed[i]
    BY DEF NoDangling
  <2>1. PICK T \in Seq(Packet) : T = Taken
    BY TakenType
  <2>2. packed \in Seq(Packet) /\ i \in 1 .. Len(packed)
    <3>1. packed \in Seq(Packet)
      BY DEF Inv, TypeOK
    <3> QED BY <3>1
  <2>3. PICK p \in Packet : p = packed[i]
    BY <2>2
  <2>4. PICK c \in Queues : c = p.q
    BY DEF Packet
  <2>5. Holds(T, p)
    BY <2>1, <2>2, <2>3, PackedTaken DEF Holds
  <2>6. Holds(Of(T, c), p)
    <3> DEFINE S == {r \in Packet : r.q = c}
    <3>1. p \in S
      BY <2>4
    <3> HIDE DEF S
    <3>2. Holds(Selection(T, S), p)
      BY <2>5, <3>1, SelectionHolds
    <3> QED BY <3>2 DEF Of, S
  <2>7. PICK k \in 1 .. Len(Of(T, c)) : Of(T, c)[k] = p
    BY <2>6 DEF Holds
  <2>8. Line(c, Of(T, c), queue[c], sent[c], ctlSent[c], granted[c] - window[c],
             accepted[c], ctlAt[c])
    BY <2>1 DEF StreamInv, LineInv
  <2>9. j \in 1 .. Len(queue[c])
    <3>1. queue[c] \in Seq(Packet)
      BY QueueNumbers
    <3> QED BY <3>1, <2>3, <2>4
  <2>10. Of(T, c)[k] # queue[c][j]
    BY <2>8, <2>9, QueueNumbers, LineApart
  <2> QED BY <2>3, <2>4, <2>7, <2>10
<1> QED BY <1>1, LineInvariance, PTL
-----------------------------------------------------------------------------
(* The refinement. *)

LEMMA InitStream == Init => Stream!StreamInit
<1> SUFFICES ASSUME Init PROVE Stream!StreamInit
  OBVIOUS
<1>1. granted \in [Queues -> Nat]
  BY ConstantsType DEF Init
<1> QED BY <1>1 DEF Init, Stream!StreamInit

\* The sizes of the abstract calls.
LEMMA StreamSizes ==
    /\ 1 .. MaxBytes \subseteq 1 .. (MaxBytes + MaxGrant)
    /\ 1 .. MaxGrant \subseteq 1 .. (MaxBytes + MaxGrant)
<1>1. MaxBytes \in Nat /\ MaxGrant \in Nat
  BY OutboundAssumption
<1> QED BY <1>1

\* Enqueueing accepts data or a control packet.
LEMMA EnqueueStream ==
    ASSUME Inv, NEW p \in Packet, p.kind = "data" => p.len \in 1 .. MaxBytes,
           Enqueue(p), UNCHANGED <<wireVars, granted>>
    PROVE  Stream!StreamNext
<1>1. PICK c \in Queues : c = p.q
  BY DEF Packet
<1>2. /\ accepted' = IF p.kind = "data"
                     THEN [accepted EXCEPT ![c] = accepted[c] + p.len] ELSE accepted
      /\ ctlAt' = IF p.kind = "data" THEN ctlAt
                  ELSE [ctlAt EXCEPT ![c] = Append(ctlAt[c], accepted[c])]
  BY <1>1 DEF Enqueue
<1>3. UNCHANGED <<sent, ctlSent, granted, out>>
  BY DEF wireVars
<1>4. CASE p.kind = "data"
  <2>1. PICK k \in 1 .. (MaxBytes + MaxGrant) : k = p.len
    BY <1>4, StreamSizes
  <2>2. Stream!AcceptData(c, k)
    BY <1>2, <1>3, <1>4, <2>1 DEF Stream!AcceptData
  <2> QED BY <2>2 DEF Stream!StreamNext
<1>5. CASE p.kind # "data"
  <2>1. Stream!AcceptControl(c)
    BY <1>2, <1>3, <1>5 DEF Stream!AcceptControl
  <2> QED BY <2>1 DEF Stream!StreamNext
<1> QED BY <1>4, <1>5

LEMMA QueueOrWaitStream ==
    ASSUME Inv, NEW t \in Threads, NEW p \in Packet,
           p.kind = "data" => p.len \in 1 .. MaxBytes, QueueOrWait(t, p),
           UNCHANGED <<wireVars, granted>>
    PROVE  Stream!StreamNext \/ UNCHANGED Stream!streamVars
<1>1. CASE p.q = Main \/ PacketTotal(p) <= BytesAllowed(p.q)
  <2>1. Enqueue(p)
    BY <1>1 DEF QueueOrWait
  <2> QED BY <2>1, EnqueueStream
<1>2. CASE ~ (p.q = Main \/ PacketTotal(p) <= BytesAllowed(p.q))
  <2>1. UNCHANGED acceptVars
    BY <1>2 DEF QueueOrWait
  <2> QED BY <2>1 DEF acceptVars, wireVars, Stream!streamVars
<1> QED BY <1>1, <1>2

\* What the peer grants is granted.
LEMMA GrantStream ==
    ASSUME Inv, NEW c \in Channels, NEW k \in Grants, AdjustWindowSizeRemote(c, k)
    PROVE  Stream!StreamNext
<1>1. /\ c \in Queues /\ k \in 1 .. (MaxBytes + MaxGrant)
      /\ granted' = [granted EXCEPT ![c] = granted[c] + k]
  BY GrantExact, StreamSizes
<1>2. UNCHANGED <<accepted, ctlAt, sent, ctlSent, out>>
  BY DEF AdjustWindowSizeRemote, acceptVars, wireVars
<1>3. Stream!Grant(c, k)
  BY <1>1, <1>2 DEF Stream!Grant
<1> QED BY <1>1, <1>3 DEF Stream!StreamNext

\* What is encoded is the next piece or the next control packet, at its place and
\* within what the peer allows.
LEMMA EncodeStream ==
    ASSUME Inv, BufferInv, StreamInv, EncodePacket
    PROVE  Stream!StreamNext
<1>1. PICK p \in Packet : p = Head(packed)
  <2>1. packed # <<>> /\ packed \in Seq(Packet)
    BY DEF EncodePacket, Inv, TypeOK
  <2> QED BY <2>1, HeadTailProperties
<1>2. PICK c \in Queues : c = p.q
  BY DEF Packet
<1>3. /\ sent' = IF p.kind = "data" THEN [sent EXCEPT ![c] = sent[c] + p.len] ELSE sent
      /\ ctlSent' = IF p.kind = "data" THEN ctlSent
                    ELSE [ctlSent EXCEPT ![c] = ctlSent[c] + 1]
      /\ out' = [out EXCEPT ![c] = [n |-> p.n, off |-> p.off,
                    len |-> IF p.kind = "data" THEN p.len ELSE 0]]
      /\ UNCHANGED <<granted, accepted, ctlAt>>
  BY <1>1, <1>2 DEF EncodePacket, acceptVars
<1>4. PICK O : O = Of(packed, c)
  OBVIOUS
<1>5. PICK g \in Nat : g = granted[c] - window[c]
  BY QueueNumbers
<1>6. /\ O # <<>> /\ Head(O) = p
      /\ Line(c, O, queue[c], sent[c], ctlSent[c], g, accepted[c], ctlAt[c])
  BY <1>1, <1>2, <1>4, <1>5, EncodeExact DEF StreamInv
<1>7. /\ p \in Sendable(c, ctlAt[c]) /\ p.off = sent[c]
      /\ p.kind = "data" =>
           /\ sent[c] + p.len <= g /\ sent[c] + p.len <= accepted[c]
           /\ ctlSent[c] < Len(ctlAt[c]) => sent[c] + p.len <= ctlAt[c][ctlSent[c] + 1]
      /\ p.kind # "data" =>
           /\ p.n = ctlSent[c] + 1 /\ ctlSent[c] < Len(ctlAt[c])
           /\ ctlAt[c][ctlSent[c] + 1] = sent[c]
  <2>1. sent[c] \in Nat /\ ctlSent[c] \in Nat /\ accepted[c] \in Nat /\ ctlAt[c] \in Seq(Nat)
    BY QueueNumbers
  <2> DEFINE A == ctlAt[c]  Q == queue[c]  s == sent[c]  x == ctlSent[c]  a == accepted[c]
  <2>2. /\ s \in Nat /\ x \in Nat /\ a \in Nat /\ A \in Seq(Nat)
        /\ Line(c, O, Q, s, x, g, a, A) /\ O # <<>>
    BY <2>1, <1>6
  <2> HIDE DEF A, Q, s, x, a
  <2>3. /\ Head(O) \in Sendable(c, A) /\ Head(O).off = s
        /\ Head(O).kind = "data" =>
             /\ s + Head(O).len <= g /\ s + Head(O).len <= a
             /\ x < Len(A) => s + Head(O).len <= A[x + 1]
             /\ Line(c, Tail(O), Q, s + Head(O).len, x, g, a, A)
        /\ Head(O).kind # "data" =>
             /\ Head(O).n = x + 1 /\ x < Len(A) /\ A[x + 1] = s
             /\ Line(c, Tail(O), Q, s, x + 1, g, a, A)
    BY <2>2, LineSent, Zenon
  <2> QED BY <2>3, <1>6 DEF A, Q, s, x, a
<1>8. CASE p.kind = "data"
  <2>1. PICK k \in 1 .. (MaxBytes + MaxGrant) : k = p.len
    BY <1>7, <1>8, StreamSizes DEF Sendable, Accepted
  <2>2. k > 0 /\ k <= MaxPacketRemote
    BY <1>7, <1>8, <2>1 DEF Sendable
  <2>3. sent[c] + k <= granted[c]
    <3>1. window[c] \in Nat /\ granted[c] \in Nat /\ sent[c] \in Nat
      BY QueueNumbers
    <3> QED BY <3>1, <1>5, <1>7, <1>8, <2>1
  <2>4. p.n = 0
    BY <1>7, <1>8 DEF Sendable, Accepted
  <2>5. Stream!SendData(c, k)
    BY <1>3, <1>7, <1>8, <2>1, <2>2, <2>3, <2>4 DEF Stream!SendData
  <2> QED BY <2>5 DEF Stream!StreamNext
<1>9. CASE p.kind # "data"
  <2>1. Stream!SendControl(c)
    BY <1>3, <1>7, <1>9 DEF Stream!SendControl
  <2> QED BY <2>1 DEF Stream!StreamNext
<1> QED BY <1>8, <1>9

LEMMA NextStream ==
    ASSUME Inv, BufferInv, StreamInv, [Next]_vars
    PROVE  [Stream!StreamNext]_(Stream!streamVars)
<1> DEFINE Goal == Stream!StreamNext \/ UNCHANGED Stream!streamVars
<1>1. ASSUME NEW t \in Threads, QueueOutboundData(t) PROVE Goal
  <2>1. PICK p \in UserPackets : WithinBounds(p) /\ QueueOrWait(t, p)
    BY <1>1 DEF QueueOutboundData
  <2>2. p \in Packet /\ (p.kind = "data" => p.len \in 1 .. MaxBytes)
    BY <2>1, UserPacketsType, UserSmall
  <2> QED BY <1>1, <2>1, <2>2, QueueOrWaitStream DEF QueueOutboundData
<1>2. ASSUME NEW t \in Threads, WakeUp(t) PROVE Goal
  <2>1. pc[t] # "idle" /\ request[t] \in Packet
    BY <1>2 DEF WakeUp, Inv, CallOK
  <2>2. request[t].kind = "data" => request[t].len \in 1 .. MaxBytes
    BY <2>1 DEF StreamInv, CallSmall
  <2> QED BY <1>2, <2>1, <2>2, QueueOrWaitStream DEF WakeUp
<1>3. ASSUME NEW c \in Channels, QueueWindowAdjust(c) PROVE Goal
  <2> DEFINE p == [q |-> c, kind |-> "control", off |-> 0, len |-> 9, n |-> 0]
  <2>1. p \in Packet /\ p.kind # "data"
    BY DEF Packet, Kinds, Queues
  <2>2. Enqueue(p) /\ UNCHANGED <<wireVars, granted>>
    BY <1>3 DEF QueueWindowAdjust
  <2> HIDE DEF p
  <2> QED BY <2>1, <2>2, EnqueueStream
<1>4. ASSUME NEW c \in Channels, NEW k \in Grants, AdjustWindowSizeRemote(c, k) PROVE Goal
  BY <1>4, GrantStream
<1>5. CASE GetNextPacket
  BY <1>5 DEF GetNextPacket, VisitEmpty, VisitBlockedData, VisitData, TakeData, VisitControl,
              VisitTooLarge, SignalWriters, acceptVars, wireVars, Stream!streamVars
<1>6. CASE EncodePacket
  BY <1>6, EncodeStream
<1>7. CASE SendBuffer \/ SendFails
  BY <1>7 DEF SendBuffer, SendFails, acceptVars, wireVars, Stream!streamVars
<1>8. CASE UNCHANGED vars
  BY <1>8 DEF vars, acceptVars, wireVars, Stream!streamVars
<1> QED BY <1>1, <1>2, <1>3, <1>4, <1>5, <1>6, <1>7, <1>8 DEF Next, SocketSend

\* The bytes of every channel leave once, in order, in pieces within the peer's window
\* and its packet limit, and no control packet is passed or passes: SocketSend with its
\* splitting, its charges and its raw buffer implements the stream.
THEOREM StreamImplemented == Spec => ImplementsStream
<1>1. Init => Stream!StreamInit
  BY InitStream
<1>2. (Inv /\ BufferInv /\ StreamInv) /\ [Next]_vars
        => [Stream!StreamNext]_(Stream!streamVars)
  BY NextStream
<1> QED BY <1>1, <1>2, LineInvariance, PTL DEF Spec, ImplementsStream, Stream!StreamSpec
-----------------------------------------------------------------------------
(* No lost wakeup. *)

\* Every packet that a call may wait with is smaller than the limit on a queue.
CallsFit ==
    /\ \A k \in DataSizes : DataTotal(k) <= MaxOutQ
    /\ \A k \in ControlSizes : TotalLen(k) <= MaxOutQ

\* n is the sum of the total lengths of the packets of s.
Weighs(s, n) ==
    \E f \in [1 .. Len(s) + 1 -> Nat] :
        /\ f[1] = 0 /\ f[Len(s) + 1] = n
        /\ \A i \in 1 .. Len(s) : f[i + 1] = f[i] + PacketTotal(s[i])

\* Equal as uint32 values.
Same(a, b) == \E k \in Int : a = b + k * Word

\* The packets of a queue say so, and m_totalBytesInQ, a uint32, counts them modulo
\* Word.
CountOK ==
    \A c \in Queues :
        /\ queue[c] \in Seq({p \in Packet : p.q = c})
        /\ \E n \in Nat : Weighs(queue[c], n) /\ Same(totalBytes[c], n)
        /\ totalBytes[c] \in 0 .. (Word - 1)

\* The packet a thread waits with would fit in the empty queue.
WaitFits ==
    \A t \in Threads : pc[t] # "idle" =>
        request[t].q = Main \/ PacketTotal(request[t]) <= MaxOutQ

WakeInv == CountOK /\ WaitFits /\ NoLostWakeup

LEMMA MultiplesAdd ==
    ASSUME NEW j \in Int, NEW k \in Int, NEW w \in Int
    PROVE  j * w \in Int /\ (j + k) * w = j * w + k * w
  BY SMT

LEMMA SameRefl ==
    ASSUME NEW a \in Int
    PROVE  Same(a, a)
<1>1. 0 \in Int /\ a = a + 0 * Word
  BY ConstantsType
<1> QED BY <1>1 DEF Same

LEMMA SameTrans ==
    ASSUME NEW a \in Int, NEW b \in Int, NEW c \in Int, Same(a, b), Same(b, c)
    PROVE  Same(a, c)
<1>1. PICK j \in Int : a = b + j * Word
  BY DEF Same
<1>2. PICK k \in Int : b = c + k * Word
  BY DEF Same
<1>3. Word \in Int
  BY ConstantsType
<1>4. j * Word \in Int /\ k * Word \in Int /\ (j + k) * Word = j * Word + k * Word
        /\ j + k \in Int
  BY <1>3, MultiplesAdd
<1> DEFINE x == j * Word  y == k * Word  z == (j + k) * Word
<1>5. a = b + x /\ b = c + y /\ z = x + y /\ x \in Int /\ y \in Int
  BY <1>1, <1>2, <1>4
<1> HIDE DEF x, y, z
<1>6. a = c + z
  BY <1>5
<1> QED BY <1>4, <1>6 DEF Same, z

LEMMA SameAdd ==
    ASSUME NEW a \in Int, NEW b \in Int, NEW d \in Int, Same(a, b)
    PROVE  Same(a + d, b + d)
<1>1. PICK k \in Int : a = b + k * Word
  BY DEF Same
<1>2. k * Word \in Int
  BY MultiplesAdd, ConstantsType
<1> DEFINE x == k * Word
<1>3. a = b + x /\ x \in Int
  BY <1>1, <1>2
<1> HIDE DEF x
<1>4. a + d = (b + d) + x
  BY <1>3
<1> QED BY <1>4 DEF Same, x

LEMMA SameMod ==
    ASSUME NEW a \in Int
    PROVE  a % Word \in 0 .. (Word - 1) /\ Same(a % Word, a)
<1>1. Word \in Nat \ {0}
  BY ConstantsType
<1> DEFINE w == Word
<1> HIDE DEF w
<1>2. a = w * (a \div w) + (a % w) /\ a \div w \in Int /\ a % w \in 0 .. (w - 1)
  BY <1>1, SMT DEF w
<1> DEFINE k == a \div w  r == a % w
<1>3. a = w * k + r /\ k \in Int /\ r \in 0 .. (w - 1) /\ w \in Nat
  BY <1>1, <1>2 DEF w
<1> HIDE DEF k, r
<1>4. - k \in Int /\ r = a + (- k) * w
  BY <1>3, SMT
<1> QED BY <1>3, <1>4 DEF Same, w, r

LEMMA SameZero ==
    ASSUME NEW a \in 0 .. (Word - 1), Same(a, 0)
    PROVE  a = 0
<1>1. PICK k \in Int : a = 0 + k * Word
  BY DEF Same
<1>2. Word \in Nat \ {0}
  BY ConstantsType
<1> DEFINE w == Word
<1>3. w \in Nat \ {0} /\ a \in 0 .. (w - 1) /\ a = k * w
  BY <1>1, <1>2
<1> HIDE DEF w
<1>4. k > 0 => k * w >= w
  BY <1>3, SMT
<1>5. k < 0 => k * w <= - w
  BY <1>3, SMT
<1>6. k = 0
  BY <1>3, <1>4, <1>5
<1> QED BY <1>3, <1>6

(* The weight of a sequence of packets. *)

LEMMA WeighsEmpty == Weighs(<<>>, 0)
<1> DEFINE f == [i \in 1 .. Len(<<>>) + 1 |-> 0]
<1>1. Len(<<>>) = 0
  OBVIOUS
<1>2. f \in [1 .. Len(<<>>) + 1 -> Nat] /\ f[1] = 0 /\ f[Len(<<>>) + 1] = 0
  BY <1>1
<1> HIDE DEF f
<1> QED BY <1>1, <1>2 DEF Weighs

LEMMA WeighsNone ==
    ASSUME NEW n, Weighs(<<>>, n)
    PROVE  n = 0
  BY Len(<<>>) = 0 DEF Weighs

LEMMA WeighsConcat ==
    ASSUME NEW s \in Seq(Packet), NEW t \in Seq(Packet), NEW a \in Nat, NEW b \in Nat,
           Weighs(s, a), Weighs(t, b)
    PROVE  Weighs(s \o t, a + b)
<1> DEFINE u == s \o t  n == Len(s)  m == Len(t)
<1>1. /\ u \in Seq(Packet) /\ Len(u) = n + m /\ n \in Nat /\ m \in Nat
      /\ \A i \in 1 .. n : u[i] = s[i]
      /\ \A i \in n + 1 .. n + m : u[i] = t[i - n]
  BY ConcatProperties
<1>2. PICK f \in [1 .. n + 1 -> Nat] :
         /\ f[1] = 0 /\ f[n + 1] = a
         /\ \A i \in 1 .. n : f[i + 1] = f[i] + PacketTotal(s[i])
  BY DEF Weighs
<1>3. PICK g \in [1 .. m + 1 -> Nat] :
         /\ g[1] = 0 /\ g[m + 1] = b
         /\ \A i \in 1 .. m : g[i + 1] = g[i] + PacketTotal(t[i])
  BY DEF Weighs
<1>1a. n \in Nat /\ m \in Nat
  BY <1>1
<1> HIDE DEF u, n, m
<1> DEFINE h == [i \in 1 .. n + m + 1 |-> IF i <= n THEN f[i] ELSE a + g[i - n]]
<1>4. ASSUME NEW i \in 1 .. n + m + 1
      PROVE  h[i] \in Nat /\ (i <= n + 1 => h[i] = f[i]) /\ (n < i => h[i] = a + g[i - n])
  <2>1. h[i] = IF i <= n THEN f[i] ELSE a + g[i - n]
    OBVIOUS
  <2>2. CASE i <= n
    <3>1. i \in 1 .. n + 1 /\ ~ (n < i)
      BY <2>2, <1>1a
    <3>2. h[i] = f[i] /\ f[i] \in Nat
      BY <3>1, <2>1, <2>2, <1>2
    <3> QED BY <3>1, <3>2
  <2>3. CASE n < i
    <3>1. i - n \in 1 .. m + 1
      BY <2>3, <1>1
    <3>2. g[i - n] \in Nat
      BY <3>1, <1>3
    <3>3. h[i] = a + g[i - n]
      BY <2>1, <2>3, <1>1
    <3>4. i = n + 1 => h[i] = f[i]
      <4>1. i = n + 1 => i - n = 1
        BY <1>1
      <4> QED BY <4>1, <3>3, <1>2, <1>3
    <3>5. i <= n + 1 => i = n + 1
      BY <2>3, <1>1
    <3> QED BY <3>2, <3>3, <3>4, <3>5
  <2> QED BY <2>2, <2>3, <1>1
<1>5. h \in [1 .. n + m + 1 -> Nat]
  <2>1. \A i \in 1 .. n + m + 1 : h[i] \in Nat
    BY <1>4
  <2> QED BY <2>1
<1> HIDE DEF h
<1>6. h[1] = 0
  <2>1. 1 \in 1 .. n + m + 1 /\ 1 <= n + 1
    BY <1>1
  <2> QED BY <2>1, <1>2, <1>4
<1>7. h[n + m + 1] = a + b
  <2>1. n + m + 1 \in 1 .. n + m + 1 /\ n < n + m + 1 /\ (n + m + 1) - n = m + 1
    BY <1>1
  <2> QED BY <2>1, <1>3, <1>4
<1>8. ASSUME NEW i \in 1 .. n + m PROVE h[i + 1] = h[i] + PacketTotal(u[i])
  <2>0. i \in 1 .. n + m + 1 /\ i + 1 \in 1 .. n + m + 1
    BY SMTT(30), <1>1a
  <2>1. CASE i <= n
    <3>1. i \in 1 .. n /\ i <= n + 1 /\ i + 1 <= n + 1
      BY <2>1, <1>1
    <3>2. h[i] = f[i] /\ h[i + 1] = f[i + 1]
      BY <2>0, <3>1, <1>4
    <3> QED BY <3>1, <3>2, <1>1, <1>2
  <2>2. CASE n < i
    <3>1. /\ i - n \in 1 .. m /\ i \in n + 1 .. n + m /\ (i + 1) - n = (i - n) + 1
          /\ n < i + 1
      BY <2>2, <1>1a
    <3>2. h[i] = a + g[i - n] /\ h[i + 1] = a + g[(i - n) + 1]
      BY <2>0, <2>2, <3>1, <1>4
    <3>3. g[(i - n) + 1] = g[i - n] + PacketTotal(t[i - n]) /\ u[i] = t[i - n]
      BY <3>1, <1>1, <1>3
    <3>4. g[i - n] \in Nat /\ PacketTotal(t[i - n]) \in Nat
      <4>1. i - n \in 1 .. m + 1
        BY <3>1, <1>1
      <4>2. t[i - n] \in Packet
        BY <3>1, ElementOfSeq DEF m
      <4> QED BY <4>1, <4>2, <1>3, PacketTotalType
    <3> QED BY <3>2, <3>3, <3>4
  <2> QED BY <2>1, <2>2, <1>1
<1>9. Weighs(u, a + b)
  <2>1. Len(u) + 1 = n + m + 1
    BY <1>1
  <2> QED BY ZenonT(40), <2>1, <1>1, <1>5, <1>6, <1>7, <1>8 DEF Weighs
<1> QED BY <1>9 DEF u

LEMMA WeighsSingle ==
    ASSUME NEW p \in Packet
    PROVE  Weighs(<<p>>, PacketTotal(p))
<1> DEFINE s == <<p>>  f == [i \in 1 .. 2 |-> IF i = 1 THEN 0 ELSE PacketTotal(p)]
<1>1. Len(s) = 1 /\ s[1] = p
  OBVIOUS
<1>2. PacketTotal(p) \in Nat
  BY PacketTotalType
<1>3. f \in [1 .. 2 -> Nat] /\ f[1] = 0 /\ f[2] = PacketTotal(p)
  BY <1>2
<1> HIDE DEF s, f
<1>4. \A i \in 1 .. 1 : i = 1
  OBVIOUS
<1>5. Weighs(s, PacketTotal(p))
  BY <1>1, <1>2, <1>3, <1>4 DEF Weighs
<1> QED BY <1>5 DEF s

LEMMA WeighsAppend ==
    ASSUME NEW s \in Seq(Packet), NEW p \in Packet, NEW a \in Nat, Weighs(s, a)
    PROVE  Weighs(Append(s, p), a + PacketTotal(p))
<1> DEFINE t == <<p>>
<1>1. Append(s, p) = s \o t /\ t \in Seq(Packet)
  OBVIOUS
<1>2. Weighs(t, PacketTotal(p)) /\ PacketTotal(p) \in Nat
  BY WeighsSingle, PacketTotalType
<1> HIDE DEF t
<1>3. Weighs(s \o t, a + PacketTotal(p))
  BY <1>1, <1>2, WeighsConcat
<1> QED BY <1>1, <1>3

LEMMA WeighsTail ==
    ASSUME NEW s \in Seq(Packet), s # <<>>, NEW a \in Nat, Weighs(s, a)
    PROVE  /\ a - PacketTotal(Head(s)) \in Nat
           /\ Weighs(Tail(s), a - PacketTotal(Head(s)))
<1> DEFINE t == Tail(s)  n == Len(t)  w == PacketTotal(Head(s))
<1>1. /\ t \in Seq(Packet) /\ Len(s) = n + 1 /\ n \in Nat /\ Head(s) = s[1]
      /\ \A i \in 1 .. n : t[i] = s[i + 1]
  OBVIOUS
<1>2. PICK f \in [1 .. Len(s) + 1 -> Nat] :
         /\ f[1] = 0 /\ f[Len(s) + 1] = a
         /\ \A i \in 1 .. Len(s) : f[i + 1] = f[i] + PacketTotal(s[i])
  BY DEF Weighs
<1>3. w \in Nat
  BY <1>1, PacketTotalType
<1>4. Len(t) = n
  BY DEF n
<1> HIDE DEF t, n, w
<1>5. f[2] = w
  <2>1. 1 \in 1 .. Len(s)
    BY <1>1
  <2>2. f[1 + 1] = f[1] + PacketTotal(s[1])
    BY <2>1, <1>2
  <2> QED BY <2>2, <1>1, <1>2, <1>3 DEF w
<1> DEFINE T == {k \in Nat : k + 2 <= n + 2 => f[k + 2] >= w}
<1>6. Nat \subseteq T
  <2>1. 0 \in T
    BY <1>3, <1>5
  <2>2. ASSUME NEW k \in Nat, k \in T PROVE k + 1 \in T
    <3> SUFFICES ASSUME k + 3 <= n + 2 PROVE f[(k + 1) + 2] >= w
      OBVIOUS
    <3>1. k + 2 \in 1 .. Len(s) /\ (k + 2) + 1 = (k + 1) + 2 /\ k + 2 <= n + 2
            /\ k + 2 \in 1 .. Len(s) + 1
      BY <1>1
    <3>2. f[(k + 2) + 1] = f[k + 2] + PacketTotal(s[k + 2])
      BY <3>1, <1>2
    <3>3. f[k + 2] >= w
      BY <2>2, <3>1
    <3>4. PacketTotal(s[k + 2]) \in Nat
      <4>1. s[k + 2] \in Packet
        BY <3>1, ElementOfSeq
      <4> QED BY <4>1, PacketTotalType
    <3>5. f[k + 2] \in Nat
      BY <3>1, <1>2
    <3> QED BY <3>1, <3>2, <3>3, <3>4, <3>5, <1>3
  <2> HIDE DEF T
  <2> QED BY <2>1, <2>2, NatSetInduction
<1>7. \A i \in 2 .. n + 2 : f[i] \in Nat /\ f[i] >= w
  <2> SUFFICES ASSUME NEW i \in 2 .. n + 2 PROVE f[i] \in Nat /\ f[i] >= w
    OBVIOUS
  <2>1. i \in 1 .. Len(s) + 1
    BY <1>1
  <2>2. f[i] \in Nat
    BY <2>1, <1>2
  <2>3. i - 2 \in Nat /\ (i - 2) + 2 = i /\ i <= n + 2
    BY <1>1
  <2>4. i - 2 \in T
    BY <1>6, <2>3
  <2>5. (i - 2) + 2 <= n + 2 => f[(i - 2) + 2] >= w
    BY <2>4
  <2> HIDE DEF T
  <2> QED BY <2>2, <2>3, <2>5
<1> HIDE DEF T
<1> DEFINE g == [i \in 1 .. n + 1 |-> f[i + 1] - w]
<1>8. \A i \in 1 .. n + 1 : g[i] = f[i + 1] - w /\ g[i] \in Nat
  <2> SUFFICES ASSUME NEW i \in 1 .. n + 1 PROVE f[i + 1] - w \in Nat
    OBVIOUS
  <2>1. i + 1 \in 2 .. n + 2
    BY <1>1
  <2> QED BY <2>1, <1>3, <1>7
<1>9. g \in [1 .. n + 1 -> Nat]
  BY <1>8
<1> HIDE DEF g
<1>10. g[1] = 0 /\ g[n + 1] = a - w
  <2>1. 1 \in 1 .. n + 1 /\ n + 1 \in 1 .. n + 1 /\ (n + 1) + 1 = Len(s) + 1 /\ 1 + 1 = 2
    BY <1>1
  <2>2. g[1] = f[1 + 1] - w /\ g[n + 1] = f[(n + 1) + 1] - w
    BY <2>1, <1>8
  <2> QED BY <2>1, <2>2, <1>2, <1>3, <1>5
<1>11. ASSUME NEW i \in 1 .. n PROVE g[i + 1] = g[i] + PacketTotal(t[i])
  <2>1. /\ i \in 1 .. n + 1 /\ i + 1 \in 1 .. n + 1 /\ i + 1 \in 1 .. Len(s)
        /\ i + 1 \in 2 .. n + 2 /\ (i + 1) + 1 \in 2 .. n + 2
    BY <1>1
  <2>2. g[i] = f[i + 1] - w /\ g[i + 1] = f[(i + 1) + 1] - w
    BY <2>1, <1>8
  <2>3. f[(i + 1) + 1] = f[i + 1] + PacketTotal(s[i + 1]) /\ t[i] = s[i + 1]
    BY <2>1, <1>1, <1>2
  <2>4. PacketTotal(t[i]) \in Nat
    <3>1. t[i] \in Packet
      BY <1>1, <1>4, ElementOfSeq
    <3> QED BY <3>1, PacketTotalType
  <2>5. f[i + 1] \in Nat
    BY <2>1, <1>7
  <2> QED BY <2>2, <2>3, <2>4, <2>5, <1>3
<1>12. a - w \in Nat
  <2>1. n + 1 \in 1 .. n + 1
    BY <1>1
  <2> QED BY <2>1, <1>8, <1>10
<1>13. Weighs(t, a - w)
  BY <1>1, <1>4, <1>9, <1>10, <1>11 DEF Weighs
<1> QED BY <1>12, <1>13 DEF t, w

\* The lengths of the rest of a split packet: q whole ones and what remains.
LEMMA RestLengths ==
    ASSUME NEW a \in Nat \ {0}, NEW b \in Nat \ {0}
    PROVE  LET q == a \div b
               r == a % b
               n == (a + b - 1) \div b
           IN  /\ q \in Nat /\ r \in 0 .. (b - 1)
               /\ n = IF r = 0 THEN q ELSE q + 1
               /\ \A i \in 1 .. n : Smaller(b, a - (i - 1) * b) = IF i <= q THEN b ELSE r
<1> DEFINE q == a \div b  r == a % b  n == (a + b - 1) \div b
<1>1. a = b * q + r /\ r \in 0 .. (b - 1) /\ q \in Nat
  <2>1. a = b * (a \div b) + (a % b) /\ a \div b \in Int /\ a % b \in 0 .. (b - 1)
    BY SMT
  <2>2. a \div b \in Nat
    BY DivBound
  <2> QED BY <2>1, <2>2
<1>2. n \in Nat /\ n >= 1 /\ (n - 1) * b < a /\ a <= n * b
  BY PieceCount
<1> HIDE DEF q, r, n
<1>3. \A i \in Nat, j \in Nat : i <= j => i * b <= j * b
  BY ProductMonotone
<1>4. \A i \in Nat : i * b \in Nat /\ (i + 1) * b = i * b + b
  <2> SUFFICES ASSUME NEW i \in Nat PROVE i * b \in Nat /\ (i + 1) * b = i * b + b
    OBVIOUS
  <2>1. i * b \in Nat
    BY ProductNat
  <2>2. (i + 1) * b = i * b + b
    BY SMT
  <2> QED BY <2>1, <2>2
<1>5. b * q = q * b
  BY <1>1
<1> DEFINE m(i) == i * b
<1>6. /\ \A i \in Nat, j \in Nat : i <= j => m(i) <= m(j)
      /\ \A i \in Nat : m(i) \in Nat /\ m(i + 1) = m(i) + b
      /\ m(n - 1) < a /\ a <= m(n) /\ a = m(q) + r
  BY <1>1, <1>2, <1>3, <1>4, <1>5
<1>7. \A i \in 1 .. n : Smaller(b, a - (i - 1) * b) = Smaller(b, a - m(i - 1))
  OBVIOUS
<1> HIDE DEF m
<1>8. q <= n
  <2> SUFFICES ASSUME n + 1 <= q PROVE FALSE
    BY <1>1, <1>2
  <2>1. m(n + 1) <= m(q) /\ m(n + 1) = m(n) + b /\ m(n) \in Nat /\ m(q) \in Nat
          /\ m(n + 1) \in Nat
    BY <1>1, <1>2, <1>6
  <2> QED BY <2>1, <1>1, <1>6
<1>9. n <= q + 1
  <2> SUFFICES ASSUME q + 1 <= n - 1 PROVE FALSE
    BY <1>1, <1>2
  <2>1. n - 1 \in Nat /\ q + 1 \in Nat
    BY <1>1, <1>2
  <2>2. /\ m(q + 1) <= m(n - 1) /\ m(q + 1) = m(q) + b /\ m(q) \in Nat /\ m(n - 1) \in Nat
    BY <2>1, <1>1, <1>6
  <2> QED BY <2>2, <1>1, <1>6
<1>10. n = IF r = 0 THEN q ELSE q + 1
  <2>1. CASE r = 0
    <3>1. n # q + 1
      <4> SUFFICES ASSUME n = q + 1 PROVE FALSE
        OBVIOUS
      <4>1. n - 1 = q /\ m(q) \in Nat
        BY <1>1, <1>6
      <4> QED BY <4>1, <2>1, <1>6
    <3> QED BY <3>1, <2>1, <1>1, <1>2, <1>8, <1>9
  <2>2. CASE r # 0
    <3>1. n # q
      <4> SUFFICES ASSUME n = q PROVE FALSE
        OBVIOUS
      <4>1. m(q) \in Nat
        BY <1>1, <1>6
      <4> QED BY <4>1, <2>2, <1>1, <1>6
    <3> QED BY <3>1, <2>2, <1>1, <1>2, <1>8, <1>9
  <2> QED BY <2>1, <2>2
<1>11. ASSUME NEW i \in 1 .. n
       PROVE  Smaller(b, a - m(i - 1)) = IF i <= q THEN b ELSE r
  <2>0. i - 1 \in Nat /\ i \in Nat /\ (i - 1) + 1 = i /\ q \in Nat
    BY <1>1, <1>2
  <2>1. m(i - 1) \in Nat /\ m(i) = m(i - 1) + b /\ m(q) \in Nat /\ m(i) \in Nat
    BY <2>0, <1>6
  <2>2. CASE i <= q
    <3>1. m(i) <= m(q)
      BY <2>0, <2>2, <1>6
    <3> QED BY <2>1, <2>2, <3>1, <1>1, <1>6 DEF Smaller
  <2>3. CASE ~ (i <= q)
    <3>1. i - 1 = q
      BY <2>3, <2>0, <1>2, <1>9
    <3>2. a - m(i - 1) = r
      <4>1. m(i - 1) = m(q)
        BY <3>1
      <4> DEFINE y == m(q)
      <4>2. a = y + r /\ y \in Nat /\ r \in Int
        <5>1. a = m(q) + r
          BY <1>6
        <5>2. m(q) \in Nat
          BY <2>1
        <5>3. r \in Int
          BY <1>1
        <5> QED BY <5>1, <5>2, <5>3
      <4>3. a - m(i - 1) = a - y
        BY <4>1
      <4> HIDE DEF y
      <4>4. a - y = r
        BY <4>2
      <4> QED BY <4>3, <4>4
    <3> QED BY <2>3, <3>2, <1>1 DEF Smaller
  <2> QED BY <2>2, <2>3
<1>12. \A i \in 1 .. n : Smaller(b, a - (i - 1) * b) = IF i <= q THEN b ELSE r
  BY <1>7, <1>11
<1> QED BY <1>1, <1>10, <1>12 DEF q, r, n

\* q packets of d bytes, and one of e if there is another.
LEMMA WeighsEqual ==
    ASSUME NEW s \in Seq(Packet), NEW d \in Nat, NEW e \in Nat, NEW q \in Nat,
           \/ Len(s) = q /\ e = 0
           \/ Len(s) = q + 1 /\ PacketTotal(s[q + 1]) = e,
           \A i \in 1 .. q : PacketTotal(s[i]) = d
    PROVE  q * d + e \in Nat /\ Weighs(s, q * d + e)
<1> DEFINE n == Len(s)  m(i) == (i - 1) * d  z == q * d
<1>1. \A i \in Nat \ {0} : m(i) \in Nat /\ m(i + 1) = m(i) + d
  BY Multiples
<1>2. z = m(q + 1) /\ m(1) = 0
  <2>1. (q + 1) - 1 = q /\ 1 - 1 = 0 /\ 0 * d = 0
    OBVIOUS
  <2> QED BY <2>1
<1>3. z \in Nat
  BY <1>1, <1>2
<1>4. /\ n \in Nat
      /\ \/ n = q /\ e = 0
         \/ n = q + 1 /\ PacketTotal(s[q + 1]) = e
  OBVIOUS
<1> HIDE DEF n, m, z
<1> DEFINE f == [i \in 1 .. n + 1 |-> IF i <= q + 1 THEN m(i) ELSE z + e]
<1>5. \A i \in 1 .. n + 1 : f[i] = (IF i <= q + 1 THEN m(i) ELSE z + e) /\ f[i] \in Nat
  <2> SUFFICES ASSUME NEW i \in 1 .. n + 1
               PROVE  (IF i <= q + 1 THEN m(i) ELSE z + e) \in Nat
    OBVIOUS
  <2>1. i \in Nat \ {0} /\ z + e \in Nat
    BY <1>3, <1>4
  <2> QED BY <2>1, <1>1
<1>6. f \in [1 .. n + 1 -> Nat]
  BY <1>5
<1> HIDE DEF f
<1>7. f[1] = 0 /\ f[n + 1] = z + e
  <2>1. 1 \in 1 .. n + 1 /\ n + 1 \in 1 .. n + 1 /\ 1 <= q + 1
    BY <1>4
  <2>2. f[1] = 0
    BY <2>1, <1>2, <1>5
  <2>3. CASE n = q /\ e = 0
    BY <2>1, <2>3, <1>2, <1>3, <1>5
  <2>4. CASE n = q + 1
    <3>1. ~ (n + 1 <= q + 1)
      BY <2>4
    <3> QED BY <3>1, <2>1, <2>2, <1>5
  <2> QED BY <2>2, <2>3, <2>4, <1>4
<1>8. ASSUME NEW i \in 1 .. n PROVE f[i + 1] = f[i] + PacketTotal(s[i])
  <2>1. i \in 1 .. n + 1 /\ i + 1 \in 1 .. n + 1 /\ i \in Nat \ {0}
    BY <1>4
  <2>2. CASE i <= q
    <3>1. f[i] = m(i) /\ f[i + 1] = m(i + 1) /\ i \in 1 .. q
      BY <2>1, <2>2, <1>5
    <3> QED BY <3>1, <2>1, <1>1
  <2>3. CASE ~ (i <= q)
    <3>1. i = q + 1 /\ n = q + 1
      BY <2>1, <2>3, <1>4
    <3>2. f[i] = z /\ f[i + 1] = z + e
      BY <2>1, <3>1, <1>2, <1>5
    <3> QED BY <3>1, <3>2, <1>4
  <2> QED BY <2>2, <2>3
<1>9. z + e \in Nat
  BY <1>3
<1>10. Weighs(s, z + e)
  BY <1>4, <1>6, <1>7, <1>8 DEF Weighs, n
<1> QED BY <1>9, <1>10 DEF z

\* A sequence after one element.
LEMMA AfterOne ==
    ASSUME NEW X, NEW s \in Seq(X), NEW t \in Seq(X), NEW n \in Nat, Len(s) = 1, Len(t) = n
    PROVE  /\ Len(s \o t) = 1 + n
           /\ \A i \in 1 .. n : (s \o t)[i + 1] = t[i]
<1> DEFINE u == s \o t
<1>1. /\ Len(u) = Len(s) + Len(t)
      /\ \A i \in 1 .. Len(s) + Len(t) :
            u[i] = IF i <= Len(s) THEN s[i] ELSE t[i - Len(s)]
  BY ConcatProperties
<1> HIDE DEF u
<1>2. ASSUME NEW i \in 1 .. n PROVE u[i + 1] = t[i]
  <2>1. i + 1 \in 1 .. Len(s) + Len(t) /\ ~ (i + 1 <= Len(s)) /\ (i + 1) - Len(s) = i
    OBVIOUS
  <2> QED BY <2>1, <1>1
<1> QED BY <1>1, <1>2 DEF u

\* splitFirstPacket: the pieces weigh what PiecesTotal says.
LEMMA PiecesWeigh ==
    ASSUME NEW p \in Packet, p.kind = "data", NEW first \in Nat, first < p.len
    PROVE  PiecesTotal(p, first) \in Nat /\ Weighs(Pieces(p, first), PiecesTotal(p, first))
<1> DEFINE M == MaxPacketRemote
           rest == p.len - first
           count == (rest + M - 1) \div M
           q == rest \div M
           r == rest % M
           offset(i) == first + (i - 1) * M
           piece(i) == [p EXCEPT !.off = p.off + offset(i),
                                 !.len = Smaller(M, p.len - offset(i))]
           h == [p EXCEPT !.len = first]
           head == <<h>>
           tail == [i \in 1 .. count |-> piece(i)]
           d == DataTotal(M)
           e == IF r = 0 THEN 0 ELSE DataTotal(r)
<1>1. p.len \in Nat /\ rest \in Nat \ {0} /\ M \in Nat \ {0} /\ p.len = first + rest
  <2>1. p.len \in Nat /\ M \in Nat \ {0}
    BY ConstantsType DEF Packet
  <2> HIDE DEF M
  <2> QED BY <2>1
<1>2. /\ q \in Nat /\ r \in 0 .. (M - 1)
      /\ count = IF r = 0 THEN q ELSE q + 1
      /\ \A i \in 1 .. count : Smaller(M, rest - (i - 1) * M) = IF i <= q THEN M ELSE r
  <2> HIDE DEF rest, M
  <2> QED BY <1>1, RestLengths
<1>3. Pieces(p, first) = head \o tail
  BY DEF Pieces, rest, count, offset, M
<1>4. PiecesTotal(p, first) = DataTotal(first) + q * d + e
  BY DEF PiecesTotal
<1>5. Pieces(p, first) \in Seq(Packet)
  <2>1. first <= p.len
    BY <1>1
  <2> QED BY <2>1, PiecesType
<1>6. ASSUME NEW i \in 1 .. count
      PROVE  piece(i).kind = "data" /\ piece(i).len = IF i <= q THEN M ELSE r
  <2>1. p.len - offset(i) = rest - (i - 1) * M
    <3>1. (i - 1) * M \in Int
      <4>1. i - 1 \in Int /\ M \in Int
        BY <1>1, <1>2
      <4> HIDE DEF M
      <4> QED BY <4>1, MultiplesAdd
    <3> DEFINE z == (i - 1) * M
    <3> HIDE DEF z
    <3>2. p.len - (first + z) = rest - z
      <4> HIDE DEF rest, M
      <4> QED BY <1>1, <3>1 DEF z
    <3> QED BY <3>2 DEF z
  <2> DEFINE len == Smaller(M, p.len - offset(i))  off == p.off + offset(i)
  <2>2. len = IF i <= q THEN M ELSE r
    <3>1. len = Smaller(M, rest - (i - 1) * M)
      BY <2>1, Zenon
    <3> HIDE DEF len, rest, M, q, r, count
    <3> QED BY <1>2, <3>1
  <2> HIDE DEF len, off
  <2>3. [p EXCEPT !.off = off, !.len = len].kind = "data"
          /\ [p EXCEPT !.off = off, !.len = len].len = len
    BY DEF Packet
  <2>4. piece(i) = [p EXCEPT !.off = off, !.len = len]
    BY Zenon DEF len, off
  <2> HIDE DEF piece, M, q, r
  <2> QED BY <2>2, <2>3, <2>4
<1>7. ASSUME NEW i \in 1 .. count PROVE piece(i) \in Packet
  <2>1. /\ i \in 1 .. Len(head \o tail) - 1 /\ (head \o tail)[i + 1] = piece(i)
    <3> HIDE DEF piece, count
    <3>1. count \in Nat
      BY <1>2
    <3>2. Len(head) = 1 /\ Len(tail) = count /\ tail[i] = piece(i)
      BY <3>1
    <3> DEFINE X == {h} \cup {piece(j) : j \in 1 .. count}
    <3>3. head \in Seq(X) /\ tail \in Seq(X)
      BY <3>1
    <3> HIDE DEF head, tail, h, X
    <3>4. /\ Len(head \o tail) = 1 + count
          /\ (head \o tail)[i + 1] = tail[i]
      BY <3>1, <3>2, <3>3, AfterOne
    <3>5. i \in 1 .. (1 + count) - 1
      BY <3>1
    <3> QED BY <3>2, <3>4, <3>5
  <2>2. head \o tail \in Seq(Packet)
    BY <1>3, <1>5
  <2> HIDE DEF head, tail, piece, count
  <2>3. i + 1 \in 1 .. Len(head \o tail)
    BY <2>1, <2>2
  <2>4. (head \o tail)[i + 1] \in Packet
    BY <2>2, <2>3, ElementOfSeq
  <2> QED BY <2>1, <2>4
<1>8. h \in Packet /\ h.kind = "data" /\ h.len = first
  BY DEF Packet
<1> HIDE DEF rest, count, piece, q, r, d, e, M
<1>9. /\ tail \in Seq(Packet) /\ Len(tail) = count
      /\ \A i \in 1 .. count : tail[i] = piece(i)
  BY <1>2, <1>7
<1>10. d \in Nat /\ e \in Nat /\ DataTotal(first) \in Nat
  <2>1. \A k \in Nat : DataTotal(k) \in Nat
    BY TotalLenType DEF DataTotal, DataOverhead
  <2>2. r \in Nat
    BY <1>2
  <2> QED BY <2>1, <2>2, <1>1 DEF d, e
<1>11. head \in Seq(Packet) /\ Weighs(head, DataTotal(first))
  <2>1. PacketTotal(h) = DataTotal(first)
    BY <1>8 DEF PacketTotal
  <2> HIDE DEF h
  <2>2. Weighs(<<h>>, PacketTotal(h)) /\ <<h>> \in Seq(Packet)
    BY <1>8, WeighsSingle
  <2> QED BY <2>1, <2>2
<1> HIDE DEF head, tail, h
<1>12. q * d + e \in Nat /\ Weighs(tail, q * d + e)
  <2>1. \A i \in 1 .. q : PacketTotal(tail[i]) = d
    <3> SUFFICES ASSUME NEW i \in 1 .. q PROVE PacketTotal(tail[i]) = d
      OBVIOUS
    <3>1. i \in 1 .. count /\ i <= q
      BY <1>2
    <3>2. tail[i].kind = "data" /\ tail[i].len = M
      BY <3>1, <1>6, <1>9
    <3> QED BY <3>2 DEF PacketTotal, d
  <2>2. \/ Len(tail) = q /\ e = 0
        \/ Len(tail) = q + 1 /\ PacketTotal(tail[q + 1]) = e
    <3>1. CASE r = 0
      BY <3>1, <1>2, <1>9 DEF e
    <3>2. CASE r # 0
      <4>1. q + 1 \in 1 .. count /\ ~ (q + 1 <= q) /\ count = q + 1
        BY <3>2, <1>2
      <4>2. tail[q + 1].kind = "data" /\ tail[q + 1].len = r
        BY <4>1, <1>6, <1>9
      <4>3. PacketTotal(tail[q + 1]) = e
        BY <4>2, <3>2 DEF PacketTotal, e
      <4> QED BY <4>1, <4>3, <1>9
    <3> QED BY <3>1, <3>2
  <2> QED BY <2>1, <2>2, <1>2, <1>9, <1>10, WeighsEqual
<1>13. Weighs(head \o tail, DataTotal(first) + (q * d + e))
  BY <1>9, <1>10, <1>11, <1>12, WeighsConcat
<1> DEFINE z == q * d
<1>14. DataTotal(first) + (z + e) = DataTotal(first) + z + e /\ DataTotal(first) + z + e \in Nat
  <2>1. z \in Nat
    BY <1>2, <1>10, ProductNat
  <2> HIDE DEF z
  <2> QED BY <2>1, <1>10
<1> QED BY <1>3, <1>4, <1>13, <1>14

(* The steps. *)

LEMMA CountHere ==
    ASSUME Inv, CountOK, NEW c \in Queues
    PROVE  /\ queue[c] \in Seq(Packet) /\ totalBytes[c] \in Nat
           /\ queue[c] # <<>> => Head(queue[c]) \in Packet /\ Head(queue[c]).q = c
           /\ \E n \in Nat : Weighs(queue[c], n) /\ Same(totalBytes[c], n)
<1>1. queue[c] \in Seq(Packet) /\ totalBytes[c] \in Nat
  BY DEF Inv, TypeOK
<1> DEFINE S == {p \in Packet : p.q = c}
<1>2. queue[c] \in Seq(S)
  BY DEF CountOK
<1> HIDE DEF S
<1>3. queue[c] # <<>> => Head(queue[c]) \in S
  BY <1>2, HeadTailProperties
<1> QED BY <1>1, <1>3 DEF S, CountOK

LEMMA EnqueueCount ==
    ASSUME Inv, CountOK, NEW p \in Packet, Enqueue(p)
    PROVE  /\ CountOK'
           /\ queue'[p.q] # <<>>
           /\ \A d \in Queues : d # p.q => queue'[d] = queue[d]
<1>1. PICK c \in Queues : c = p.q
  BY DEF Packet
<1>2. PICK r \in Packet :
         /\ r.q = c /\ r.kind = p.kind /\ r.len = p.len
         /\ queue' = [queue EXCEPT ![c] = Append(queue[c], r)]
  BY <1>1, EnqueueExact
<1>3. totalBytes' = [totalBytes EXCEPT ![c] = (totalBytes[c] + PacketTotal(p)) % Word]
  BY <1>1 DEF Enqueue
<1>4. PacketTotal(r) = PacketTotal(p) /\ PacketTotal(p) \in Nat
  BY <1>2, PacketTotalType DEF PacketTotal
<1>5. /\ queue'[c] = Append(queue[c], r)
      /\ totalBytes'[c] = (totalBytes[c] + PacketTotal(r)) % Word
      /\ \A d \in Queues : d # c => queue'[d] = queue[d] /\ totalBytes'[d] = totalBytes[d]
  BY <1>2, <1>3, <1>4 DEF Inv, TypeOK
<1>6. PICK n \in Nat : Weighs(queue[c], n) /\ Same(totalBytes[c], n)
  BY DEF CountOK
<1>7. queue[c] \in Seq(Packet) /\ totalBytes[c] \in Nat
  BY CountHere
<1>8. Weighs(Append(queue[c], r), n + PacketTotal(r)) /\ n + PacketTotal(r) \in Nat
  BY <1>4, <1>6, <1>7, WeighsAppend
<1> DEFINE w == PacketTotal(r)
           b == (totalBytes[c] + w) % Word
<1>9. b \in 0 .. (Word - 1) /\ Same(b, n + w)
  <2>1. totalBytes[c] \in Int /\ n \in Int /\ w \in Int
    BY <1>4, <1>7
  <2>2. Same(totalBytes[c] + w, n + w)
    BY <2>1, <1>6, SameAdd
  <2>3. totalBytes[c] + w \in Int /\ n + w \in Int
    BY <2>1
  <2> HIDE DEF w
  <2>4. b \in 0 .. (Word - 1) /\ Same(b, totalBytes[c] + w)
    BY <2>3, SameMod
  <2> HIDE DEF b
  <2>5. b \in Int
    BY <2>4, ConstantsType
  <2> QED BY <2>2, <2>3, <2>4, <2>5, SameTrans
<1> DEFINE S == {x \in Packet : x.q = c}
<1>10. Append(queue[c], r) \in Seq(S)
  <2>1. queue[c] \in Seq(S) /\ r \in S
    BY <1>2 DEF CountOK
  <2> HIDE DEF S
  <2> QED BY <2>1, AppendProperties
<1>11. Append(queue[c], r) # <<>>
  BY <1>7, AppendFacts
<1>12. ASSUME NEW d \in Queues
       PROVE  /\ queue'[d] \in Seq({x \in Packet : x.q = d})
              /\ \E k \in Nat : Weighs(queue'[d], k) /\ Same(totalBytes'[d], k)
              /\ totalBytes'[d] \in 0 .. (Word - 1)
  <2>1. CASE d = c
    BY <2>1, <1>5, <1>8, <1>9, <1>10
  <2>2. CASE d # c
    BY <2>2, <1>5 DEF CountOK
  <2> QED BY <2>1, <2>2
<1> QED BY <1>1, <1>5, <1>11, <1>12 DEF CountOK

LEMMA DequeueCount ==
    ASSUME Inv, CountOK, NEW c \in Queues, queue[c] # <<>>, Dequeue(c)
    PROVE  /\ CountOK'
           /\ \A d \in Queues : d # c => queue'[d] = queue[d]
<1>1. PICK h \in Packet : h = Head(queue[c])
  BY CountHere
<1>2. /\ queue' = [queue EXCEPT ![c] = Tail(queue[c])]
      /\ totalBytes' = [totalBytes EXCEPT ![c] = Minus(totalBytes[c], PacketTotal(h))]
  BY <1>1 DEF Dequeue
<1>3. /\ queue'[c] = Tail(queue[c])
      /\ totalBytes'[c] = Minus(totalBytes[c], PacketTotal(h))
      /\ \A d \in Queues : d # c => queue'[d] = queue[d] /\ totalBytes'[d] = totalBytes[d]
  BY <1>2 DEF Inv, TypeOK
<1>4. PICK n \in Nat : Weighs(queue[c], n) /\ Same(totalBytes[c], n)
  BY DEF CountOK
<1>5. queue[c] \in Seq(Packet) /\ totalBytes[c] \in Nat
  BY CountHere
<1>6. PICK w \in Nat : w = PacketTotal(h)
  BY PacketTotalType
<1>7. n - w \in Nat /\ Weighs(Tail(queue[c]), n - w)
  BY <1>1, <1>4, <1>5, <1>6, WeighsTail
<1>8. /\ Minus(totalBytes[c], w) \in 0 .. (Word - 1)
      /\ Same(Minus(totalBytes[c], w), n - w)
  <2>1. totalBytes[c] - w \in Int
    BY <1>5
  <2>2. Same(totalBytes[c] - w, n - w)
    <3>1. Same(totalBytes[c] + (- w), n + (- w))
      <4>1. - w \in Int /\ totalBytes[c] \in Int /\ n \in Int
        BY <1>5
      <4> QED BY <4>1, <1>4, SameAdd
    <3>2. totalBytes[c] + (- w) = totalBytes[c] - w /\ n + (- w) = n - w
      BY <1>5
    <3> QED BY <3>1, <3>2
  <2>3. /\ (totalBytes[c] - w) % Word \in 0 .. (Word - 1)
        /\ Same((totalBytes[c] - w) % Word, totalBytes[c] - w)
    BY <2>1, SameMod
  <2>4. n - w \in Int /\ (totalBytes[c] - w) % Word \in Int
    BY <2>3, ConstantsType
  <2>5. Same((totalBytes[c] - w) % Word, n - w)
    BY <2>1, <2>2, <2>3, <2>4, SameTrans
  <2> QED BY <2>3, <2>5 DEF Minus
<1> DEFINE S == {x \in Packet : x.q = c}
<1>10. Tail(queue[c]) \in Seq(S)
  <2>1. queue[c] \in Seq(S)
    BY DEF CountOK
  <2> HIDE DEF S
  <2> QED BY <2>1, HeadTailProperties
<1>11. ASSUME NEW d \in Queues
       PROVE  /\ queue'[d] \in Seq({x \in Packet : x.q = d})
              /\ \E k \in Nat : Weighs(queue'[d], k) /\ Same(totalBytes'[d], k)
              /\ totalBytes'[d] \in 0 .. (Word - 1)
  <2>1. CASE d = c
    BY <2>1, <1>3, <1>6, <1>7, <1>8, <1>10
  <2>2. CASE d # c
    BY <2>2, <1>3 DEF CountOK
  <2> QED BY <2>1, <2>2
<1> QED BY <1>3, <1>11 DEF CountOK

LEMMA SplitCount ==
    ASSUME Inv, CountOK, NEW c \in Queues, queue[c] # <<>>, Head(queue[c]).kind = "data",
           NEW first \in Nat, first >= 1, first < Head(queue[c]).len,
           SplitFirstPacket(c, first)
    PROVE  /\ CountOK'
           /\ queue'[c] # <<>>
           /\ \A d \in Queues : d # c => queue'[d] = queue[d]
<1>1. PICK h \in Packet : h = Head(queue[c]) /\ h.q = c
  BY CountHere
<1> DEFINE P == Pieces(h, first)
           T == Tail(queue[c])
           w == PacketTotal(h)
           z == PiecesTotal(h, first)
           b == (totalBytes[c] - w + z) % Word
<1>2. /\ queue' = [queue EXCEPT ![c] = P \o T]
      /\ totalBytes' = [totalBytes EXCEPT ![c] = b]
  BY <1>1 DEF SplitFirstPacket, Recount, PacketTotal
<1>3. /\ queue'[c] = P \o T /\ totalBytes'[c] = b
      /\ \A d \in Queues : d # c => queue'[d] = queue[d] /\ totalBytes'[d] = totalBytes[d]
  <2> HIDE DEF P, T, b
  <2> QED BY <1>2 DEF Inv, TypeOK
<1>4. PICK n \in Nat : Weighs(queue[c], n) /\ Same(totalBytes[c], n)
  BY DEF CountOK
<1>5. queue[c] \in Seq(Packet) /\ totalBytes[c] \in Nat
  BY CountHere
<1>6. n - w \in Nat /\ Weighs(T, n - w) /\ w \in Nat
  BY <1>1, <1>4, <1>5, WeighsTail, PacketTotalType
<1>7. z \in Nat /\ Weighs(P, z)
  BY <1>1, PiecesWeigh
<1>8. /\ P \in Seq(Packet) /\ Len(P) >= 1
      /\ \A i \in 1 .. Len(P) : P[i] \in Packet /\ P[i].q = c
  <2>1. first <= h.len /\ h.kind = "data" /\ first < h.len
    <3>1. h.len \in Nat
      BY DEF Packet
    <3> QED BY <3>1, <1>1
  <2>2. P \in Seq(Packet) /\ Len(P) >= 1
    BY <2>1, PiecesType
  <2>3. \A i \in 1 .. Len(P) : P[i] \in Packet /\ P[i].q = c
    BY <2>1, <1>1, PiecesBytes
  <2> QED BY <2>2, <2>3
<1>9. T \in Seq(Packet)
  BY <1>5, HeadTailProperties
<1>10. b \in 0 .. (Word - 1) /\ Same(b, z + (n - w))
  <2> HIDE DEF z, w
  <2>1. totalBytes[c] - w + z \in Int /\ z + (n - w) \in Int /\ z - w \in Int
    <3>1. totalBytes[c] \in Int /\ n \in Int /\ w \in Int /\ z \in Int
      BY <1>5, <1>6, <1>7
    <3> HIDE DEF P, T
    <3> QED BY <3>1
  <2>2. /\ b \in 0 .. (Word - 1)
        /\ Same(b, totalBytes[c] - w + z)
    BY <2>1, SameMod
  <2>3. Same(totalBytes[c] + (z - w), n + (z - w))
    <3>1. totalBytes[c] \in Int /\ n \in Int
      BY <1>5
    <3> QED BY <2>1, <3>1, <1>4, SameAdd
  <2>4. /\ totalBytes[c] + (z - w) = totalBytes[c] - w + z
        /\ n + (z - w) = z + (n - w)
    <3>1. totalBytes[c] \in Int /\ n \in Int /\ w \in Int /\ z \in Int
      BY <1>5, <1>6, <1>7
    <3> HIDE DEF P, T
    <3> QED BY <3>1
  <2>5. Same(totalBytes[c] - w + z, z + (n - w))
    BY <2>3, <2>4
  <2>6. b \in Int
    BY <2>2, ConstantsType
  <2> HIDE DEF b
  <2> QED BY <2>1, <2>2, <2>5, <2>6, SameTrans
<1> HIDE DEF P, T, z, w, b
<1>11. Weighs(P \o T, z + (n - w)) /\ z + (n - w) \in Nat
  BY <1>6, <1>7, <1>8, <1>9, WeighsConcat
<1>12. P \o T # <<>>
  <2>1. Len(P \o T) = Len(P) + Len(T) /\ Len(P) \in Nat /\ Len(T) \in Nat
    BY <1>8, <1>9, ConcatProperties, LenProperties
  <2>2. Len(P \o T) # 0
    BY <2>1, <1>8
  <2> QED BY <2>2
<1> DEFINE S == {x \in Packet : x.q = c}
<1>13. P \o T \in Seq(S)
  <2>1. queue[c] \in Seq(S)
    BY DEF CountOK
  <2>2. \A i \in 1 .. Len(P) : P[i] \in S
    BY <1>8
  <2> HIDE DEF S
  <2>3. P \in Seq(S)
    BY <1>8, <2>2, MembersSeq
  <2>4. T \in Seq(S)
    BY <2>1, HeadTailProperties DEF T
  <2> QED BY <2>3, <2>4, ConcatProperties
<1>14. ASSUME NEW d \in Queues
       PROVE  /\ queue'[d] \in Seq({x \in Packet : x.q = d})
              /\ \E k \in Nat : Weighs(queue'[d], k) /\ Same(totalBytes'[d], k)
              /\ totalBytes'[d] \in 0 .. (Word - 1)
  <2>1. CASE d = c
    BY <2>1, <1>3, <1>10, <1>11, <1>12, <1>13
  <2>2. CASE d # c
    BY <2>2, <1>3 DEF CountOK
  <2> QED BY <2>1, <2>2
<1> QED BY <1>3, <1>12, <1>14 DEF CountOK

LEMMA CountSame ==
    ASSUME CountOK, UNCHANGED <<queue, totalBytes>>
    PROVE  CountOK'
  BY DEF CountOK

LEMMA VisitDataCount ==
    ASSUME Inv, CountOK, VisitData
    PROVE  CountOK' /\ \A d \in Queues : queue'[d] = <<>> => queue[d] = <<>>
<1> DEFINE p == Head(queue[Visited])
           first == SendableData(p.len, window[Visited], Room)
<1>1. PICK c \in Queues : c = Visited
  BY VisitedType DEF Inv, VisitData, HeadIs
<1>2. /\ queue[c] # <<>> /\ Head(queue[c]).kind = "data" /\ sspc = "pick"
      /\ MaySendData(window[c], Room)
      /\ IF first < p.len THEN SplitFirstPacket(c, first)
                          ELSE UNCHANGED <<queue, totalBytes>>
  BY <1>1 DEF VisitData, HeadIs
<1>4. CASE first < p.len
  <2>1. p = Head(queue[c]) /\ SplitFirstPacket(c, first)
    BY <1>1, <1>2, <1>4
  <2>2. p \in Packet
    BY <2>1, <1>2, CountHere
  <2>3. PICK k \in Nat : k = p.len
    <3> HIDE DEF p
    <3> QED BY <2>2 DEF Packet
  <2>4. PICK f \in Nat : f = first
    <3>1. window[c] \in Nat /\ Room \in Nat
      BY QueueNumbers, RoomType DEF Inv
    <3> HIDE DEF p
    <3> QED BY <2>3, <3>1, <1>1, SendableBounds
  <2>5. k >= 1
    BY <2>3, <2>4, <1>4
  <2>6. f >= 1
    <3>1. window[c] \in Nat /\ Room \in Nat /\ Room < Word
      BY QueueNumbers, RoomType, ConstantsType DEF Inv
    <3>2. SendableData(k, window[c], Room) >= 1
      BY <3>1, <2>5, <1>2, SendableSome
    <3> HIDE DEF p
    <3> QED BY <3>2, <2>3, <2>4, <1>1
  <2>7. SplitFirstPacket(c, f) /\ f < Head(queue[c]).len
    BY <2>1, <2>4, <1>4
  <2> HIDE DEF p, first
  <2>8. /\ CountOK'
        /\ queue'[c] # <<>>
        /\ \A d \in Queues : d # c => queue'[d] = queue[d]
    BY <2>6, <2>7, <1>2, SplitCount
  <2> QED BY <2>8
<1>5. CASE ~ (first < p.len)
  BY <1>2, <1>5, CountSame
<1> QED BY <1>4, <1>5

\* A step that leaves the threads alone and empties no queue but one whose writers
\* SocketSend then signals.
LEMMA WakeKept ==
    ASSUME NoLostWakeup, sspc # "signal", UNCHANGED userVars,
           \A c \in Channels : queue'[c] = <<>> =>
                queue[c] = <<>> \/ (sspc' = "signal" /\ found'.q = c)
    PROVE  NoLostWakeup'
<1> SUFFICES ASSUME NEW c \in Channels, Waiters(c)' # {}, queue'[c] = <<>>
             PROVE  \/ sspc' = "signal" /\ found'.q = c
                    \/ \E t \in Threads : pc'[t] = "woken" /\ request'[t].q = c
  BY DEF NoLostWakeup
<1>1. pc' = pc /\ request' = request /\ Waiters(c) # {}
  BY DEF userVars, Waiters
<1>2. CASE queue[c] = <<>>
  BY <1>1, <1>2 DEF NoLostWakeup
<1> QED BY <1>2

\* A step of another thread that takes nothing out of a queue.
LEMMA WakeOther ==
    ASSUME NoLostWakeup, UNCHANGED <<userVars, ssVars>>,
           \A c \in Channels : queue'[c] = <<>> => queue[c] = <<>>
    PROVE  NoLostWakeup'
<1> SUFFICES ASSUME NEW c \in Channels, Waiters(c)' # {}, queue'[c] = <<>>
             PROVE  \/ sspc' = "signal" /\ found'.q = c
                    \/ \E t \in Threads : pc'[t] = "woken" /\ request'[t].q = c
  BY DEF NoLostWakeup
<1>1. /\ pc' = pc /\ request' = request /\ sspc' = sspc /\ found' = found
      /\ Waiters(c) # {} /\ queue[c] = <<>>
  BY DEF userVars, ssVars, Waiters
<1> QED BY <1>1 DEF NoLostWakeup

LEMMA FitsSame ==
    ASSUME WaitFits, UNCHANGED userVars
    PROVE  WaitFits'
  BY DEF WaitFits, userVars

\* In the empty queue of a channel there is room for any packet of a call.
LEMMA EmptyRoom ==
    ASSUME CountOK, NEW c \in Queues, queue[c] = <<>>
    PROVE  BytesAllowed(c) = MaxOutQ
<1>1. totalBytes[c] = 0
  <2>1. PICK n \in Nat : Weighs(<<>>, n) /\ Same(totalBytes[c], n)
    BY DEF CountOK
  <2>2. n = 0
    BY <2>1, WeighsNone
  <2> QED BY <2>1, <2>2, SameZero DEF CountOK
<1>2. MaxOutQ \in Nat /\ MaxOutQ < Word
  BY OutboundAssumption
<1>3. Minus(MaxOutQ, 0) = MaxOutQ - 0
  BY <1>2, MinusExact
<1> QED BY <1>1, <1>2, <1>3 DEF BytesAllowed

LEMMA QueueOrWaitWake ==
    ASSUME Inv, WakeInv, NEW t \in Threads, NEW p \in Packet, QueueOrWait(t, p),
           p.q = Main \/ PacketTotal(p) <= MaxOutQ,
           pc[t] = "idle" \/ (pc[t] = "woken" /\ request[t] = p),
           UNCHANGED <<window, ssVars, wireVars, granted>>
    PROVE  WakeInv'
<1>0. pc \in [Threads -> {"idle", "wait", "woken"}]
        /\ request \in [Threads -> Packet \cup {None}]
  BY DEF Inv, TypeOK
<1>1. sspc' = sspc /\ found' = found
  BY DEF ssVars
<1>2. \A u \in Threads : u # t => pc'[u] = pc[u] /\ request'[u] = request[u]
  BY <1>0 DEF QueueOrWait
<1>3. PICK c \in Queues : c = p.q
  BY DEF Packet
<1>4. CASE c = Main \/ PacketTotal(p) <= BytesAllowed(c)
  <2>1. /\ Enqueue(p)
        /\ pc' = [pc EXCEPT ![t] = "idle"]
        /\ request' = [request EXCEPT ![t] = None]
    BY <1>3, <1>4 DEF QueueOrWait
  <2>2. /\ CountOK'
        /\ queue'[c] # <<>>
        /\ \A d \in Queues : d # c => queue'[d] = queue[d]
    BY <2>1, <1>3, EnqueueCount DEF WakeInv
  <2>3. pc'[t] = "idle"
    BY <2>1, <1>0
  <2>4. WaitFits'
    BY <2>3, <1>2 DEF WakeInv, WaitFits
  <2>5. NoLostWakeup'
    <3> SUFFICES ASSUME NEW d \in Channels, Waiters(d)' # {}, queue'[d] = <<>>
                 PROVE  \/ sspc' = "signal" /\ found'.q = d
                        \/ \E u \in Threads : pc'[u] = "woken" /\ request'[u].q = d
      BY DEF NoLostWakeup
    <3>1. d # c /\ queue[d] = <<>>
      BY <2>2 DEF Queues
    <3>2. PICK v \in Threads : pc'[v] = "wait" /\ request'[v].q = d
      BY DEF Waiters
    <3>3. v \in Waiters(d)
      BY <3>2, <2>3, <1>2 DEF Waiters
    <3>4. CASE sspc = "signal" /\ found.q = d
      BY <3>4, <1>1
    <3>5. ASSUME NEW u \in Threads, pc[u] = "woken", request[u].q = d
          PROVE  pc'[u] = "woken" /\ request'[u].q = d
      <4>1. u # t
        BY <3>1, <3>5, <1>3
      <4> QED BY <4>1, <3>5, <1>2
    <3> QED BY <3>1, <3>3, <3>4, <3>5 DEF WakeInv, NoLostWakeup
  <2> QED BY <2>2, <2>4, <2>5 DEF WakeInv
<1>5. CASE ~ (c = Main \/ PacketTotal(p) <= BytesAllowed(c))
  <2>1. /\ pc' = [pc EXCEPT ![t] = "wait"]
        /\ request' = [request EXCEPT ![t] = p]
        /\ UNCHANGED <<queue, totalBytes, acceptVars>>
    BY <1>3, <1>5 DEF QueueOrWait
  <2>2. CountOK'
    BY <2>1, CountSame DEF WakeInv
  <2>3. pc'[t] = "wait" /\ request'[t] = p
    BY <2>1, <1>0
  <2>4. WaitFits'
    BY <2>3, <1>2 DEF WakeInv, WaitFits
  <2>5. queue[c] # <<>>
    <3> SUFFICES ASSUME queue[c] = <<>> PROVE FALSE
      OBVIOUS
    <3>1. BytesAllowed(c) = MaxOutQ
      BY EmptyRoom DEF WakeInv
    <3> QED BY <3>1, <1>3, <1>5
  <2>6. NoLostWakeup'
    <3> SUFFICES ASSUME NEW d \in Channels, Waiters(d)' # {}, queue'[d] = <<>>
                 PROVE  \/ sspc' = "signal" /\ found'.q = d
                        \/ \E u \in Threads : pc'[u] = "woken" /\ request'[u].q = d
      BY DEF NoLostWakeup
    <3>1. d # c /\ queue[d] = <<>>
      BY <2>1, <2>5
    <3>2. PICK v \in Threads : pc'[v] = "wait" /\ request'[v].q = d
      BY DEF Waiters
    <3>3. v \in Waiters(d)
      BY <3>1, <3>2, <2>3, <1>2, <1>3 DEF Waiters
    <3>4. CASE sspc = "signal" /\ found.q = d
      BY <3>4, <1>1
    <3>5. ASSUME NEW u \in Threads, pc[u] = "woken", request[u].q = d
          PROVE  pc'[u] = "woken" /\ request'[u].q = d
      <4>1. u # t
        BY <3>1, <3>5, <1>3
      <4> QED BY <4>1, <3>5, <1>2
    <3> QED BY <3>1, <3>3, <3>4, <3>5 DEF WakeInv, NoLostWakeup
  <2> QED BY <2>2, <2>4, <2>6 DEF WakeInv
<1> QED BY <1>4, <1>5

\* A packet of a call fits in the empty queue of its channel.
LEMMA UserFits ==
    ASSUME CallsFit, NEW p \in UserPackets
    PROVE  p.q = Main \/ PacketTotal(p) <= MaxOutQ
<1>1. CASE p \in [q : Channels, kind : {"data"}, off : {0}, len : DataSizes, n : {0}]
  BY <1>1 DEF CallsFit, PacketTotal
<1>2. CASE p \in [q : Channels, kind : {"control"}, off : {0}, len : ControlSizes, n : {0}]
  BY <1>2 DEF CallsFit, PacketTotal
<1>3. CASE p \in [q : {Main}, kind : MainKinds, off : {0}, len : MainSizes, n : {0}]
  BY <1>3
<1> QED BY <1>1, <1>2, <1>3 DEF UserPackets

\* SocketSend passes a queue.
LEMMA PassWake ==
    ASSUME Inv, WakeInv, sspc # "signal", UNCHANGED <<queue, totalBytes, userVars>>
    PROVE  WakeInv'
<1>1. CountOK' /\ WaitFits'
  BY CountSame, FitsSame DEF WakeInv
<1>2. NoLostWakeup'
  BY WakeKept DEF WakeInv
<1> QED BY <1>1, <1>2 DEF WakeInv

LEMMA OtherWake ==
    ASSUME WakeInv, UNCHANGED <<queue, totalBytes, userVars, ssVars>>
    PROVE  WakeInv'
<1>1. CountOK' /\ WaitFits'
  BY CountSame, FitsSame DEF WakeInv
<1>2. NoLostWakeup'
  BY WakeOther DEF WakeInv
<1> QED BY <1>1, <1>2 DEF WakeInv

LEMMA QueueWindowAdjustWake ==
    ASSUME Inv, WakeInv, NEW c \in Channels, QueueWindowAdjust(c)
    PROVE  WakeInv'
<1> DEFINE p == [q |-> c, kind |-> "control", off |-> 0, len |-> 9, n |-> 0]
<1>1. p \in Packet
  BY DEF Packet, Kinds, Queues
<1>2. Enqueue(p) /\ UNCHANGED <<window, userVars, ssVars, wireVars, granted>>
  BY DEF QueueWindowAdjust
<1> HIDE DEF p
<1>3. /\ CountOK'
      /\ \A d \in Queues : queue'[d] = <<>> => queue[d] = <<>>
  BY <1>1, <1>2, EnqueueCount DEF WakeInv
<1>4. \A d \in Channels : queue'[d] = <<>> => queue[d] = <<>>
  BY <1>3 DEF Queues
<1>5. WaitFits'
  BY <1>2, FitsSame DEF WakeInv
<1>6. NoLostWakeup'
  BY <1>2, <1>4, WakeOther DEF WakeInv
<1> QED BY <1>3, <1>5, <1>6 DEF WakeInv

LEMMA VisitDataWake ==
    ASSUME Inv, WakeInv, VisitData
    PROVE  WakeInv'
<1>1. CountOK' /\ \A d \in Queues : queue'[d] = <<>> => queue[d] = <<>>
  BY VisitDataCount DEF WakeInv
<1>2. sspc # "signal" /\ UNCHANGED userVars
  BY DEF VisitData, HeadIs
<1>3. WaitFits'
  BY <1>2, FitsSame DEF WakeInv
<1>4. NoLostWakeup'
  BY <1>1, <1>2, WakeKept DEF WakeInv, Queues
<1> QED BY <1>1, <1>3, <1>4 DEF WakeInv

\* A packet is taken out of a queue, and the writers of a channel are signalled next.
LEMMA TakeWake ==
    ASSUME Inv, WakeInv, sspc # "signal", UNCHANGED userVars,
           NEW c \in Queues, queue[c] # <<>>, Dequeue(c),
           c # Main => sspc' = "signal" /\ found' = Head(queue[c])
    PROVE  WakeInv'
<1>1. /\ CountOK'
      /\ \A d \in Queues : d # c => queue'[d] = queue[d]
  BY DequeueCount DEF WakeInv
<1>2. Head(queue[c]).q = c
  BY CountHere DEF WakeInv
<1>3. \A d \in Channels : queue'[d] = <<>> =>
          queue[d] = <<>> \/ (sspc' = "signal" /\ found'.q = d)
  <2> SUFFICES ASSUME NEW d \in Channels, queue'[d] = <<>>
               PROVE  queue[d] = <<>> \/ (sspc' = "signal" /\ found'.q = d)
    OBVIOUS
  <2>1. d \in Queues /\ d # Main
    BY OutboundAssumption DEF Queues
  <2> QED BY <2>1, <1>1, <1>2
<1>4. WaitFits'
  BY FitsSame DEF WakeInv
<1>5. NoLostWakeup'
  BY <1>3, WakeKept DEF WakeInv
<1> QED BY <1>1, <1>4, <1>5 DEF WakeInv

LEMMA TakeDataWake ==
    ASSUME Inv, WakeInv, TakeData
    PROVE  WakeInv'
<1>1. PICK c \in Queues : c = current
  BY DEF Inv, TakeOK, TakeData
<1>2. /\ queue[c] # <<>> /\ Dequeue(c) /\ sspc = "take"
      /\ sspc' = "signal" /\ found' = Head(queue[c])
      /\ UNCHANGED userVars
  BY <1>1 DEF Inv, TakeOK, TakeData
<1>3. sspc # "signal"
  BY <1>2
<1> QED BY <1>2, <1>3, TakeWake

LEMMA VisitControlWake ==
    ASSUME Inv, WakeInv, VisitControl
    PROVE  WakeInv'
<1>1. PICK c \in Queues : c = Visited
  BY VisitedType DEF Inv, VisitControl, HeadIs
<1>2. /\ queue[c] # <<>> /\ Dequeue(c) /\ sspc = "pick"
      /\ c # Main => sspc' = "signal" /\ found' = Head(queue[c])
      /\ UNCHANGED userVars
  BY <1>1 DEF VisitControl, HeadIs
<1>3. sspc # "signal"
  BY <1>2
<1> QED BY <1>2, <1>3, TakeWake

\* SocketSend wakes one of the threads that wait on the channel, if there is one.
LEMMA SignalWritersWake ==
    ASSUME Inv, WakeInv, SignalWriters
    PROVE  WakeInv'
<1>0. pc \in [Threads -> {"idle", "wait", "woken"}]
  BY DEF Inv, TypeOK
<1>1. /\ sspc = "signal" /\ Signal(found.q)
      /\ UNCHANGED <<queue, totalBytes, request>>
  BY DEF SignalWriters
<1>2. \A u \in Threads : pc[u] = "woken" => pc'[u] = "woken"
  BY <1>0, <1>1 DEF Signal, Waiters
<1>3. \A u \in Threads : pc'[u] = "wait" => pc[u] = "wait"
  BY <1>0, <1>1 DEF Signal, Waiters
<1>4. Waiters(found.q) # {} =>
          \E u \in Threads : pc'[u] = "woken" /\ request[u].q = found.q
  BY <1>0, <1>1 DEF Signal, Waiters
<1>5. CountOK'
  BY <1>1, CountSame DEF WakeInv
<1>6. WaitFits'
  <2>1. \A u \in Threads : pc'[u] # "idle" => pc[u] # "idle"
    BY <1>0, <1>1 DEF Signal, Waiters
  <2> QED BY <2>1, <1>1 DEF WakeInv, WaitFits
<1>7. NoLostWakeup'
  <2> SUFFICES ASSUME NEW d \in Channels, Waiters(d)' # {}, queue'[d] = <<>>
               PROVE  \E u \in Threads : pc'[u] = "woken" /\ request'[u].q = d
    BY DEF NoLostWakeup
  <2>1. queue[d] = <<>> /\ Waiters(d) # {}
    BY <1>1, <1>3 DEF Waiters
  <2>2. CASE found.q = d
    BY <2>1, <2>2, <1>1, <1>4
  <2>3. CASE found.q # d
    BY <2>1, <2>3, <1>1, <1>2 DEF WakeInv, NoLostWakeup
  <2> QED BY <2>2, <2>3
<1> QED BY <1>5, <1>6, <1>7 DEF WakeInv

LEMMA InitWake == Init => WakeInv
<1> SUFFICES ASSUME Init PROVE WakeInv
  OBVIOUS
<1>1. CountOK
  <2> SUFFICES ASSUME NEW c \in Queues
               PROVE  /\ queue[c] \in Seq({p \in Packet : p.q = c})
                      /\ \E n \in Nat : Weighs(queue[c], n) /\ Same(totalBytes[c], n)
                      /\ totalBytes[c] \in 0 .. (Word - 1)
    BY DEF CountOK
  <2>1. queue[c] = <<>> /\ totalBytes[c] = 0
    BY DEF Init
  <2>2. Weighs(<<>>, 0) /\ Same(0, 0)
    BY WeighsEmpty, SameRefl
  <2>3. 0 \in 0 .. (Word - 1)
    BY ConstantsType
  <2> QED BY <2>1, <2>2, <2>3
<1>2. WaitFits /\ NoLostWakeup
  BY DEF Init, WaitFits, NoLostWakeup, Waiters
<1> QED BY <1>1, <1>2 DEF WakeInv

LEMMA NextWake ==
    ASSUME CallsFit, Inv, WakeInv, [Next]_vars
    PROVE  WakeInv'
<1>1. ASSUME NEW t \in Threads, QueueOutboundData(t) PROVE WakeInv'
  <2>1. PICK p \in UserPackets : QueueOrWait(t, p)
    BY <1>1 DEF QueueOutboundData
  <2>2. p \in Packet /\ (p.q = Main \/ PacketTotal(p) <= MaxOutQ)
    BY UserFits, UserPacketsType
  <2>3. /\ pc[t] = "idle" \/ (pc[t] = "woken" /\ request[t] = p)
        /\ UNCHANGED <<window, ssVars, wireVars, granted>>
    BY <1>1 DEF QueueOutboundData
  <2>4. PICK r \in Packet : r = p
    BY <2>2
  <2> QED BY <2>1, <2>2, <2>3, <2>4, QueueOrWaitWake
<1>2. ASSUME NEW t \in Threads, WakeUp(t) PROVE WakeInv'
  <2>1. /\ pc[t] = "woken" /\ QueueOrWait(t, request[t])
        /\ UNCHANGED <<window, ssVars, wireVars, granted>>
    BY <1>2 DEF WakeUp
  <2>2. PICK p \in Packet : p = request[t]
    BY <2>1 DEF Inv, CallOK
  <2>3. p.q = Main \/ PacketTotal(p) <= MaxOutQ
    BY <2>1, <2>2 DEF WakeInv, WaitFits
  <2> QED BY <2>1, <2>2, <2>3, QueueOrWaitWake
<1>3. ASSUME NEW c \in Channels, QueueWindowAdjust(c) PROVE WakeInv'
  BY <1>3, QueueWindowAdjustWake
<1>4. ASSUME NEW c \in Channels, NEW k \in Grants, AdjustWindowSizeRemote(c, k)
      PROVE  WakeInv'
  BY <1>4, OtherWake DEF AdjustWindowSizeRemote
<1>5. CASE VisitEmpty \/ VisitBlockedData \/ VisitTooLarge
  <2>1. sspc # "signal" /\ UNCHANGED <<queue, totalBytes, userVars>>
    BY <1>5 DEF VisitEmpty, VisitBlockedData, VisitTooLarge, HeadIs
  <2> QED BY <2>1, PassWake
<1>6. CASE VisitData
  BY <1>6, VisitDataWake
<1>7. CASE TakeData
  BY <1>7, TakeDataWake
<1>8. CASE VisitControl
  BY <1>8, VisitControlWake
<1>9. CASE SignalWriters
  BY <1>9, SignalWritersWake
<1>10. CASE EncodePacket \/ SendBuffer \/ SendFails
  <2>1. sspc # "signal" /\ UNCHANGED <<queue, totalBytes, userVars>>
    BY <1>10 DEF EncodePacket, SendBuffer, SendFails
  <2> QED BY <2>1, PassWake
<1>11. CASE UNCHANGED vars
  BY <1>11, OtherWake DEF vars
<1> QED BY <1>1, <1>2, <1>3, <1>4, <1>5, <1>6, <1>7, <1>8, <1>9, <1>10, <1>11
        DEF Next, SocketSend, GetNextPacket

\* A thread waits on m_outboundQ_cv with nothing left in the queue of its channel only
\* while the signal for it, or a thread woken before it, is on its way: no wakeup is
\* lost, when every packet of a call fits in an empty queue.
THEOREM WakeupAlways == ASSUME CallsFit PROVE Spec => []NoLostWakeup
<1>1. Init => Inv /\ WakeInv
  BY InitInv, InitWake
<1>2. (Inv /\ WakeInv) /\ [Next]_vars => (Inv /\ WakeInv)'
  BY NextInv, NextWake
<1>3. WakeInv => NoLostWakeup
  BY DEF WakeInv
<1> QED BY <1>1, <1>2, <1>3, PTL DEF Spec
-----------------------------------------------------------------------------
(* The counter of a queue and the room in the buffer are exact. *)

\* The sums of s over the sets of places up to n, as FoldLeft makes them: the
\* greatest place last.
Sums(g, s, n) ==
    g = [P \in SUBSET (1 .. n) |->
            IF P = {} THEN 0 ELSE g[P \ {Max(P)}] + PacketTotal(s[Max(P)])]

LEMMA MaxOf ==
    ASSUME NEW n \in Nat, NEW P \in SUBSET (1 .. n), n \in P
    PROVE  Max(P) = n
<1> DEFINE Top(x) == x \in P /\ \A y \in P : x >= y
<1>1. Top(n)
  OBVIOUS
<1>2. \A x : Top(x) => x = n
  OBVIOUS
<1> QED BY <1>1, <1>2 DEF Max

LEMMA SumsExist ==
    ASSUME NEW s, NEW n \in Nat
    PROVE  \E g : Sums(g, s, n)
<1> DEFINE T == {k \in Nat : \E g : Sums(g, s, k)}
<1>1. 0 \in T
  <2> DEFINE g == [P \in SUBSET (1 .. 0) |-> 0]
  <2>1. \A P \in SUBSET (1 .. 0) : P = {}
    OBVIOUS
  <2>2. Sums(g, s, 0)
    BY <2>1 DEF Sums
  <2> QED BY <2>2
<1>2. ASSUME NEW k \in Nat, k \in T PROVE k + 1 \in T
  <2>1. PICK g : Sums(g, s, k)
    BY <1>2
  <2> DEFINE D == SUBSET (1 .. k + 1)
             Value(f, P) == IF P = {} THEN 0 ELSE f[P \ {Max(P)}] + PacketTotal(s[Max(P)])
             h == [P \in D |-> IF k + 1 \in P THEN Value(g, P) ELSE g[P]]
  <2>2. \A P \in D : k + 1 \notin P => P \in SUBSET (1 .. k)
    OBVIOUS
  <2>3. \A P \in D : k + 1 \in P => /\ Max(P) = k + 1 /\ P # {}
                                    /\ P \ {k + 1} \in SUBSET (1 .. k)
                                    /\ P \ {k + 1} \in D /\ k + 1 \notin P \ {k + 1}
    BY MaxOf
  <2>4. ASSUME NEW P \in D PROVE h[P] = Value(h, P)
    <3>1. h[P] = IF k + 1 \in P THEN Value(g, P) ELSE g[P]
      OBVIOUS
    <3>2. CASE k + 1 \in P
      <4>1. h[P \ {k + 1}] = g[P \ {k + 1}]
        BY <2>3, <3>2
      <4> HIDE DEF h
      <4> QED BY <2>3, <3>1, <3>2, <4>1
    <3>3. CASE k + 1 \notin P
      <4>1. g[P] = Value(g, P)
        BY <2>1, <2>2, <3>3 DEF Sums
      <4>2. P # {} => h[P \ {Max(P)}] = g[P \ {Max(P)}]
        <5>1. P \ {Max(P)} \in D /\ k + 1 \notin P \ {Max(P)}
          BY <3>3
        <5> QED BY <5>1
      <4> HIDE DEF h
      <4> QED BY <3>1, <3>3, <4>1, <4>2
    <3> QED BY <3>2, <3>3
  <2>5. h = [P \in D |-> h[P]]
    OBVIOUS
  <2> HIDE DEF h
  <2>6. h = [P \in D |-> Value(h, P)]
    BY <2>4, <2>5
  <2>7. Sums(h, s, k + 1)
    BY <2>6 DEF Sums
  <2> QED BY <2>7
<1>3. Nat \subseteq T
  BY <1>1, <1>2, NatSetInduction
<1> QED BY <1>3

LEMMA SumTotalsDef ==
    ASSUME NEW s \in Seq(Packet)
    PROVE  \E g : Sums(g, s, Len(s)) /\ SumTotals(s) = g[1 .. Len(s)]
<1> DEFINE Is(g) == g = [P \in SUBSET DOMAIN s |->
                           IF P = {} THEN 0 ELSE g[P \ {Max(P)}] + PacketTotal(s[Max(P)])]
           iter == CHOOSE g : Is(g)
<1>1. DOMAIN s = 1 .. Len(s) /\ Len(s) \in Nat
  OBVIOUS
<1>2. \E g : Is(g)
  <2>1. PICK g : Sums(g, s, Len(s))
    BY <1>1, SumsExist
  <2>2. Is(g)
    BY <1>1, <2>1 DEF Sums
  <2> QED BY <2>2, Zenon
<1>3. Is(iter)
  BY <1>2, Zenon
<1>4. SumTotals(s) = iter[DOMAIN s]
  BY Zenon DEF SumTotals, FoldLeft, MapThenFoldSet
<1>5. Sums(iter, s, Len(s))
  BY <1>1, <1>3 DEF Sums
<1> HIDE DEF iter
<1> QED BY <1>1, <1>4, <1>5

\* FoldLeft over the packets is their weight.
LEMMA SumTotalsWeighs ==
    ASSUME NEW s \in Seq(Packet), NEW n \in Nat, Weighs(s, n)
    PROVE  SumTotals(s) = n
<1>1. PICK g : Sums(g, s, Len(s)) /\ SumTotals(s) = g[1 .. Len(s)]
  BY SumTotalsDef
<1>2. PICK f \in [1 .. Len(s) + 1 -> Nat] :
         /\ f[1] = 0 /\ f[Len(s) + 1] = n
         /\ \A i \in 1 .. Len(s) : f[i + 1] = f[i] + PacketTotal(s[i])
  BY DEF Weighs
<1>3. Len(s) \in Nat
  OBVIOUS
<1> DEFINE T == {k \in Nat : k <= Len(s) => g[1 .. k] = f[k + 1]}
<1>4. 0 \in T
  <2>1. 1 .. 0 = {} /\ {} \in SUBSET (1 .. Len(s))
    OBVIOUS
  <2>2. g[{}] = 0
    BY <1>1, <2>1 DEF Sums
  <2> QED BY <1>2, <2>1, <2>2
<1>5. ASSUME NEW k \in Nat, k \in T PROVE k + 1 \in T
  <2> SUFFICES ASSUME k + 1 <= Len(s) PROVE g[1 .. k + 1] = f[k + 2]
    OBVIOUS
  <2> DEFINE P == 1 .. k + 1
  <2>1. /\ P \in SUBSET (1 .. Len(s)) /\ P \in SUBSET (1 .. k + 1)
        /\ k + 1 \in P /\ P \ {k + 1} = 1 .. k
    BY <1>3
  <2>2. Max(P) = k + 1
    BY <2>1, MaxOf
  <2> HIDE DEF P
  <2>3. g[P] = g[1 .. k] + PacketTotal(s[k + 1])
    BY <1>1, <2>1, <2>2 DEF Sums
  <2>4. g[1 .. k] = f[k + 1]
    BY <1>3, <1>5
  <2>5. f[k + 1 + 1] = f[k + 1] + PacketTotal(s[k + 1])
    BY <1>2, <1>3
  <2> QED BY <2>3, <2>4, <2>5 DEF P
<1>6. Nat \subseteq T
  BY <1>4, <1>5, NatSetInduction
<1>7. g[1 .. Len(s)] = f[Len(s) + 1]
  BY <1>3, <1>6
<1> QED BY <1>1, <1>2, <1>7

LEMMA QueueOrWaitCount ==
    ASSUME Inv, CountOK, NEW t \in Threads, NEW p \in Packet, QueueOrWait(t, p)
    PROVE  CountOK'
<1>1. CASE Enqueue(p)
  BY <1>1, EnqueueCount
<1>2. CASE UNCHANGED <<queue, totalBytes>>
  BY <1>2, CountSame
<1> QED BY <1>1, <1>2 DEF QueueOrWait

LEMMA NextCount ==
    ASSUME Inv, CountOK, [Next]_vars
    PROVE  CountOK'
<1>1. ASSUME NEW t \in Threads, QueueOutboundData(t) PROVE CountOK'
  <2>1. PICK p \in UserPackets : QueueOrWait(t, p)
    BY <1>1 DEF QueueOutboundData
  <2>2. PICK r \in Packet : r = p
    BY UserPacketsType
  <2> QED BY <2>1, <2>2, QueueOrWaitCount
<1>2. ASSUME NEW t \in Threads, WakeUp(t) PROVE CountOK'
  <2>1. PICK p \in Packet : p = request[t]
    BY <1>2 DEF Inv, CallOK, WakeUp
  <2>2. QueueOrWait(t, p)
    BY <1>2, <2>1 DEF WakeUp
  <2> QED BY <2>2, QueueOrWaitCount
<1>3. ASSUME NEW c \in Channels, QueueWindowAdjust(c) PROVE CountOK'
  <2> DEFINE p == [q |-> c, kind |-> "control", off |-> 0, len |-> 9, n |-> 0]
  <2>1. p \in Packet
    BY DEF Packet, Kinds, Queues
  <2>2. Enqueue(p)
    BY <1>3 DEF QueueWindowAdjust
  <2> HIDE DEF p
  <2> QED BY <2>1, <2>2, EnqueueCount
<1>4. CASE VisitData
  BY <1>4, VisitDataCount
<1>5. CASE TakeData
  <2>1. PICK c \in Queues : c = current
    BY <1>5 DEF Inv, TakeOK, TakeData
  <2>2. queue[c] # <<>> /\ Dequeue(c)
    BY <1>5, <2>1 DEF Inv, TakeOK, TakeData
  <2> QED BY <2>2, DequeueCount
<1>6. CASE VisitControl
  <2>1. PICK c \in Queues : c = Visited
    BY <1>6, VisitedType DEF Inv, VisitControl, HeadIs
  <2>2. queue[c] # <<>> /\ Dequeue(c)
    BY <1>6, <2>1 DEF VisitControl, HeadIs
  <2> QED BY <2>2, DequeueCount
<1>7. CASE \/ VisitEmpty \/ VisitBlockedData \/ VisitTooLarge \/ SignalWriters
           \/ EncodePacket \/ SendBuffer \/ SendFails \/ UNCHANGED vars
           \/ \E c \in Channels, k \in Grants : AdjustWindowSizeRemote(c, k)
  <2>1. UNCHANGED <<queue, totalBytes>>
    BY <1>7 DEF VisitEmpty, VisitBlockedData, VisitTooLarge, SignalWriters, EncodePacket,
                SendBuffer, SendFails, vars, AdjustWindowSizeRemote
  <2> QED BY <2>1, CountSame
<1> QED BY <1>1, <1>2, <1>3, <1>4, <1>5, <1>6, <1>7 DEF Next, SocketSend, GetNextPacket

\* What is packed and the room that is left are the buffer, as uint32 values.
LeftOK ==
    sspc \notin {"encode", "dead"} =>
        \E n \in Nat : /\ Weighs(packed, n)
                       /\ Same(rawLeft + n + Len(packed) * MacLen, RawBuf)

LEMMA LeftSame ==
    ASSUME LeftOK, UNCHANGED <<packed, rawLeft>>, sspc \notin {"encode", "dead"}
    PROVE  LeftOK'
  BY DEF LeftOK

LEMMA ReturnLeft ==
    ASSUME Inv, LeftOK, sspc \notin {"encode", "dead"},
           NEW p \in Packet \cup {None}, Return(p)
    PROVE  LeftOK'
<1>1. CASE p = None
  <2>1. UNCHANGED <<packed, rawLeft>>
    BY <1>1 DEF Return
  <2> QED BY <2>1, LeftSame
<1>2. CASE p # None
  <2>1. p \in Packet
    BY <1>2
  <2>2. packed' = Append(packed, p) /\ rawLeft' = Minus(rawLeft, PacketTotal(p) + MacLen)
    BY <1>2 DEF Return
  <2>3. PICK n \in Nat : /\ Weighs(packed, n)
                         /\ Same(rawLeft + n + Len(packed) * MacLen, RawBuf)
    BY DEF LeftOK
  <2>4. packed \in Seq(Packet) /\ rawLeft \in Int /\ MacLen \in Nat /\ RawBuf \in Int
    BY ConstantsType, OutboundAssumption DEF Inv, TypeOK
  <2>5. PICK w \in Nat : w = PacketTotal(p)
    BY <2>1, PacketTotalType
  <2>6. Weighs(packed', n + w)
    BY <2>1, <2>2, <2>3, <2>4, <2>5, WeighsAppend
  <2>7. Len(packed') = Len(packed) + 1 /\ Len(packed) \in Nat
    BY <2>1, <2>2, <2>4
  <2>8. PICK u \in Nat : u = Len(packed) * MacLen
    BY <2>4, <2>7, SMT
  <2>9. Len(packed') * MacLen = u + MacLen
    BY <2>4, <2>7, <2>8, SMT
  <2> DEFINE r == (rawLeft - (w + MacLen)) % Word
             a == rawLeft - (w + MacLen)
             d == (n + w) + (u + MacLen)
  <2>10. a \in Int /\ d \in Int /\ a + d = rawLeft + n + u
    BY <2>4
  <2>11. r \in 0 .. (Word - 1) /\ Same(r, a)
    <3> HIDE DEF a
    <3>1. a % Word \in 0 .. (Word - 1) /\ Same(a % Word, a)
      BY <2>10, SameMod
    <3> QED BY <3>1 DEF a
  <2>12. r \in Int
    <3> HIDE DEF r
    <3> QED BY <2>11, ConstantsType
  <2> HIDE DEF r, a, d
  <2>13. Same(r + d, a + d)
    BY <2>10, <2>11, <2>12, SameAdd
  <2>14. Same(a + d, RawBuf)
    BY <2>3, <2>8, <2>10
  <2>15. Same(r + d, RawBuf)
    <3>1. r + d \in Int /\ a + d \in Int
      BY <2>10, <2>12
    <3> QED BY <3>1, <2>4, <2>13, <2>14, SameTrans
  <2>16. rawLeft' = r
    BY <2>2, <2>5 DEF Minus, r
  <2>17. rawLeft' + (n + w) + Len(packed') * MacLen = r + d
    BY <2>4, <2>9, <2>12, <2>16 DEF d
  <2> QED BY <2>6, <2>15, <2>17 DEF LeftOK
<1> QED BY <1>1, <1>2, Zenon

LEMMA ContinueWithLeft ==
    ASSUME Inv, LeftOK, sspc \notin {"encode", "dead"},
           NEW p \in Packet \cup {None}, ContinueWith(p)
    PROVE  LeftOK'
<1>1. CASE Return(p)
  <2> QED BY <1>1, ReturnLeft
<1>2. CASE UNCHANGED <<packed, rawLeft>>
  BY <1>2, LeftSame
<1> QED BY <1>1, <1>2 DEF ContinueWith

LEMMA EmptyBuffer ==
    \E n \in Nat : Weighs(<<>>, n) /\ Same(RawBuf + n + Len(<<>>) * MacLen, RawBuf)
<1>1. RawBuf \in Int /\ MacLen \in Int
  BY OutboundAssumption
<1>2. Len(<<>>) * MacLen = 0
  BY <1>1, SMT
<1>3. RawBuf + 0 + Len(<<>>) * MacLen = RawBuf
  BY <1>1, <1>2
<1> QED BY <1>1, <1>3, WeighsEmpty, SameRefl

LEMMA NextLeft ==
    ASSUME Inv, CountOK, LeftOK, [Next]_vars
    PROVE  LeftOK'
<1>1. CASE \/ \E t \in Threads : QueueOutboundData(t) \/ WakeUp(t)
           \/ \E c \in Channels : QueueWindowAdjust(c)
           \/ \E c \in Channels, k \in Grants : AdjustWindowSizeRemote(c, k)
           \/ UNCHANGED vars
  <2>1. UNCHANGED ssVars
    BY <1>1 DEF QueueOutboundData, WakeUp, QueueWindowAdjust, AdjustWindowSizeRemote, vars
  <2> QED BY <2>1 DEF LeftOK, ssVars
<1>2. PICK f \in Packet \cup {None} : f = found
  BY DEF Inv, TypeOK
<1>3. CASE VisitEmpty \/ VisitBlockedData
  <2>1. sspc \notin {"encode", "dead"} /\ (ContinueWith(f) \/ ContinueWith(None))
    BY <1>2, <1>3 DEF VisitEmpty, VisitBlockedData, HeadIs
  <2> QED BY <2>1, ContinueWithLeft
<1>4. CASE VisitData \/ TakeData
  <2>1. sspc \notin {"encode", "dead"} /\ UNCHANGED <<packed, rawLeft>>
    BY <1>4 DEF VisitData, TakeData, HeadIs
  <2> QED BY <2>1, LeftSame
<1>5. CASE VisitControl \/ VisitTooLarge
  <2>1. PICK c \in Queues : c = Visited
    BY <1>5, VisitedType DEF Inv, VisitControl, VisitTooLarge, HeadIs
  <2>2. queue[c] # <<>> /\ sspc \notin {"encode", "dead"}
    BY <1>5, <2>1 DEF VisitControl, VisitTooLarge, HeadIs
  <2>3. PICK p \in Packet \cup {None} : p = Head(queue[c])
    BY <2>2, CountHere
  <2>4. \/ Return(p)
        \/ ContinueWith(p)
        \/ UNCHANGED <<packed, rawLeft>>
    BY <1>5, <2>1, <2>3 DEF VisitControl, VisitTooLarge
  <2> QED BY <2>2, <2>3, <2>4, ReturnLeft, ContinueWithLeft, LeftSame
<1>6. CASE SignalWriters
  <2>1. sspc \notin {"encode", "dead"} /\ (Return(f) \/ UNCHANGED <<packed, rawLeft>>)
    BY <1>2, <1>6 DEF SignalWriters
  <2> QED BY <2>1, ReturnLeft, LeftSame
<1>7. CASE EncodePacket \/ SendFails
  <2>1. sspc' \in {"encode", "dead"}
    BY <1>7 DEF EncodePacket, SendFails
  <2> QED BY <2>1 DEF LeftOK
<1>8. CASE SendBuffer
  <2>1. packed' = <<>> /\ rawLeft' = RawBuf
    BY <1>8 DEF SendBuffer
  <2> QED BY <2>1, EmptyBuffer DEF LeftOK
<1> QED BY <1>1, <1>3, <1>4, <1>5, <1>6, <1>7, <1>8 DEF Next, SocketSend, GetNextPacket

LEMMA SameSym ==
    ASSUME NEW a \in Int, NEW b \in Int, Same(a, b)
    PROVE  Same(b, a)
<1>1. PICK k \in Int : a = b + k * Word
  BY DEF Same
<1>2. Word \in Int
  BY ConstantsType
<1>3. - k \in Int /\ b = a + (- k) * Word
  BY <1>1, <1>2, SMT
<1> QED BY <1>3 DEF Same

\* Equal as uint32 values, and the second is one.
LEMMA SameValue ==
    ASSUME NEW a \in Int, NEW b \in 0 .. (Word - 1), Same(a, b)
    PROVE  a % Word = b
<1>1. Word \in Nat \ {0} /\ b \in Int
  BY ConstantsType
<1> DEFINE r == a % Word
<1>2. r \in 0 .. (Word - 1) /\ Same(r, a)
  BY SameMod
<1> HIDE DEF r
<1>3. r \in Int
  BY <1>1, <1>2
<1>4. Same(r, b)
  BY <1>1, <1>2, <1>3, SameTrans
<1>5. PICK k \in Int : r = b + k * Word
  BY <1>4 DEF Same
<1>6. r - b = k * Word
  <2>1. PICK x \in Int : x = k * Word
    BY <1>1, SMT
  <2> QED BY <1>1, <1>3, <1>5, <2>1
<1> DEFINE w == Word
<1>7. w \in Nat \ {0} /\ r \in 0 .. (w - 1) /\ b \in 0 .. (w - 1) /\ r - b = k * w
  BY <1>1, <1>2, <1>6
<1> HIDE DEF w
<1>8. k > 0 => k * w >= w
  BY <1>7, SMT
<1>9. k < 0 => k * w <= - w
  BY <1>7, SMT
<1>10. k = 0
  BY <1>7, <1>8, <1>9
<1> QED BY <1>7, <1>10 DEF r

LEMMA CountImplies ==
    ASSUME Inv, CountOK, LeftOK
    PROVE  CountExact
<1>1. ASSUME NEW c \in Queues PROVE totalBytes[c] = SumTotals(queue[c]) % Word
  <2>1. PICK n \in Nat : Weighs(queue[c], n) /\ Same(totalBytes[c], n)
    BY DEF CountOK
  <2>2. SumTotals(queue[c]) = n
    <3>1. PICK s \in Seq(Packet) : s = queue[c]
      BY CountHere
    <3> QED BY <2>1, <3>1, SumTotalsWeighs
  <2>3. totalBytes[c] \in 0 .. (Word - 1) /\ totalBytes[c] \in Int
    <3>1. totalBytes[c] \in 0 .. (Word - 1)
      BY DEF CountOK
    <3>2. totalBytes[c] \in Nat
      BY CountHere
    <3> QED BY <3>1, <3>2
  <2>4. Same(n, totalBytes[c])
    BY <2>1, <2>3, SameSym
  <2> QED BY <2>2, <2>3, <2>4, SameValue
<1>2. ASSUME sspc \notin {"encode", "dead"}
      PROVE  (rawLeft + SumTotals(packed) + Len(packed) * MacLen) % Word = RawBuf
  <2>1. PICK n \in Nat : /\ Weighs(packed, n)
                         /\ Same(rawLeft + n + Len(packed) * MacLen, RawBuf)
    BY <1>2 DEF LeftOK
  <2>2. packed \in Seq(Packet) /\ rawLeft \in Int /\ MacLen \in Nat
    BY ConstantsType, OutboundAssumption DEF Inv, TypeOK
  <2>3. SumTotals(packed) = n
    BY <2>1, <2>2, SumTotalsWeighs
  <2>4. Len(packed) * MacLen \in Int
    BY <2>2, SMT
  <2>5. PICK a \in Int : a = rawLeft + n + Len(packed) * MacLen
    BY <2>2, <2>4
  <2>6. RawBuf \in 0 .. (Word - 1)
    BY OutboundAssumption
  <2>7. a % Word = RawBuf
    BY <2>1, <2>5, <2>6, SameValue
  <2> QED BY <2>3, <2>5, <2>7
<1> QED BY <1>1, <1>2 DEF CountExact

\* m_totalBytesInQ of every queue is the sum of the lengths of its packets and
\* m_rawBufLeft what the packets waiting to be encoded leave of the buffer, as uint32
\* values, after any number of enqueues, splits and dequeues by any threads.
THEOREM CountAlways == Spec => []CountExact
<1>1. Init => Inv /\ CountOK /\ LeftOK
  <2>1. Init => LeftOK
    BY EmptyBuffer DEF Init, LeftOK
  <2> QED BY <2>1, InitInv, InitWake DEF WakeInv
<1>2. (Inv /\ CountOK /\ LeftOK) /\ [Next]_vars => (Inv /\ CountOK /\ LeftOK)'
  BY NextInv, NextCount, NextLeft
<1>3. Inv /\ CountOK /\ LeftOK => CountExact
  BY CountImplies
<1> QED BY <1>1, <1>2, <1>3, PTL DEF Spec
===============================================================================
