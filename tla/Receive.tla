------------------------------ MODULE Receive ------------------------------
(***************************************************************************)
(* SocketRecieve: the thread that reads the socket into a ring of bytes    *)
(* and cuts the packets of the server out of it (SocketRecieve.cpp).       *)
(*                                                                         *)
(* The server sends the packets of its key exchanges, data under the new   *)
(* keys, and a disconnect.  The bytes of the connection are numbered, and  *)
(* the ring holds their numbers.  A read returns any part of what has      *)
(* arrived.  A packet is complete when its length, which its first block   *)
(* tells, and the MAC behind it are there; NEWKEYS is the last packet of   *)
(* the old cipher, and the cipher of the next one comes from the Transport *)
(* thread, which makes it out of KEXDH_REPLY (PTsshSocket::doKeyExchange_  *)
(* step2).  A unit stands for four bytes: the block of aes is four, the    *)
(* block of a Cipher object before the first exchange is two, the MAC of   *)
(* hmac-sha1 is five and that of hmac-sha1-96 three.                       *)
(***************************************************************************)
EXTENDS Integers, Sequences, FiniteSets

CONSTANTS
    RawBufSize,     \* PTSSH_MAX_RAW_BUF_IN_SIZE
    PlainBlock,     \* blockSize of a Cipher before the first key exchange
    CipherBlock,    \* blockSize of the ciphers that may be negotiated
    MacLens,        \* and their macLen
    PlainLens, Lens,\* lengths of a packet on the wire, without its MAC
    DamagedLens,    \* lengths a damaged block may give: any number in the code
    MaxPackets      \* packets the server sends

ASSUME SizesAssumption ==
    /\ {RawBufSize, PlainBlock, CipherBlock} \subseteq Nat \ {0}
    /\ MacLens \subseteq Nat /\ DamagedLens \subseteq Nat \ {0} /\ MaxPackets \in Nat
    /\ PlainBlock < RawBufSize /\ CipherBlock < RawBufSize
    /\ \A m \in MacLens : m < RawBufSize
    /\ \A n \in PlainLens : n \in Nat /\ n >= PlainBlock /\ n % PlainBlock = 0
    /\ \A n \in Lens : n \in Nat /\ n >= CipherBlock /\ n % CipherBlock = 0

VARIABLES
    pc,         \* where run() is
    raw,        \* m_pRawBufIn: the number of the byte at each place
    writeIter,  \* m_pRawWriteIter
    workIter,   \* m_pRawBufWorkIter
    left,       \* m_rawLeftToProcess
    newPacket,  \* m_pNewPacket, as far as m_pNewPacketWorkIter
    newLen,     \* m_pNewPacketLen; 0 stands for m_pNewPacket == NULL
    sequenceNum,\* m_sequenceNum
    inbound,    \* m_pInboundQ, as all that was enqueued
    cipher,     \* m_pCipher: the number of the exchange it comes from
    newCipher,  \* m_pNewCipher, 0 for NULL
    served,     \* external: the packets the server has sent
    arrived,    \* the bytes read from the socket
    macLen      \* Cipher::macLen, as negotiated

ringVars == <<raw, writeIter, workIter, left>>
packetVars == <<newPacket, newLen>>
queueVars == <<sequenceNum, inbound>>
cipherVars == <<cipher, newCipher, macLen>>
serverVars == <<served, arrived>>
receiveVars == <<pc, ringVars, packetVars, queueVars, cipherVars, serverVars>>

Places == 0 .. RawBufSize - 1

ReceiveInit ==
    /\ pc = "read"
    /\ raw = [i \in Places |-> 0] /\ writeIter = 0 /\ workIter = 0 /\ left = 0
    /\ newPacket = <<>> /\ newLen = 0 /\ sequenceNum = 0 /\ inbound = <<>>
    /\ cipher = 0 /\ newCipher = 0 /\ macLen \in MacLens
    /\ served = <<>> /\ arrived = 0

-----------------------------------------------------------------------------
(* The server.                                                             *)

\* Packets of a type among those a sequence of packet numbers names.
Count(type, numbers) == Cardinality({k \in numbers : served[k].type = type})
Sent(type) == Count(type, DOMAIN served)
Enqueued(type) == Count(type, {inbound[i] : i \in DOMAIN inbound} \ {0})

MacOf(keys) == IF keys = 0 THEN 0 ELSE macLen
BlockOf(keys) == IF keys = 0 THEN PlainBlock ELSE CipherBlock
WireLen(p) == p.len + MacOf(p.keys)
Total == IF served = <<>> THEN 0
         ELSE LET p == served[Len(served)] IN p.from + WireLen(p)

\* What the protocol lets the server send next: an exchange is not
\* interrupted, and KEXDH_REPLY answers what Transport queues for KEXINIT.
MaySend(type) ==
    LET begun == Sent("kexinit")
        ended == Sent("newkeys")
    IN  /\ Sent("disconnect") = 0
        /\ \/ type = "kexinit" /\ begun = ended
           \/ type = "reply" /\ begun > Sent("reply") /\ Enqueued("kexinit") = begun
           \/ type = "newkeys" /\ Sent("reply") > ended
           \/ type \in {"data", "disconnect"} /\ begun = ended /\ ended > 0

\* A packet under a MAC may be damaged on its way, once.
ServerSends ==
    /\ Len(served) < MaxPackets
    /\ \E type \in {"kexinit", "reply", "newkeys", "data", "disconnect"} :
       \E damaged \in BOOLEAN :
        LET keys == Sent("newkeys")
        IN  /\ MaySend(type)
            /\ damaged => keys > 0 /\ \A k \in DOMAIN served : ~served[k].damaged
            /\ \E len \in IF keys = 0 THEN PlainLens ELSE Lens :
                served' = Append(served, [type |-> type, from |-> Total, len |-> len,
                                      keys |-> keys, damaged |-> damaged])
    /\ UNCHANGED <<pc, ringVars, packetVars, queueVars, cipherVars, arrived>>

-----------------------------------------------------------------------------
(* recv: as much as there is, never past the end of the ring.  The ring    *)
(* starts over when it is empty.                                           *)

spaceInRawBuf == RawBufSize - left
StartsOver == left = 0

maxRead ==
    IF StartsOver THEN spaceInRawBuf
    ELSE IF writeIter + spaceInRawBuf >= RawBufSize THEN RawBufSize - writeIter
    ELSE spaceInRawBuf

Recv ==
    LET to == IF StartsOver THEN 0 ELSE writeIter
    IN  /\ pc = "read"
        /\ \E bytesRead \in 1 .. maxRead :
            /\ arrived + bytesRead <= Total
            /\ raw' = [i \in Places |->
                        IF i \in to .. to + bytesRead - 1 THEN arrived + (i - to) ELSE raw[i]]
            /\ writeIter' = (to + bytesRead) % RawBufSize
            /\ workIter' = IF StartsOver THEN 0 ELSE workIter
            /\ left' = left + bytesRead
            /\ arrived' = arrived + bytesRead
        /\ pc' = "loop"
        /\ UNCHANGED <<packetVars, queueVars, cipherVars, served>>

\* A socket the server has closed, or an error, ends the thread.
RecvEnds ==
    /\ pc = "read"
    /\ pc' = "ended"
    /\ UNCHANGED <<ringVars, packetVars, queueVars, cipherVars, serverVars>>

-----------------------------------------------------------------------------
(* The ring.                                                               *)

Bytes(from, n) == [i \in 1 .. n |-> raw[from + i - 1]]

Advance(iter, n) == IF iter + n = RawBufSize THEN 0 ELSE iter + n

\* decrypt: whole blocks up to the end of the ring, then the block that lies
\* across the end, put together in pTempBuf, then the rest.
decrypt(n) ==
    LET blockSize == BlockOf(cipher)
        split == workIter + n > RawBufSize
        toEnd == RawBufSize - workIter
        stage1 == IF split THEN (toEnd \div blockSize) * blockSize ELSE 0
        onEnd == toEnd - stage1
        stage2 == IF split /\ onEnd > 0 THEN blockSize ELSE 0
        stage3 == n - stage1 - stage2
        start3 == IF ~split THEN workIter
                  ELSE IF stage2 = 0 THEN 0 ELSE blockSize - onEnd
        middle == IF stage2 = 0 THEN <<>>
                  ELSE Bytes(workIter + stage1, onEnd) \o Bytes(0, blockSize - onEnd)
    IN  [text |-> Bytes(workIter, stage1) \o middle \o Bytes(start3, stage3),
         iter |-> IF stage3 = 0 THEN start3 ELSE Advance(start3, stage3)]

\* Mutant: after a packet that lies across the end, goes on at the start.
copyAcross(n) ==
    LET onEnd == RawBufSize - workIter
    IN  IF workIter + n > RawBufSize
        THEN [text |-> Bytes(workIter, onEnd) \o Bytes(0, n - onEnd), iter |-> 0]
        ELSE [text |-> Bytes(workIter, n), iter |-> Advance(workIter, n)]

\* The copy that stands for decryption before the first exchange.
copyRaw(n) ==
    LET onEnd == RawBufSize - workIter
    IN  IF workIter + n > RawBufSize
        THEN [text |-> Bytes(workIter, onEnd) \o Bytes(0, n - onEnd), iter |-> n - onEnd]
        ELSE [text |-> Bytes(workIter, n), iter |-> Advance(workIter, n)]

CutOut(n) == IF cipher = 0 THEN copyRaw(n) ELSE decrypt(n)

-----------------------------------------------------------------------------
(* The loop over the ring.                                                 *)

\* The number of the packet that starts at a byte, 0 when none does.
PacketAt(byte) ==
    IF \E k \in DOMAIN served : served[k].from = byte
    THEN CHOOSE k \in DOMAIN served : served[k].from = byte
    ELSE 0

\* packet_length can be read from the first block of a packet, with the cipher
\* it was made with; out of step or damaged, it is any number.
LengthsRead(text) ==
    LET k == PacketAt(Head(text))
    IN  IF k # 0 /\ served[k].keys = cipher /\ ~served[k].damaged THEN {served[k].len}
        ELSE DamagedLens

\* Less than a block in the ring: back to the socket.
LoopEnds ==
    /\ pc = "loop" /\ left < BlockOf(cipher)
    /\ pc' = "read"
    /\ UNCHANGED <<ringVars, packetVars, queueVars, cipherVars, serverVars>>

\* The block is copied into a buffer of the length read from it; when that is less than
\* a block the copy writes past its end, and what the thread does next is undefined.
createNewReadPacket ==
    LET block == CutOut(BlockOf(cipher))
    IN  /\ pc = "loop" /\ left >= BlockOf(cipher) /\ newLen = 0
        /\ newPacket' = block.text
        /\ newLen' \in LengthsRead(block.text)
        /\ workIter' = block.iter
        /\ left' = left - BlockOf(cipher)
        /\ pc' = IF newLen' < BlockOf(cipher) THEN "undefined"
                 ELSE IF left' < BlockOf(cipher) THEN "read" ELSE "fill"
        /\ UNCHANGED <<raw, writeIter, queueVars, cipherVars, serverVars>>

LoopGoesOn ==
    /\ pc = "loop" /\ left >= BlockOf(cipher) /\ newLen # 0
    /\ pc' = "fill"
    /\ UNCHANGED <<ringVars, packetVars, queueVars, cipherVars, serverVars>>

newPacketIsFull == Len(newPacket) = newLen

\* As much of the packet as the ring has, in whole blocks under a cipher.
fillLen ==
    LET fillNeeded == newLen - Len(newPacket)
        some == IF fillNeeded < left THEN fillNeeded ELSE left
    IN  IF cipher = 0 THEN some ELSE (some \div CipherBlock) * CipherBlock

fillNewPacket ==
    /\ pc = "fill"
    /\ IF newPacketIsFull THEN UNCHANGED <<newPacket, workIter, left>>
       ELSE LET part == CutOut(fillLen)
            IN  /\ newPacket' = newPacket \o part.text
                /\ workIter' = part.iter
                /\ left' = left - fillLen
    /\ pc' = "check"
    /\ UNCHANGED <<raw, writeIter, newLen, queueVars, cipherVars, serverVars>>

-----------------------------------------------------------------------------
(* A complete packet.                                                      *)

\* The MAC is read from the ring, and must be that of this packet, in its
\* place in the connection, under the keys of the cipher.
verifyNewPacketMAC ==
    LET k == PacketAt(Head(newPacket))
        mac == copyRaw(macLen).text
    IN  cipher = 0 \/
        /\ k # 0
        /\ served[k].keys = cipher /\ ~served[k].damaged /\ sequenceNum = k - 1
        /\ newPacket = [i \in 1 .. served[k].len |-> served[k].from + i - 1]
        /\ mac = [i \in 1 .. macLen |-> served[k].from + served[k].len + i - 1]

TakeMac ==
    /\ left' = left - MacOf(cipher)
    /\ workIter' = IF cipher = 0 THEN workIter ELSE copyRaw(macLen).iter

Deliver == inbound' = Append(inbound, PacketAt(Head(newPacket)))

\* Not complete yet: the loop tests the ring again.
CheckFails ==
    /\ pc = "check"
    /\ ~newPacketIsFull \/ left < MacOf(cipher)
    /\ pc' = "loop"
    /\ UNCHANGED <<ringVars, packetVars, queueVars, cipherVars, serverVars>>

Complete == pc = "check" /\ newPacketIsFull /\ left >= MacOf(cipher)

\* DISCONNECT ends both loops; NEWKEYS waits for the cipher first.  (KEXINIT
\* also tells SocketSend, see KeyExchange.)
PacketAccepted ==
    LET k == PacketAt(Head(newPacket))
        type == IF k = 0 THEN "data" ELSE served[k].type
    IN  /\ Complete /\ verifyNewPacketMAC
        /\ TakeMac
        /\ sequenceNum' = sequenceNum + 1
        /\ IF type = "newkeys"
           THEN pc' = "endKeyExchange" /\ UNCHANGED <<inbound, packetVars>>
           ELSE /\ Deliver
                /\ newPacket' = <<>> /\ newLen' = 0
                /\ pc' = IF type = "disconnect" THEN "ended" ELSE "loop"
        /\ UNCHANGED <<raw, writeIter, cipherVars, serverVars>>

PacketRefused ==
    /\ Complete /\ ~verifyNewPacketMAC
    /\ TakeMac
    /\ pc' = "ended"
    /\ UNCHANGED <<raw, writeIter, packetVars, queueVars, cipherVars, serverVars>>

\* uncompressPacket deletes m_pNewPacket when the data cannot be inflated, and
\* leaves the pointer: what the thread does next is undefined.
UncompressFails ==
    /\ Complete /\ verifyNewPacketMAC /\ cipher > 0
    /\ TakeMac
    /\ sequenceNum' = sequenceNum + 1
    /\ pc' = "undefined"
    /\ UNCHANGED <<raw, writeIter, packetVars, inbound, cipherVars, serverVars>>

SwapCipher ==
    /\ cipher' = newCipher /\ newCipher' = 0 /\ UNCHANGED macLen
    /\ Deliver
    /\ newPacket' = <<>> /\ newLen' = 0
    /\ pc' = "loop"

\* Mutant: goes on with the old cipher when there is no new one.
EndKeyExchangeEarly ==
    /\ pc = "endKeyExchange"
    /\ IF newCipher # 0 THEN SwapCipher
       ELSE /\ Deliver
            /\ newPacket' = <<>> /\ newLen' = 0
            /\ pc' = "loop"
            /\ UNCHANGED cipherVars
    /\ UNCHANGED <<ringVars, sequenceNum, serverVars>>

\* endKeyExchange waits until Transport has made the new cipher.
endKeyExchange ==
    /\ \/ pc = "endKeyExchange" /\ newCipher # 0 /\ SwapCipher
       \/ pc = "endKeyExchange" /\ newCipher = 0 /\ pc' = "waiting"
          /\ UNCHANGED <<inbound, packetVars, cipherVars>>
       \/ pc = "awake" /\ SwapCipher
    /\ UNCHANGED <<ringVars, sequenceNum, serverVars>>

\* Mutant: nobody is told of the new cipher.
SetCipherSilently ==
    /\ Enqueued("reply") > cipher /\ newCipher = 0
    /\ newCipher' = cipher + 1
    /\ UNCHANGED <<pc, cipher, macLen, ringVars, packetVars, queueVars, serverVars>>

\* Transport has handled KEXDH_REPLY: doKeyExchange_step2 gives the cipher.
setCipher ==
    /\ Enqueued("reply") > cipher /\ newCipher = 0
    /\ newCipher' = cipher + 1
    /\ pc' = IF pc = "waiting" THEN "awake" ELSE pc
    /\ UNCHANGED <<cipher, macLen, ringVars, packetVars, queueVars, serverVars>>

-----------------------------------------------------------------------------
Run ==
    \/ Recv \/ LoopEnds \/ createNewReadPacket \/ LoopGoesOn
    \/ fillNewPacket \/ CheckFails \/ PacketAccepted \/ PacketRefused
    \/ UncompressFails \/ endKeyExchange

ReceiveNext == Run \/ RecvEnds \/ setCipher \/ ServerSends

ReceiveSpec == ReceiveInit /\ [][ReceiveNext]_receiveVars

\* The scheduler runs both threads; the server and the network owe nothing.
FairReceive == ReceiveSpec /\ WF_receiveVars(Run) /\ WF_receiveVars(setCipher)

-----------------------------------------------------------------------------
(* Properties.                                                             *)

\* Iterators stay in the ring, and no more is left to process than it holds.
ReceiveTypes ==
    /\ pc \in {"read", "loop", "fill", "check", "endKeyExchange", "waiting", "awake",
               "ended", "undefined"}
    /\ raw \in [Places -> Nat] /\ writeIter \in Places /\ workIter \in Places
    /\ left \in 0 .. RawBufSize
    /\ newLen \in {0} \cup PlainLens \cup Lens \cup DamagedLens
    /\ pc # "undefined" => Len(newPacket) <= newLen
    /\ sequenceNum \in 0 .. MaxPackets
    /\ inbound \in Seq(Nat) 
    /\ {cipher, newCipher} \subseteq 0 .. MaxPackets /\ macLen \in MacLens

\* The ring holds, from m_pRawBufWorkIter on, the last m_rawLeftToProcess bytes
\* read, and the next read goes behind them: wrapping in recv, decrypt, the
\* copies and the MAC never loses, repeats or overwrites a byte.  (The types come
\* first: a place outside the ring is no place.)
RingKept ==
    /\ ReceiveTypes
    /\ \A i \in 0 .. left - 1 :
        raw[(workIter + i) % RawBufSize] = arrived - left + i
    /\ left > 0 => writeIter = (workIter + left) % RawBufSize

\* The packet under construction is the next one of the server, byte for byte,
\* and the cipher at work is the one it was made with, also for the packets that
\* were in the ring when NEWKEYS changed the cipher.
PacketsInStep ==
    newLen # 0 =>
        LET k == Len(inbound) + 1
        IN  /\ k \in DOMAIN served
            /\ ~served[k].damaged => newLen = served[k].len
            /\ served[k].keys = cipher
            /\ newPacket = [i \in DOMAIN newPacket |-> served[k].from + i - 1]

\* What reaches Transport is what the server sent, in order, none skipped, and
\* under a cipher none that was damaged; and so is the packet on its way there.
Genuine ==
    /\ PacketsInStep
    /\ \A i \in DOMAIN inbound :
            inbound[i] = i /\ i \in DOMAIN served /\ ~served[i].damaged

\* A packet that another one follows reaches Transport, whatever the reads return
\* and whenever the new cipher is made, unless the connection breaks.  (A packet
\* nothing follows may be held back: its last bytes can be less than a block.)
\* Under a cipher whose MAC is longer than its block this is only so before the
\* first NEWKEYS, see LoopTerminates; and a damaged length need not be one the
\* loop can fill.
FollowedIsRead ==
    \A k \in 1 .. MaxPackets :
        (/\ k + 1 \in DOMAIN served
         /\ \A j \in 1 .. k : ~served[j].damaged
         /\ served[k].keys = 0 \/ macLen <= CipherBlock)
            ~> (k <= Len(inbound) \/ pc \in {"ended", "undefined"})

\* SocketRecieve.cpp:411-413: with less than a block in the ring the thread goes back
\* to the socket, so the loop over the ring ends.  It does not when a full packet
\* has at least a block but less than its MAC behind it.
LoopTerminates == (pc = "loop") ~> (pc \in {"read", "ended", "undefined"})
=============================================================================
