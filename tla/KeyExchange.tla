---------------------------- MODULE KeyExchange ----------------------------
(***************************************************************************)
(* The key exchange of PTssh: SocketRecieve sees the server begin one,     *)
(* Transport answers (PTsshSocket, CryptoStuff), SocketSend sends nothing  *)
(* but the exchange until NEWKEYS, and both ends change their ciphers at   *)
(* NEWKEYS.  The client never begins an exchange.                          *)
(*                                                                         *)
(* A key is what it is derived from: the exchange hash, the session, the   *)
(* algorithm.  An exchange hash is the two KEXINITs and e it was made of,  *)
(* a KEXINIT and e being the number of the packet that carries them.  The  *)
(* ring of SocketRecieve is in Receive, the waiting of the user for the    *)
(* connection in Session, the windows and queues of channels in Outbound.  *)
(***************************************************************************)
EXTENDS Integers, Sequences

CONSTANTS
    RawBufOut,      \* PTSSH_MAX_RAW_BUF_OUT_SIZE
    MinRoom,        \* what is left of it when no more packets are taken: 52 bytes
    PacketLen,      \* the length of a packet of each type, with its MAC
    ClientAlgs,     \* PTSSH_KEYX_ALGORITHMS and PTSSH_ENC_ALGORITHMS
    ServerOffers,   \* what the KEXINIT of a server may offer
    MaxExchanges, MaxData, MaxServerData

KexTypes == {"kexinit", "kexdh_init", "newkeys"}
Lists == {"kex", "c2s", "s2c"}

ASSUME SizesAssumption ==
    /\ {RawBufOut, MinRoom, MaxExchanges, MaxData, MaxServerData} \subseteq Nat
    /\ PacketLen \in [KexTypes \cup {"data"} -> Nat \ {0}]
    /\ ClientAlgs \in [Lists -> Seq(STRING)]
    /\ \A offer \in ServerOffers : offer \in [Lists -> Seq(STRING)]

VARIABLES
    mainQ, channelQ,    \* m_pMainQ, and the queue of a channel (ChannelManager)
    made, data, \* packets the client has made, and those of the user among them
    keyXMode,   \* m_bIsInKeyXMode (SocketSend)
    ssPc,       \* where SocketSend::run is
    bInKeyXMode,\* its copy of the mode
    outboundQ,  \* m_pOutboundQ
    rawBufLeft, \* m_rawBufLeft
    waited,     \* bAlreadyWaitedForMore
    ssCipher, ssNewCipher,  \* m_pCipher and m_pNewCipher of SocketSend
    srPc,       \* where SocketRecieve::run is
    srCipher, srNewCipher,  \* m_pCipher and m_pNewCipher of SocketRecieve
    inboundQ,   \* m_pInboundQ
    tPc,        \* where Transport is in the handler of Head(inboundQ)
    alg,        \* m_KN_keyx, m_KN_encrypt_CtoS, m_KN_encrypt_StoC
    crypto,     \* CryptoStuff: pI_C, pI_S, p_e, m_sessionID, the keys being made
    connected,  \* m_bConnected
    toServer,   \* all the packets sent, with the keys they were sent under
    toClient,   \* the packets of the server that were not read
    srv         \* external: the server

queueVars == <<mainQ, channelQ, made, data>>
sendVars == <<ssPc, bInKeyXMode, outboundQ, rawBufLeft, waited, ssCipher, toServer>>
receiveVars == <<srPc, srCipher, inboundQ, toClient>>
transportVars == <<tPc, alg, crypto, connected>>
newCiphers == <<ssNewCipher, srNewCipher>>
vars == <<queueVars, keyXMode, sendVars, receiveVars, transportVars, newCiphers, srv>>

None == [ic |-> 0, is |-> 0, e |-> 0]
NoKeys == [h |-> None, session |-> None, alg |-> "none"]

Init ==
    /\ mainQ = <<>> /\ channelQ = <<>> /\ made = 0 /\ data = 0
    /\ keyXMode = FALSE
    /\ ssPc = "mode" /\ bInKeyXMode = FALSE /\ outboundQ = <<>>
    /\ rawBufLeft = RawBufOut /\ waited = FALSE
    /\ ssCipher = NoKeys /\ ssNewCipher = NoKeys
    /\ srPc = "read" /\ srCipher = NoKeys /\ srNewCipher = NoKeys /\ inboundQ = <<>>
    /\ tPc = "idle" /\ connected = FALSE
    /\ alg = [kex |-> "none", c2s |-> "none", s2c |-> "none"]
    /\ crypto = [ic |-> 0, is |-> 0, e |-> 0, h |-> None, session |-> None]
    /\ toServer = <<>> /\ toClient = <<>>
    /\ srv = [phase |-> "idle", begun |-> 0, offer |-> ClientAlgs, ic |-> 0, h |-> None,
              session |-> None, rcv |-> NoKeys, snd |-> NoKeys, bad |-> {},
              data |-> 0, read |-> 0]

-----------------------------------------------------------------------------
(* What both sides compute.                                                *)

Elements(s) == {s[i] : i \in DOMAIN s}

\* The first algorithm of the client that the server has too.
Matches(client, server) == Elements(client) \cap Elements(server) # {}

FirstMatch(client, server) ==
    client[CHOOSE i \in DOMAIN client :
            /\ client[i] \in Elements(server)
            /\ \A j \in 1 .. i - 1 : client[j] \notin Elements(server)]

\* Lists without a common algorithm leave what was agreed before.
parseHostKeyExchangePacket(client, server, old) ==
    IF Matches(client, server) THEN FirstMatch(client, server) ELSE old

Agree(offer) == \A l \in Lists : Matches(ClientAlgs[l], offer[l])

KeyWith(h, session, algorithm) == [h |-> h, session |-> session, alg |-> algorithm]

\* The session is the hash of the first exchange.
SessionOf(session, h) == IF session = None THEN h ELSE session

-----------------------------------------------------------------------------
(* SocketRecieve::run, from the packet that is complete.  (A packet that   *)
(* was not made under its cipher ends the thread, see Receive.)            *)

ReadsUnder == srPc = "read" /\ toClient # <<>> /\ Head(toClient).keys = srCipher
Pass == inboundQ' = Append(inboundQ, Head(toClient)) /\ toClient' = Tail(toClient)

\* Mutant: Transport has the KEXINIT before SocketSend is told.
BeginKeyExchangeLate ==
    \/ /\ ReadsUnder /\ Head(toClient).type = "kexinit"
       /\ Pass /\ srPc' = "enqueue"
       /\ UNCHANGED <<keyXMode, srCipher>>
    \/ /\ srPc = "enqueue"
       /\ keyXMode' = TRUE /\ srPc' = "read"
       /\ UNCHANGED <<srCipher, inboundQ, toClient>>

\* KEXINIT: SocketSend is told first, then the packet goes to Transport.
beginKeyExchange ==
    \/ /\ ReadsUnder /\ Head(toClient).type = "kexinit"
       /\ keyXMode' = TRUE /\ srPc' = "enqueue"
       /\ UNCHANGED <<srCipher, inboundQ, toClient>>
    \/ /\ srPc = "enqueue"
       /\ Pass /\ srPc' = "read"
       /\ UNCHANGED <<keyXMode, srCipher>>

ReceiveKexInit ==
    /\ beginKeyExchange
    /\ UNCHANGED <<queueVars, sendVars, transportVars, newCiphers, srv>>

\* NEWKEYS: waits for the new cipher, which the next packet is made with.
endKeyExchange ==
    /\ \/ ReadsUnder /\ Head(toClient).type = "newkeys"
       \/ srPc = "endKeyExchange"
    /\ IF srNewCipher = NoKeys
       THEN srPc' = "endKeyExchange" /\ UNCHANGED <<srCipher, srNewCipher, inboundQ, toClient>>
       ELSE /\ srCipher' = srNewCipher /\ srNewCipher' = NoKeys
            /\ Pass /\ srPc' = "read"
    /\ UNCHANGED <<queueVars, keyXMode, sendVars, transportVars, ssNewCipher, srv>>

ReceiveOther ==
    /\ ReadsUnder /\ Head(toClient).type \in {"kexdh_reply", "data"}
    /\ Pass
    /\ UNCHANGED <<queueVars, keyXMode, sendVars, srPc, srCipher, transportVars,
                   newCiphers, srv>>

-----------------------------------------------------------------------------
(* Transport::processInboundData, for the packet at the head of its queue. *)

Handles(type) == inboundQ # <<>> /\ Head(inboundQ).type = type
Done == inboundQ' = Tail(inboundQ) /\ tPc' = "idle"

Packet(type) == [type |-> type, no |-> made + 1]
queueOutboundData(type) ==
    /\ mainQ' = Append(mainQ, Packet(type))
    /\ made' = made + 1
    /\ UNCHANGED <<channelQ, data>>

setI_C(c) == [c EXCEPT !.ic = made + 1]
setI_S(c) == [c EXCEPT !.is = Head(inboundQ).no]

\* The client's own KEXINIT, and the algorithms.  The result is not looked at.
negotiateEncryptions ==
    /\ tPc = "idle" /\ Handles("kexinit")
    /\ queueOutboundData("kexinit")
    /\ crypto' = setI_S(setI_C(crypto))
    /\ alg' = [l \in Lists |->
                parseHostKeyExchangePacket(ClientAlgs[l], Head(inboundQ).offer[l], alg[l])]
    /\ tPc' = "step1"
    /\ UNCHANGED <<keyXMode, sendVars, receiveVars, connected, newCiphers, srv>>

setKeyExchangeType == alg.kex # "none"
compute_E(c) == [c EXCEPT !.e = made + 1]

\* An unknown type is refused; the failure is not looked at.
doKeyExchange_step1 ==
    /\ tPc = "step1"
    /\ IF setKeyExchangeType
       THEN queueOutboundData("kexdh_init") /\ crypto' = compute_E(crypto)
       ELSE UNCHANGED <<queueVars, crypto>>
    /\ Done
    /\ UNCHANGED <<keyXMode, sendVars, srPc, srCipher, toClient, alg, connected,
                   newCiphers, srv>>

\* A host key of a type other than ssh-rsa or ssh-dss, a signature that cannot be
\* taken apart, and one that is not of this exchange and this host key.
setPublicKey == Head(inboundQ).fault # "hostkey"
setSignatureOfH == Head(inboundQ).fault # "format"

exchangeHash == [ic |-> crypto.ic, is |-> crypto.is, e |-> crypto.e]
computeSessionID ==
    crypto' = [crypto EXCEPT !.h = exchangeHash, !.session = SessionOf(@, exchangeHash)]

\* Mutant: the result of the verification is not looked at.
TrustSignature == TRUE
verifySigOfH_onTheBigHash ==
    Head(inboundQ).fault # "signature" /\ Head(inboundQ).signed = exchangeHash

\* KEXDH_REPLY: what is refused ends the handler, and nothing else; the session is
\* that of the first hash, verified or not.
doKeyExchange_step2 ==
    /\ tPc = "idle" /\ Handles("kexdh_reply")
    /\ IF setPublicKey /\ setSignatureOfH THEN computeSessionID ELSE UNCHANGED crypto
    /\ IF setPublicKey /\ setSignatureOfH /\ verifySigOfH_onTheBigHash
       THEN tPc' = "cipherSS" /\ UNCHANGED inboundQ
       ELSE Done
    /\ UNCHANGED <<queueVars, keyXMode, sendVars, srPc, srCipher, toClient, alg,
                   connected, newCiphers, srv>>

getCipher(list) == KeyWith(crypto.h, crypto.session, alg[list])

\* Mutant: the cipher is given to SocketRecieve alone.
SetCipherForgotten ==
    /\ tPc = "cipherSS"
    /\ tPc' = "cipherSR"
    /\ UNCHANGED <<queueVars, keyXMode, sendVars, receiveVars, alg, crypto, connected,
                   newCiphers, srv>>

\* The ciphers are there before NEWKEYS is queued.
SetCipherOfSend ==
    /\ tPc = "cipherSS"
    /\ ssNewCipher' = getCipher("c2s")
    /\ tPc' = "cipherSR"
    /\ UNCHANGED <<queueVars, keyXMode, sendVars, receiveVars, alg, crypto, connected,
                   srNewCipher, srv>>

SetCipherOfReceive ==
    /\ tPc = "cipherSR"
    /\ srNewCipher' = getCipher("s2c")
    /\ tPc' = "newkeys"
    /\ UNCHANGED <<queueVars, keyXMode, sendVars, receiveVars, alg, crypto, connected,
                   ssNewCipher, srv>>

QueueNewKeys ==
    /\ tPc = "newkeys"
    /\ queueOutboundData("newkeys")
    /\ Done
    /\ UNCHANGED <<keyXMode, sendVars, srPc, srCipher, toClient, alg, crypto, connected,
                   newCiphers, srv>>

\* NEWKEYS of the server: connectUp comes back with the first.
HandleNewKeys ==
    /\ tPc = "idle" /\ Handles("newkeys")
    /\ connected' = TRUE
    /\ Done
    /\ UNCHANGED <<queueVars, keyXMode, sendVars, srPc, srCipher, toClient, alg, crypto,
                   newCiphers, srv>>

HandleOther ==
    /\ tPc = "idle" /\ Handles("data")
    /\ Done
    /\ UNCHANGED <<queueVars, keyXMode, sendVars, srPc, srCipher, toClient, alg, crypto,
                   connected, newCiphers, srv>>

\* A connected user queues a request, or data of a channel.
UserQueues ==
    /\ connected /\ data < MaxData
    /\ data' = data + 1 /\ made' = made + 1
    /\ \/ mainQ' = Append(mainQ, Packet("data")) /\ UNCHANGED channelQ
       \/ channelQ' = Append(channelQ, Packet("data")) /\ UNCHANGED mainQ
    /\ UNCHANGED <<keyXMode, sendVars, receiveVars, transportVars, newCiphers, srv>>

-----------------------------------------------------------------------------
(* SocketSend::run and ChannelManager::getNextPacket.                      *)

\* The loop over the buffer begins with a look at the mode.
ReadMode ==
    /\ ssPc = "mode"
    /\ IF rawBufLeft >= MinRoom THEN bInKeyXMode' = keyXMode /\ ssPc' = "next"
       ELSE ssPc' = "send" /\ UNCHANGED bInKeyXMode
    /\ UNCHANGED <<queueVars, keyXMode, outboundQ, rawBufLeft, waited, ssCipher, toServer,
                   receiveVars, transportVars, newCiphers, srv>>

Fits(p) == PacketLen[p.type] <= rawBufLeft
\* Mutant: NEWKEYS is taken for a packet of the connection under way.
IsKexInit(p) == p.type \in {"kexinit", "kexdh_init"}
IsKex(p) == p.type \in KexTypes
RemoveIt(q, i) == SubSeq(q, 1, i - 1) \o SubSeq(q, i + 1, Len(q))

Took(p) ==
    /\ outboundQ' = Append(outboundQ, p)
    /\ rawBufLeft' = rawBufLeft - PacketLen[p.type]
    /\ keyXMode' = (keyXMode /\ ~(bInKeyXMode /\ p.type = "newkeys"))
    /\ ssPc' = "mode"
    /\ UNCHANGED <<made, data, bInKeyXMode, waited, ssCipher, toServer, receiveVars,
                   transportVars, newCiphers, srv>>

\* In an exchange: the first packet of it that fits, past those that do not.
FirstKex(i) ==
    /\ i \in DOMAIN mainQ /\ IsKex(mainQ[i]) /\ Fits(mainQ[i])
    /\ \A j \in 1 .. i - 1 : ~(IsKex(mainQ[j]) /\ Fits(mainQ[j]))
NoKexFits == ~ \E i \in DOMAIN mainQ : FirstKex(i)

\* One that does not fit, and is the last of the queue, is returned all the same.
LastDoesNotFit == NoKexFits /\ mainQ # <<>> /\ IsKex(mainQ[Len(mainQ)])

NoHeadFits ==
    /\ mainQ # <<>> => ~Fits(Head(mainQ))
    /\ channelQ # <<>> => ~Fits(Head(channelQ))

\* Out of an exchange, the head of a queue, in turn (the turn is in Outbound).
getNextPacket ==
    \/ /\ bInKeyXMode
       /\ \E i \in DOMAIN mainQ :
            /\ FirstKex(i)
            /\ mainQ' = RemoveIt(mainQ, i)
            /\ Took(mainQ[i])
       /\ UNCHANGED channelQ
    \/ /\ ~bInKeyXMode /\ mainQ # <<>> /\ Fits(Head(mainQ))
       /\ mainQ' = Tail(mainQ) /\ UNCHANGED channelQ
       /\ Took(Head(mainQ))
    \/ /\ ~bInKeyXMode /\ channelQ # <<>> /\ Fits(Head(channelQ))
       /\ channelQ' = Tail(channelQ) /\ UNCHANGED mainQ
       /\ Took(Head(channelQ))

NextPacket == ssPc = "next" /\ getNextPacket

\* A packet that does not fit was looked at last, and is returned all the same.  (The
\* head of a channel's queue may be data, which waits, or not.)
TooLarge ==
    IF bInKeyXMode THEN LastDoesNotFit
    ELSE NoHeadFits /\ (mainQ # <<>> \/ channelQ # <<>>)

\* It is packed, m_rawBufLeft wraps, and combineAndSendPackets will write past the buffer:
\* the model of the thread ends there, before the packet is put in m_pOutboundQ.
PacketOverruns ==
    /\ ssPc = "next" /\ TooLarge
    /\ ssPc' = "overrun"
    /\ UNCHANGED <<queueVars, keyXMode, bInKeyXMode, outboundQ, rawBufLeft, waited, ssCipher,
                   toServer, receiveVars, transportVars, newCiphers, srv>>

Nothing ==
    IF bInKeyXMode THEN NoKexFits /\ ~LastDoesNotFit
    ELSE NoHeadFits /\ (mainQ = <<>> \/ channelQ # <<>>)

\* Nothing to take: with one packet or none the thread waits a little, once.
NoPacket ==
    /\ ssPc = "next" /\ Nothing
    /\ IF ~waited /\ Len(outboundQ) <= 1 THEN waited' = TRUE /\ ssPc' = "mode"
       ELSE ssPc' = "send" /\ UNCHANGED waited
    /\ UNCHANGED <<queueVars, keyXMode, bInKeyXMode, outboundQ, rawBufLeft, ssCipher,
                   toServer, receiveVars, transportVars, newCiphers, srv>>

HasNewKeys == \E i \in DOMAIN outboundQ : outboundQ[i].type = "newkeys"

\* Mutant: NEWKEYS itself goes out under the new cipher.
CipherFromNewKeys(i) ==
    IF \E j \in 1 .. i : outboundQ[j].type = "newkeys" THEN ssNewCipher ELSE ssCipher

\* What follows NEWKEYS in the buffer is encrypted with the new cipher.
CipherOf(i) ==
    IF \E j \in 1 .. i - 1 : outboundQ[j].type = "newkeys" THEN ssNewCipher ELSE ssCipher

combineAndSendPackets ==
    /\ ssPc = "send"
    /\ toServer' = toServer \o [i \in DOMAIN outboundQ |->
                                    [packet |-> outboundQ[i], keys |-> CipherOf(i)]]
    /\ IF HasNewKeys THEN ssCipher' = ssNewCipher /\ ssNewCipher' = NoKeys
       ELSE UNCHANGED <<ssCipher, ssNewCipher>>
    /\ outboundQ' = <<>>
    /\ rawBufLeft' = IF outboundQ = <<>> THEN rawBufLeft ELSE RawBufOut
    /\ ssPc' = "mode"
    /\ UNCHANGED <<queueVars, keyXMode, bInKeyXMode, waited, receiveVars, transportVars,
                   srNewCipher, srv>>

-----------------------------------------------------------------------------
(* The server: it begins the exchanges, one after the other, and stops at  *)
(* lists that do not agree and at what it cannot decrypt.                  *)

Sends(p) == toClient' = Append(toClient, p)
ClientOnly == <<queueVars, keyXMode, sendVars, srPc, srCipher, inboundQ, transportVars,
                newCiphers>>

ServerBegins ==
    /\ srv.phase = "idle" /\ srv.begun < MaxExchanges
    /\ \E offer \in ServerOffers :
        /\ Sends([type |-> "kexinit", no |-> srv.begun + 1, offer |-> offer,
                  keys |-> srv.snd])
        /\ srv' = [srv EXCEPT !.phase = "kexinit", !.begun = @ + 1, !.offer = offer]
    /\ UNCHANGED ClientOnly

ServerSendsData ==
    /\ srv.phase = "idle" /\ srv.begun > 0 /\ srv.data < MaxServerData
    /\ Sends([type |-> "data", keys |-> srv.snd])
    /\ srv' = [srv EXCEPT !.data = @ + 1]
    /\ UNCHANGED ClientOnly

ServerReads(type) ==
    /\ srv.phase # "stopped" /\ srv.read < Len(toServer)
    /\ toServer[srv.read + 1].packet.type = type
    /\ toServer[srv.read + 1].keys = srv.rcv
    /\ UNCHANGED ClientOnly

Got == toServer[srv.read + 1].packet

ServerNegotiates ==
    /\ ServerReads("kexinit")
    /\ srv' = [srv EXCEPT !.read = @ + 1, !.ic = Got.no,
                !.phase = IF Agree(srv.offer) THEN @ ELSE "stopped"]
    /\ UNCHANGED toClient

\* It has had the client's KEXINIT of this exchange.
Negotiated == srv.ic # srv.h.ic

\* e before the KEXINIT, which did not fit in the buffer e went with.
ServerRefuses ==
    /\ ServerReads("kexdh_init") /\ ~Negotiated
    /\ srv' = [srv EXCEPT !.read = @ + 1, !.phase = "stopped"]
    /\ UNCHANGED toClient

\* The answer to e, which the client may have to refuse.
ServerReplies ==
    /\ ServerReads("kexdh_init") /\ Negotiated
    /\ \E fault \in {"none", "hostkey", "format", "signature"} :
        LET h == [ic |-> srv.ic, is |-> srv.begun, e |-> Got.no]
        IN  /\ Sends([type |-> "kexdh_reply", keys |-> srv.snd,
                      fault |-> fault, signed |-> h])
            /\ srv' = [srv EXCEPT !.read = @ + 1, !.phase = "reply", !.h = h,
                        !.session = SessionOf(@, h),
                        !.bad = IF fault = "none" THEN @ ELSE @ \cup {srv.begun}]

ServerKeys(list) ==
    KeyWith(srv.h, srv.session, FirstMatch(ClientAlgs[list], srv.offer[list]))

ServerNewKeys ==
    /\ srv.phase = "reply" /\ srv.snd.h # srv.h
    /\ Sends([type |-> "newkeys", keys |-> srv.snd])
    /\ srv' = [srv EXCEPT !.snd = ServerKeys("s2c"),
                !.phase = IF srv.rcv.h = srv.h THEN "idle" ELSE @]
    /\ UNCHANGED ClientOnly

ServerReadsNewKeys ==
    /\ ServerReads("newkeys")
    /\ srv' = [srv EXCEPT !.read = @ + 1, !.rcv = ServerKeys("c2s"),
                !.phase = IF srv.snd.h = srv.h THEN "idle" ELSE @]
    /\ UNCHANGED toClient

ServerReadsData ==
    /\ ServerReads("data")
    /\ srv' = [srv EXCEPT !.read = @ + 1]
    /\ UNCHANGED toClient

-----------------------------------------------------------------------------
SocketReceive == ReceiveKexInit \/ endKeyExchange \/ ReceiveOther
Transport ==
    \/ negotiateEncryptions \/ doKeyExchange_step1 \/ doKeyExchange_step2
    \/ SetCipherOfSend \/ SetCipherOfReceive \/ QueueNewKeys
    \/ HandleNewKeys \/ HandleOther
SocketSend ==
    ReadMode \/ NextPacket \/ PacketOverruns \/ NoPacket \/ combineAndSendPackets
ServerAnswers ==
    \/ ServerNegotiates \/ ServerRefuses \/ ServerReplies \/ ServerNewKeys
    \/ ServerReadsNewKeys \/ ServerReadsData

Next ==
    \/ SocketReceive \/ Transport \/ SocketSend \/ UserQueues
    \/ ServerBegins \/ ServerSendsData \/ ServerAnswers

Spec == Init /\ [][Next]_vars

\* The scheduler runs the three threads, and the server answers.
FairSpec ==
    /\ Spec
    /\ WF_vars(SocketReceive) /\ WF_vars(Transport) /\ WF_vars(SocketSend)
    /\ WF_vars(ServerAnswers)

-----------------------------------------------------------------------------
(* Properties.                                                             *)

Hashes == [ic : Nat, is : Nat, e : Nat]
Algorithms == {"none"} \cup UNION {Elements(ClientAlgs[l]) : l \in Lists}
Keys == [h : Hashes, session : Hashes, alg : Algorithms]

\* A cipher is only ever replaced by one that is there, and the handler Transport
\* is in has its packet.
TypeOK ==
    /\ {ssCipher, ssNewCipher, srCipher, srNewCipher} \subseteq Keys
    /\ rawBufLeft \in 0 .. RawBufOut
    /\ tPc # "idle" => inboundQ # <<>>
    /\ ssPc \in {"mode", "next", "send", "overrun"}
    /\ HasNewKeys => ssNewCipher # NoKeys

\* Whoever reads next holds the key the packet was made with: both sides change at
\* NEWKEYS, in the middle of a buffer of packets too, to keys of the same exchange,
\* the session of the first one and the algorithms both computed.
SameKeys ==
    /\ srPc = "read" /\ toClient # <<>> => Head(toClient).keys = srCipher
    /\ srv.phase # "stopped" /\ srv.read < Len(toServer) =>
        toServer[srv.read + 1].keys = srv.rcv

\* From the client's own KEXINIT to its NEWKEYS nothing but the exchange leaves,
\* whatever the user queues and however stale the mode is that SocketSend read.
QuietExchange ==
    \A i, k \in DOMAIN toServer :
        /\ i < k /\ toServer[i].packet.type = "kexinit"
        /\ ~IsKex(toServer[k].packet)
        => \E j \in i .. k : toServer[j].packet.type = "newkeys"

\* No cipher, in use or to be, comes from an exchange whose signature was refused,
\* and a connection is not reported before one was accepted.
SignatureAccepted ==
    /\ \A c \in {ssCipher, ssNewCipher, srCipher, srNewCipher} : c.h.is \notin srv.bad
    /\ connected => srCipher # NoKeys

\* An exchange the server begins ends with both sides on its keys, unless the
\* lists do not agree, the signature is refused or SocketSend overruns its buffer.
ExchangeEnds ==
    \A n \in 1 .. MaxExchanges :
        (srv.begun >= n) ~>
            \/ srv.phase = "stopped" \/ srv.bad # {} \/ ssPc = "overrun"
            \/ ssCipher.h.is >= n /\ srCipher.h.is >= n

\* ChannelManager.cpp:1219 "make sure we have enough room": it does not hold, in a
\* reachable state a KEXINIT overruns the buffer (checked for all packets in Outbound).
EnoughRoom == ssPc # "overrun"
=============================================================================
