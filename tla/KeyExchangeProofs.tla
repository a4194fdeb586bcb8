-------------------------- MODULE KeyExchangeProofs --------------------------
(***************************************************************************)
(* Theorems about KeyExchange, for any lists of algorithms, any offers of  *)
(* the server and any number of exchanges and packets.                     *)
(***************************************************************************)
EXTENDS KeyExchange, SelectionLemmas

-----------------------------------------------------------------------------
(* The shape of the state. *)

Offers == [Lists -> Seq(STRING)]
Faults == {"none", "hostkey", "format", "signature"}
ClientPacket == [type : KexTypes \cup {"data"}, no : Nat]
DataPacket == [type : {"data"}, no : Nat]
SentPacket == [packet : ClientPacket, keys : Keys]
ServerPacket ==
    [type : {"kexinit"}, no : Nat, offer : Offers, keys : Keys]
    \cup [type : {"kexdh_reply"}, keys : Keys, fault : Faults, signed : Hashes]
    \cup [type : {"newkeys", "data"}, keys : Keys]
Server == [phase : {"idle", "kexinit", "reply", "stopped"}, begun : Nat, offer : Offers,
           ic : Nat, h : Hashes, session : Hashes, rcv : Keys, snd : Keys,
           bad : SUBSET Nat, data : Nat, read : Nat]

QueueTypes ==
    /\ mainQ \in Seq(ClientPacket) /\ outboundQ \in Seq(ClientPacket)
    /\ channelQ \in Seq(DataPacket)
    /\ toServer \in Seq(SentPacket)
    /\ inboundQ \in Seq(ServerPacket) /\ toClient \in Seq(ServerPacket)
CipherTypes == {ssCipher, ssNewCipher, srCipher, srNewCipher} \subseteq Keys
ThreadTypes ==
    /\ made \in Nat /\ data \in Nat /\ rawBufLeft \in 0 .. RawBufOut
    /\ {keyXMode, bInKeyXMode, waited, connected} \subseteq BOOLEAN
    /\ ssPc \in {"mode", "next", "send", "overrun"}
    /\ srPc \in {"read", "enqueue", "endKeyExchange"}
    /\ tPc \in {"idle", "step1", "cipherSS", "cipherSR", "newkeys"}
    /\ alg \in [Lists -> Algorithms]
    /\ crypto \in [ic : Nat, is : Nat, e : Nat, h : Hashes, session : Hashes]
ServerTypes == srv \in Server /\ srv.read <= Len(toServer)
Types == QueueTypes /\ CipherTypes /\ ThreadTypes /\ ServerTypes

-----------------------------------------------------------------------------
(* The packets of an exchange that are under way, in their order. *)

ClientKex == {p \in ClientPacket : p.type \in KexTypes}
ServerKex == {p \in ServerPacket : p.type # "data"}

Unread == [i \in 1 .. Len(toServer) - srv.read |-> toServer[srv.read + i].packet]
Leaving == Selection(Unread, ClientKex) \o Selection(outboundQ, ClientKex)
CK == Leaving \o Selection(mainQ, ClientKex)
SK == Selection(inboundQ, ServerKex) \o Selection(toClient, ServerKex)

IsE(p) == p.type = "kexdh_init" /\ p.no = crypto.e
IsC(p) == p.type = "kexinit" /\ p.no = crypto.ic
IsK(p) == p.type = "kexinit" /\ p.no = srv.begun /\ p.offer = srv.offer
IsR(p) ==
    p.type = "kexdh_reply" /\ p.signed = srv.h /\ (p.fault = "none" <=> srv.begun \notin srv.bad)
IsN(p) == p.type = "newkeys"

NoClient == Len(CK) = 0
NoServer == Len(SK) = 0
OnlyN == Len(SK) = 1 /\ IsN(SK[1])

-----------------------------------------------------------------------------
(* Where an exchange is. *)

Resting == srv.phase = "idle" /\ tPc = "idle" /\ NoClient /\ (NoServer \/ OnlyN)

Begun ==
    /\ srv.phase = "kexinit" /\ tPc = "idle" /\ NoClient /\ srv.ic = srv.h.ic
    /\ \/ Len(SK) = 1 /\ IsK(SK[1])
       \/ Len(SK) = 2 /\ IsN(SK[1]) /\ IsK(SK[2])

\* The client's KEXINIT is read, or not yet.
KexInitRead ==
    srv.ic = crypto.ic /\ srv.ic # srv.h.ic /\ (srv.phase = "kexinit" => Agree(srv.offer))
KexInitUnread == srv.phase = "kexinit" /\ srv.ic = srv.h.ic /\ srv.ic # crypto.ic

Negotiating ==
    /\ srv.phase \in {"kexinit", "stopped"} /\ tPc = "step1"
    /\ Len(SK) = 1 /\ IsK(SK[1])
    /\ \/ Len(CK) = 1 /\ IsC(CK[1]) /\ KexInitUnread
       \/ NoClient /\ KexInitRead

\* The KEXINIT may not fit where the packet of e does, which then goes first: the server
\* stops at it.
Asked ==
    /\ srv.phase \in {"kexinit", "stopped"} /\ tPc = "idle" /\ NoServer
    /\ \/ Len(CK) = 1 /\ IsC(CK[1]) /\ (KexInitUnread \/ srv.phase = "stopped")
       \/ Len(CK) = 2 /\ IsC(CK[1]) /\ IsE(CK[2]) /\ KexInitUnread
       \/ Len(CK) = 2 /\ IsE(CK[1]) /\ IsC(CK[2]) /\ KexInitUnread
       \/ Len(CK) = 1 /\ IsE(CK[1]) /\ KexInitRead
       \/ NoClient /\ KexInitRead

Replied ==
    /\ srv.phase = "reply" /\ NoClient /\ srv.rcv.h # srv.h
    /\ tPc \in {"idle", "cipherSS", "cipherSR", "newkeys"}
    /\ tPc # "idle" => srv.bad = {}
    /\ Len(SK) = (IF srv.snd.h = srv.h THEN 2 ELSE 1)
    /\ IsR(SK[1])
    /\ srv.snd.h = srv.h => IsN(SK[2])

Refused ==
    /\ srv.phase = "reply" /\ tPc = "idle" /\ NoClient /\ srv.rcv.h # srv.h
    /\ srv.begun \in srv.bad
    /\ IF srv.snd.h = srv.h THEN OnlyN ELSE NoServer

Accepted ==
    /\ srv.phase = "reply" /\ tPc = "idle" /\ srv.bad = {}
    /\ \/ /\ Len(CK) = 1 /\ IsN(CK[1]) /\ srv.rcv.h # srv.h
          /\ NoServer \/ (OnlyN /\ srv.snd.h = srv.h)
       \/ NoClient /\ NoServer /\ srv.rcv.h = srv.h /\ srv.snd.h # srv.h

Stage == Resting \/ Begun \/ Negotiating \/ Asked \/ Replied \/ Refused \/ Accepted

-----------------------------------------------------------------------------
(* What both sides know of the exchange. *)

Numbers ==
    /\ srv.bad \subseteq {srv.begun}
    /\ srv.bad # {} => srv.phase = "reply"
    /\ srv.phase # "idle" => srv.begun > 0
    /\ srv.h.is = (IF srv.phase \in {"idle", "reply"} THEN srv.begun ELSE srv.begun - 1)
    /\ srv.phase \in {"idle", "reply"} => srv.ic = srv.h.ic

\* No KEXINIT has the number of a packet that is still to be made.
Made == srv.ic <= made /\ crypto.ic <= made

Agreed(l) == Matches(ClientAlgs[l], srv.offer[l]) => alg[l] = FirstMatch(ClientAlgs[l], srv.offer[l])

SameExchange ==
    /\ Negotiating \/ Asked => crypto.is = srv.begun /\ \A l \in Lists : Agreed(l)
    /\ srv.phase = "reply" =>
         /\ srv.h = exchangeHash /\ Agree(srv.offer)
         /\ \A l \in Lists : alg[l] = FirstMatch(ClientAlgs[l], srv.offer[l])

SameSession ==
    /\ srv.phase = "reply" => srv.session # None
    /\ srv.phase # "reply" \/ tPc # "idle" \/ Accepted => crypto.session = srv.session
    /\ crypto.session = srv.session \/ (crypto.session = None /\ srv.session = srv.h)
    /\ tPc \in {"cipherSS", "cipherSR", "newkeys"} => crypto.h = srv.h

Older ==
    /\ srv.phase # "reply" => srv.rcv.h = srv.h /\ srv.snd.h = srv.h
    /\ srv.rcv.h = srv.h \/ srv.rcv.h.is < srv.begun
    /\ srv.snd.h = srv.h \/ srv.snd.h.is < srv.begun

-----------------------------------------------------------------------------
(* Which keys are where. *)

NewUnread(last) == \E j \in srv.read + 1 .. last : toServer[j].packet.type = "newkeys"
NewQueued == HasNewKeys \/ \E i \in DOMAIN mainQ : mainQ[i].type = "newkeys"

KeysToServer ==
    /\ ssNewCipher = IF tPc \in {"cipherSR", "newkeys"} \/ NewQueued THEN ServerKeys("c2s")
                     ELSE NoKeys
    /\ ssCipher = IF NewUnread(Len(toServer)) THEN ServerKeys("c2s") ELSE srv.rcv
    /\ \A i \in srv.read + 1 .. Len(toServer) :
          toServer[i].keys = IF NewUnread(i - 1) THEN ServerKeys("c2s") ELSE srv.rcv

NewBefore(n) == \E j \in 1 .. n : toClient[j].type = "newkeys"
HasN == NewBefore(Len(toClient))
NewCame == \E i \in DOMAIN inboundQ : inboundQ[i].type = "newkeys"

\* SocketRecieve may have its new cipher.
Ready == srv.phase = "reply" => Accepted \/ tPc = "newkeys"

KeysToClient ==
    /\ srv.phase = "reply" /\ srv.snd.h = srv.h => srv.snd = ServerKeys("s2c")
    /\ srNewCipher = IF Ready /\ HasN THEN srv.snd
                     ELSE IF Ready /\ srv.snd.h # srv.h THEN ServerKeys("s2c")
                     ELSE NoKeys
    /\ HasN => srCipher.h.is < srv.snd.h.is
    /\ ~ HasN => srCipher = srv.snd
    /\ \A i \in DOMAIN toClient :
          toClient[i].keys = IF NewBefore(i - 1) THEN srv.snd ELSE srCipher
    /\ ~ Ready => ~ NewCame
    /\ connected \/ NewCame => srCipher # NoKeys

\* A thread that is inside a handler has its packet.
Handling ==
    /\ srPc = "enqueue" => toClient # <<>> /\ Head(toClient).type = "kexinit"
    /\ srPc = "endKeyExchange" => toClient # <<>> /\ Head(toClient).type = "newkeys"
    /\ tPc = "step1" => inboundQ # <<>> /\ Head(inboundQ).type = "kexinit"
    /\ tPc \in {"cipherSS", "cipherSR", "newkeys"} =>
         inboundQ # <<>> /\ Head(inboundQ).type = "kexdh_reply"

KeyInv ==
    /\ Types /\ Handling /\ Made
    /\ Stage /\ Numbers /\ SameExchange /\ SameSession /\ Older
    /\ KeysToServer /\ KeysToClient

-----------------------------------------------------------------------------
(* What the steps do to the packets under way. *)

LEMMA PipeTypes ==
    Types =>
           /\ Unread \in Seq(ClientPacket) /\ Len(Unread) = Len(toServer) - srv.read
           /\ Selection(Unread, ClientKex) \in Seq(ClientKex)
           /\ Selection(outboundQ, ClientKex) \in Seq(ClientKex)
           /\ Selection(mainQ, ClientKex) \in Seq(ClientKex)
           /\ Selection(inboundQ, ServerKex) \in Seq(ServerKex)
           /\ Selection(toClient, ServerKex) \in Seq(ServerKex)
           /\ Leaving \in Seq(ClientKex) /\ CK \in Seq(ClientKex) /\ SK \in Seq(ServerKex)
<1> SUFFICES ASSUME Types PROVE PipeTypes!2
  OBVIOUS
<1>1. srv.read \in Nat /\ srv.read <= Len(toServer) /\ toServer \in Seq(SentPacket)
  BY DEF Types, ServerTypes, Server, QueueTypes
<1>2. Unread \in Seq(ClientPacket) /\ Len(Unread) = Len(toServer) - srv.read
  <2>1. \A i \in 1 .. Len(toServer) - srv.read : toServer[srv.read + i] \in SentPacket
    BY <1>1
  <2>2. \A i \in 1 .. Len(toServer) - srv.read : toServer[srv.read + i].packet \in ClientPacket
    BY <2>1 DEF SentPacket
  <2>3. Len(toServer) - srv.read \in Nat
    BY <1>1
  <2> QED BY <2>2, <2>3 DEF Unread
<1>3. ClientPacket \cap ClientKex = ClientKex /\ ServerPacket \cap ServerKex = ServerKex
  BY DEF ClientKex, ServerKex
<1>4. mainQ \in Seq(ClientPacket) /\ outboundQ \in Seq(ClientPacket)
  BY DEF Types, QueueTypes
<1>5. inboundQ \in Seq(ServerPacket) /\ toClient \in Seq(ServerPacket)
  BY DEF Types, QueueTypes
<1>6. /\ Selection(Unread, ClientKex) \in Seq(ClientKex)
      /\ Selection(outboundQ, ClientKex) \in Seq(ClientKex)
      /\ Selection(mainQ, ClientKex) \in Seq(ClientKex)
  <2>1. \A u \in Seq(ClientPacket) : Selection(u, ClientKex) \in Seq(ClientKex)
    BY <1>3, SelectionType
  <2> QED BY <2>1, <1>2, <1>4
<1>7. /\ Selection(inboundQ, ServerKex) \in Seq(ServerKex)
      /\ Selection(toClient, ServerKex) \in Seq(ServerKex)
  <2>1. \A u \in Seq(ServerPacket) : Selection(u, ServerKex) \in Seq(ServerKex)
    BY <1>3, SelectionType
  <2> QED BY <2>1, <1>5
<1> QED BY <1>2, <1>6, <1>7 DEF Leaving, CK, SK

LEMMA ClientKept ==
    ASSUME UNCHANGED <<mainQ, outboundQ, toServer>>, srv'.read = srv.read
    PROVE  CK' = CK /\ Unread' = Unread
  BY DEF CK, Leaving, Unread

LEMMA ServerKept ==
    ASSUME UNCHANGED <<inboundQ, toClient>>
    PROVE  SK' = SK
  BY DEF SK

LEMMA ConcatAppend ==
    ASSUME NEW X, NEW a \in Seq(X), NEW b \in Seq(X), NEW x \in X
    PROVE  a \o Append(b, x) = Append(a \o b, x)
  OBVIOUS

LEMMA ConcatMove ==
    ASSUME NEW X, NEW a \in Seq(X), NEW b \in Seq(X), NEW x \in X
    PROVE  Append(a, x) \o b = a \o (<<x>> \o b)
<1> DEFINE u == Append(a, x)  v == <<x>> \o b
<1>1. /\ u \in Seq(X) /\ Len(u) = Len(a) + 1 /\ u[Len(a) + 1] = x
      /\ \A i \in 1 .. Len(a) : u[i] = a[i]
  OBVIOUS
<1>2. v \in Seq(X) /\ Len(v) = 1 + Len(b) /\ v[1] = x /\ \A j \in 1 .. Len(b) : v[1 + j] = b[j]
  OBVIOUS
<1> HIDE DEF u, v
<1> DEFINE w == u \o b
<1>3. /\ w \in Seq(X) /\ Len(w) = Len(u) + Len(b)
      /\ \A j \in 1 .. Len(u) : w[j] = u[j]
      /\ \A j \in 1 .. Len(b) : w[Len(u) + j] = b[j]
  BY <1>1, SMTT(20)
<1> HIDE DEF w
<1>4. Len(w) = Len(a) + 1 + Len(b) /\ w[Len(a) + 1] = x
  BY <1>1, <1>3
<1>5. \A j \in 1 .. Len(a) : w[j] = a[j]
  BY <1>1, <1>3
<1>6. \A j \in 1 .. Len(b) : w[Len(a) + 1 + j] = b[j]
  BY <1>1, <1>3
<1>7. w = a \o (<<x>> \o b)
  BY <1>3, <1>4, <1>5, <1>6, ConcatThree
<1> QED BY <1>7 DEF w, u

LEMMA Queued ==
    ASSUME Types, NEW p \in ClientPacket, mainQ' = Append(mainQ, p),
           UNCHANGED <<outboundQ, toServer>>, srv'.read = srv.read
    PROVE  CK' = IF p \in ClientKex THEN Append(CK, p) ELSE CK
<1>1. Leaving' = Leaving
  BY DEF Leaving, Unread
<1>2. mainQ \in Seq(ClientPacket)
  BY DEF Types, QueueTypes
<1>3. Selection(Append(mainQ, p), ClientKex) =
        IF p \in ClientKex THEN Append(Selection(mainQ, ClientKex), p)
        ELSE Selection(mainQ, ClientKex)
  BY <1>2, SelectionAppend
<1> DEFINE a == Leaving  b == Selection(mainQ, ClientKex)
<1>4. a \in Seq(ClientKex) /\ b \in Seq(ClientKex)
  BY PipeTypes
<1> HIDE DEF a, b
<1>5. p \in ClientKex => a \o Append(b, p) = Append(a \o b, p)
  BY <1>4, ConcatAppend
<1>6. CK' = a \o Selection(mainQ', ClientKex)
  BY <1>1 DEF CK, a
<1> QED BY <1>3, <1>5, <1>6 DEF CK, a, b

LEMMA SplitAt ==
    ASSUME NEW X, NEW s \in Seq(X), NEW i \in 1 .. Len(s)
    PROVE  /\ SubSeq(s, 1, i - 1) \in Seq(X) /\ SubSeq(s, i + 1, Len(s)) \in Seq(X)
           /\ s = SubSeq(s, 1, i - 1) \o (<<s[i]>> \o SubSeq(s, i + 1, Len(s)))
           /\ Len(SubSeq(s, 1, i - 1)) = i - 1
           /\ \A j \in 1 .. i - 1 : SubSeq(s, 1, i - 1)[j] = s[j]
<1> DEFINE a == SubSeq(s, 1, i - 1)  c == SubSeq(s, i + 1, Len(s))  x == s[i]
<1>1. a \in Seq(X) /\ c \in Seq(X) /\ x \in X
  OBVIOUS
<1>2. Len(s) \in Nat /\ Len(a) = i - 1 /\ Len(c) = Len(s) - i
  OBVIOUS
<1>3. \A j \in 1 .. i - 1 : a[j] = s[j]
  OBVIOUS
<1>4. \A j \in 1 .. Len(c) : s[i + j] = c[j]
  OBVIOUS
<1> HIDE DEF a, c
<1>5. Len(a) + 1 = i /\ Len(s) = Len(a) + 1 + Len(c) /\ s[Len(a) + 1] = x
  BY <1>2
<1> HIDE DEF x
<1>6. \A j \in 1 .. Len(a) : s[j] = a[j]
  BY <1>2, <1>3
<1>7. \A j \in 1 .. Len(c) : s[Len(a) + 1 + j] = c[j]
  BY <1>4, <1>5
<1>8. s = a \o (<<x>> \o c)
  BY ONLY s \in Seq(X), <1>1, <1>5, <1>6, <1>7, ConcatThree, Zenon
<1> QED BY <1>1, <1>2, <1>3, <1>8 DEF a, c, x

\* The first packet of the exchange goes from the queue into the buffer.
LEMMA TookKex ==
    ASSUME Types, NEW i \in DOMAIN mainQ, mainQ[i] \in ClientKex,
           \A j \in 1 .. i - 1 : mainQ[j] \notin ClientKex,
           mainQ' = RemoveIt(mainQ, i), outboundQ' = Append(outboundQ, mainQ[i]),
           UNCHANGED toServer, srv'.read = srv.read
    PROVE  CK' = CK
<1> DEFINE S == ClientKex  a == Selection(Unread, S)  b == Selection(outboundQ, S)
           c == Selection(mainQ', S)  x == mainQ[i]
<1>1. mainQ \in Seq(ClientPacket) /\ outboundQ \in Seq(ClientPacket) /\ i \in 1 .. Len(mainQ)
  BY DEF Types, QueueTypes
<1>2. mainQ' \in Seq(ClientPacket)
  BY <1>1 DEF RemoveIt
<1>3. a \in Seq(S) /\ b \in Seq(S) /\ c \in Seq(S) /\ x \in S
  <2>1. \A u \in Seq(ClientPacket) : Selection(u, S) \in Seq(ClientPacket \cap S)
    BY SelectionType
  <2>2. ClientPacket \cap S = S
    BY DEF ClientKex
  <2> QED BY <2>1, <2>2, <1>2, PipeTypes
<1>4. Selection(mainQ, S) = <<x>> \o c
  BY <1>1, SelectionTaken DEF RemoveIt
<1>5. Selection(outboundQ', S) = Append(b, x)
  <2>1. x \in ClientPacket
    BY <1>1
  <2>2. Selection(Append(outboundQ, x), S) = IF x \in S THEN Append(Selection(outboundQ, S), x)
                                             ELSE Selection(outboundQ, S)
    BY <1>1, <2>1, SelectionAppend
  <2> QED BY <2>2, <1>3
<1>6. Unread' = Unread
  BY DEF Unread
<1>7. CK = (a \o b) \o (<<x>> \o c)
  BY <1>4 DEF CK, Leaving
<1>8. CK' = (a \o Append(b, x)) \o c
  BY <1>5, <1>6 DEF CK, Leaving
<1> HIDE DEF a, b, c, x, S
<1>9. a \o Append(b, x) = Append(a \o b, x) /\ a \o b \in Seq(S)
  BY <1>3, ConcatAppend
<1> DEFINE d == a \o b
<1> HIDE DEF d
<1>10. Append(d, x) \o c = d \o (<<x>> \o c)
  BY <1>3, <1>9, ConcatMove, SMTT(20) DEF d
<1> QED BY <1>7, <1>8, <1>9, <1>10 DEF d

\* A packet of the exchange goes past another one that does not fit.
Swapped == Len(CK) = 2 /\ CK' = <<CK[2], CK[1]>>

LEMMA TookSecond ==
    ASSUME Types, Len(CK) <= 2, NEW i \in DOMAIN mainQ, mainQ[i] \in ClientKex,
           NEW k \in 1 .. i - 1, mainQ[k] \in ClientKex,
           mainQ' = RemoveIt(mainQ, i), outboundQ' = Append(outboundQ, mainQ[i]),
           UNCHANGED toServer, srv'.read = srv.read
    PROVE  Swapped
<1> DEFINE S == ClientKex  X == ClientPacket  x == mainQ[i]
           p == SubSeq(mainQ, 1, i - 1)  t == SubSeq(mainQ, i + 1, Len(mainQ))
           a == Selection(Unread, S)  b == Selection(outboundQ, S)
           d == Selection(p, S)  e == Selection(t, S)
<1>1. mainQ \in Seq(X) /\ outboundQ \in Seq(X) /\ i \in 1 .. Len(mainQ) /\ x \in X /\ x \in S
  BY DEF Types, QueueTypes
<1>2. p \in Seq(X) /\ t \in Seq(X) /\ mainQ = p \o (<<x>> \o t) /\ Len(p) = i - 1 /\ p[k] = mainQ[k]
  BY <1>1, SplitAt
<1>3. mainQ' = p \o t
  BY DEF RemoveIt
<1>4. a \in Seq(S) /\ b \in Seq(S) /\ d \in Seq(S) /\ e \in Seq(S)
  <2>1. \A u \in Seq(X) : Selection(u, S) \in Seq(X \cap S)
    BY SelectionType
  <2>2. X \cap S = S
    BY DEF ClientKex
  <2> QED BY <1>2, <2>1, <2>2, PipeTypes
<1>5. Selection(outboundQ', S) = Append(b, x)
  <2>1. Selection(Append(outboundQ, x), S) = IF x \in S THEN Append(Selection(outboundQ, S), x)
                                             ELSE Selection(outboundQ, S)
    BY <1>1, SelectionAppend
  <2> QED BY <1>1, <2>1
<1>6. Selection(mainQ', S) = d \o e
  <2>1. \A u, v \in Seq(X) : Selection(u \o v, S) = Selection(u, S) \o Selection(v, S)
    BY SelectionConcat
  <2> HIDE DEF p, t, S
  <2> QED BY <1>2, <1>3, <2>1
<1>7. Selection(mainQ, S) = d \o (<<x>> \o e)
  <2>1. \A u, v \in Seq(X) : Selection(u \o v, S) = Selection(u, S) \o Selection(v, S)
    BY SelectionConcat
  <2>2. <<x>> \in Seq(X) /\ Selection(<<x>>, S) = <<x>>
    BY <1>1, SelectionOne
  <2>3. <<x>> \o t \in Seq(X)
    BY <1>2, <2>2
  <2> HIDE DEF x, p, t, S
  <2>4. Selection(p \o (<<x>> \o t), S) = d \o Selection(<<x>> \o t, S)
    BY <1>2, <2>1, <2>3
  <2>5. Selection(<<x>> \o t, S) = <<x>> \o e
    BY <1>2, <2>1, <2>2
  <2> QED BY <1>2, <2>4, <2>5
<1>8. d # <<>>
  <2>1. Holds(p, mainQ[k]) /\ mainQ[k] \in S
    BY <1>1, <1>2 DEF Holds
  <2>2. Holds(d, mainQ[k])
    BY <1>2, <2>1, SelectionHolds
  <2> QED BY <2>2 DEF Holds
<1>9. Unread' = Unread
  BY DEF Unread
<1>10. CK = (a \o b) \o (d \o (<<x>> \o e)) /\ CK' = (a \o Append(b, x)) \o (d \o e)
  BY <1>5, <1>6, <1>7, <1>9 DEF CK, Leaving
<1> HIDE DEF a, b, d, e, x, S
<1>11. a = <<>> /\ b = <<>> /\ e = <<>> /\ Len(d) = 1
  <2>1. /\ Len(a) \in Nat /\ Len(b) \in Nat /\ Len(d) \in Nat \ {0} /\ Len(e) \in Nat
    BY <1>4, <1>8
  <2>2. Len((a \o b) \o (d \o (<<x>> \o e))) = Len(a) + Len(b) + Len(d) + 1 + Len(e)
    BY <1>1, <1>4
  <2>3. \A k1, k2, k3, k4 \in Nat : k3 # 0 /\ k1 + k2 + k3 + 1 + k4 <= 2 =>
             k1 = 0 /\ k2 = 0 /\ k4 = 0 /\ k3 = 1
    OBVIOUS
  <2>4. Len(a) + Len(b) + Len(d) + 1 + Len(e) <= 2
    BY <1>10, <2>2
  <2>5. Len(a) = 0 /\ Len(b) = 0 /\ Len(e) = 0 /\ Len(d) = 1
    BY ONLY <2>1, <2>3, <2>4
  <2>6. \A u \in Seq(S) : Len(u) = 0 => u = <<>>
    OBVIOUS
  <2> QED BY <1>4, <2>5, <2>6
<1>12. PICK y \in S : d = <<y>>
  <2>1. ASSUME NEW u \in Seq(S), Len(u) = 1 PROVE u[1] \in S /\ u = <<u[1]>>
    <3>0. PICK f \in S : f = u[1]
      <4>1. 1 \in 1 .. Len(u)
        BY <2>1
      <4> QED BY <4>1
    <3> DEFINE v == <<f>>
    <3>1. u[1] \in S /\ v \in Seq(S) /\ Len(v) = 1 /\ v[1] = u[1]
      BY <3>0
    <3> HIDE DEF v
    <3>2. \A l \in 1 .. Len(u) : u[l] = v[l]
      BY <2>1, <3>1
    <3>3. u = v
      BY <2>1, <3>1, <3>2, SeqEqual
    <3> QED BY <3>0, <3>1, <3>3 DEF v
  <2>2. d[1] \in S /\ d = <<d[1]>>
    BY ONLY <1>4, <1>11, <2>1, Zenon
  <2> QED BY <2>2
<1>13. (<<>> \o <<>>) \o (<<y>> \o (<<x>> \o <<>>)) = <<y, x>>
       /\ (<<>> \o Append(<<>>, x)) \o (<<y>> \o <<>>) = <<x, y>>
  <2>1. \A u \in Seq(S) : u \o <<>> = u /\ <<>> \o u = u
    OBVIOUS
  <2>2. Append(<<>>, x) = <<x>>
    OBVIOUS
  <2>3. <<x>> \o <<>> = <<x>> /\ <<y>> \o <<>> = <<y>> /\ <<>> \o <<>> = <<>> /\ <<>> \o <<x>> = <<x>>
    <3>1. <<x>> \in Seq(S) /\ <<y>> \in Seq(S) /\ <<>> \in Seq(S)
      BY <1>1
    <3> QED BY <3>1, <2>1
  <2>4. <<y>> \o <<x>> = <<y, x>> /\ <<x>> \o <<y>> = <<x, y>>
    <3>1. ASSUME NEW u \in S, NEW v \in S PROVE <<u>> \o <<v>> = <<u, v>>
      <4> DEFINE c == <<u>> \o <<v>>  d2 == <<u, v>>
      <4>1. c \in Seq(S) /\ Len(c) = 2 /\ c[1] = u /\ c[2] = v
        OBVIOUS
      <4>2. d2 \in Seq(S) /\ Len(d2) = 2 /\ d2[1] = u /\ d2[2] = v
        OBVIOUS
      <4> HIDE DEF c, d2
      <4>3. \A l \in 1 .. Len(c) : c[l] = d2[l]
        BY <4>1, <4>2
      <4>4. c = d2
        BY <4>1, <4>2, <4>3, SeqEqual
      <4> QED BY <4>4 DEF c, d2
    <3> QED BY <1>1, <3>1
  <2>5. <<>> \o <<y, x>> = <<y, x>>
    <3>1. <<y, x>> \in Seq(S)
      BY <1>1
    <3> QED BY <3>1, <2>1
  <2> QED BY <2>2, <2>3, <2>4, <2>5
<1>14. CK = <<y, x>> /\ CK' = <<x, y>>
  BY <1>10, <1>11, <1>12, <1>13
<1> QED BY <1>14 DEF Swapped

\* Another packet goes from the front of a queue.
LEMMA TookData ==
    ASSUME Types, NEW p \in ClientPacket, p \notin ClientKex,
           Selection(mainQ', ClientKex) = Selection(mainQ, ClientKex),
           outboundQ' = Append(outboundQ, p), UNCHANGED toServer, srv'.read = srv.read
    PROVE  CK' = CK
<1>1. Selection(outboundQ', ClientKex) = Selection(outboundQ, ClientKex)
  <2>1. outboundQ \in Seq(ClientPacket)
    BY DEF Types, QueueTypes
  <2> QED BY <2>1, SelectionAppend
<1> QED BY <1>1 DEF CK, Leaving, Unread

\* The buffer goes out.
LEMMA Combined ==
    ASSUME Types, combineAndSendPackets
    PROVE  CK' = CK /\ Unread' = Unread \o outboundQ
<1>1. outboundQ \in Seq(ClientPacket) /\ toServer \in Seq(SentPacket) /\ outboundQ' = <<>>
      /\ UNCHANGED <<mainQ, srv>> /\ srv.read \in Nat /\ srv.read <= Len(toServer)
  BY DEF Types, QueueTypes, ServerTypes, Server, combineAndSendPackets, queueVars
<1> DEFINE sent == [i \in DOMAIN outboundQ |-> [packet |-> outboundQ[i], keys |-> CipherOf(i)]]
<1>2. toServer' = toServer \o sent
  BY DEF combineAndSendPackets
<1>3. DOMAIN sent = 1 .. Len(outboundQ) /\ \A i \in 1 .. Len(outboundQ) : sent[i].packet = outboundQ[i]
  BY <1>1
<1>4. sent \in Seq(SentPacket) /\ Len(sent) = Len(outboundQ)
  <2>1. \A i \in DOMAIN outboundQ : CipherOf(i) \in Keys /\ outboundQ[i] \in ClientPacket
    BY <1>1 DEF Types, CipherTypes, CipherOf
  <2>2. \A i \in DOMAIN outboundQ : sent[i] \in SentPacket
    BY <2>1 DEF SentPacket
  <2> QED BY <1>1, <2>2
<1> HIDE DEF sent
<1>5. /\ Len(toServer') = Len(toServer) + Len(outboundQ)
      /\ \A i \in 1 .. Len(toServer) : toServer'[i] = toServer[i]
      /\ \A i \in 1 .. Len(outboundQ) : toServer'[Len(toServer) + i].packet = outboundQ[i]
  BY <1>1, <1>2, <1>3, <1>4
<1>6. Unread' = Unread \o outboundQ
  <2> DEFINE n == Len(toServer) - srv.read
  <2>1. n \in Nat /\ Len(toServer') - srv'.read = n + Len(outboundQ)
    BY <1>1, <1>5
  <2>2. Unread \in Seq(ClientPacket) /\ Len(Unread) = n /\ \A i \in 1 .. n : Unread[i] = toServer[srv.read + i].packet
    BY PipeTypes DEF Unread
  <2>3. DOMAIN Unread' = 1 .. n + Len(outboundQ)
        /\ \A i \in 1 .. n + Len(outboundQ) : Unread'[i] = toServer'[srv.read + i].packet
    BY <2>1, <1>1 DEF Unread
  <2> HIDE DEF n
  <2> DEFINE t == Unread \o outboundQ
  <2>4. t \in Seq(ClientPacket) /\ Len(t) = n + Len(outboundQ)
        /\ (\A i \in 1 .. n : t[i] = Unread[i]) /\ \A i \in 1 .. Len(outboundQ) : t[n + i] = outboundQ[i]
    <3>1. \A u, v \in Seq(ClientPacket) :
             /\ u \o v \in Seq(ClientPacket) /\ Len(u \o v) = Len(u) + Len(v)
             /\ \A i \in 1 .. Len(u) : (u \o v)[i] = u[i]
             /\ \A i \in 1 .. Len(v) : (u \o v)[Len(u) + i] = v[i]
      OBVIOUS
    <3> HIDE DEF Unread
    <3> QED BY ONLY <2>2, <1>1, <3>1, Zenon DEF t
  <2> HIDE DEF t
  <2>5. ASSUME NEW i \in 1 .. n + Len(outboundQ) PROVE Unread'[i] = t[i]
    <3>1. CASE i \in 1 .. n
      <4>1. srv.read + i \in 1 .. Len(toServer)
        BY <3>1, <1>1 DEF n
      <4> QED BY <3>1, <4>1, <2>2, <2>3, <2>4, <1>5, SMTT(20)
    <3>2. CASE i \notin 1 .. n
      <4>1. PICK k \in 1 .. Len(outboundQ) : i = n + k
        <5>1. i - n \in 1 .. Len(outboundQ) /\ i = n + (i - n)
          BY <3>2, <2>1, <1>1
        <5> QED BY <5>1
      <4>2. srv.read + i = Len(toServer) + k
        BY <4>1, <1>1 DEF n
      <4> QED BY <4>1, <4>2, <2>3, <2>4, <1>5
    <3> QED BY <3>1, <3>2
  <2>6. Unread' = t
    <3>1. DOMAIN t = 1 .. n + Len(outboundQ) /\ t = [i \in 1 .. n + Len(outboundQ) |-> t[i]]
      BY <2>4
    <3>2. Unread' = [i \in 1 .. n + Len(outboundQ) |-> toServer'[srv'.read + i].packet]
      BY <2>1, <1>1 DEF Unread
    <3>3. \A i \in 1 .. n + Len(outboundQ) : toServer'[srv'.read + i].packet = t[i]
      BY <2>5, <2>3, <1>1
    <3> QED BY <3>1, <3>2, <3>3
  <2> QED BY <2>6 DEF t
<1>7. Selection(Unread', ClientKex) = Leaving
  BY <1>1, <1>6, PipeTypes, SelectionConcat, SMTT(20) DEF Leaving
<1>8. Selection(outboundQ', ClientKex) = <<>>
  BY <1>1, SelectionEmpty
<1>9. Leaving' = Leaving
  <2>1. Leaving \in Seq(ClientKex)
    BY PipeTypes
  <2>2. Leaving' = Selection(Unread', ClientKex) \o Selection(outboundQ', ClientKex)
    BY DEF Leaving
  <2>3. Leaving \o <<>> = Leaving
    BY <2>1
  <2> QED BY <2>2, <2>3, <1>7, <1>8
<1> QED BY <1>1, <1>6, <1>9 DEF CK


LEMMA PipeTypesNext ==
    Types' => CK' \in Seq(ClientKex) /\ SK' \in Seq(ServerKex)
<1>1. (Types => CK \in Seq(ClientKex))'
  <2>1. Types => CK \in Seq(ClientKex)
    BY PipeTypes
  <2> QED BY <2>1, PTL
<1>2. (Types => SK \in Seq(ServerKex))'
  <2>1. Types => SK \in Seq(ServerKex)
    BY PipeTypes
  <2> QED BY <2>1, PTL
<1> QED BY <1>1, <1>2

-----------------------------------------------------------------------------
(* Where there is a NEWKEYS. *)

New(q) == \E i \in DOMAIN q : q[i].type = "newkeys"

LEMMA NewAppend ==
    ASSUME NEW X, NEW s \in Seq(X), NEW x
    PROVE  New(Append(s, x)) <=> New(s) \/ x.type = "newkeys"
<1>1. /\ DOMAIN Append(s, x) = 1 .. Len(s) + 1 /\ DOMAIN s = 1 .. Len(s) /\ Len(s) \in Nat
      /\ Append(s, x)[Len(s) + 1] = x /\ \A i \in 1 .. Len(s) : Append(s, x)[i] = s[i]
  OBVIOUS
<1>2. New(Append(s, x)) => New(s) \/ x.type = "newkeys"
  BY <1>1 DEF New
<1>3. New(s) => New(Append(s, x))
  BY <1>1 DEF New
<1>4. x.type = "newkeys" => New(Append(s, x))
  BY <1>1 DEF New
<1> QED BY <1>2, <1>3, <1>4

LEMMA NewTail ==
    ASSUME NEW X, NEW s \in Seq(X), s # <<>>
    PROVE  New(s) <=> Head(s).type = "newkeys" \/ New(Tail(s))
<1>1. /\ DOMAIN s = 1 .. Len(s) /\ Len(s) \in Nat \ {0} /\ DOMAIN Tail(s) = 1 .. Len(s) - 1
      /\ Head(s) = s[1] /\ \A i \in 1 .. Len(s) - 1 : Tail(s)[i] = s[i + 1]
  OBVIOUS
<1>2. ASSUME New(s), Head(s).type # "newkeys" PROVE New(Tail(s))
  <2>1. PICK i \in 1 .. Len(s) : s[i].type = "newkeys"
    BY <1>1, <1>2 DEF New
  <2>2. i - 1 \in 1 .. Len(s) - 1 /\ (i - 1) + 1 = i
    BY <1>1, <1>2, <2>1
  <2> QED BY <1>1, <2>1, <2>2 DEF New
<1>3. Head(s).type = "newkeys" => New(s)
  BY <1>1 DEF New
<1>4. New(Tail(s)) => New(s)
  <2>1. \A i \in 1 .. Len(s) - 1 : i + 1 \in 1 .. Len(s)
    BY <1>1
  <2> QED BY <1>1, <2>1 DEF New
<1> QED BY <1>2, <1>3, <1>4

LEMMA NewConcat ==
    ASSUME NEW X, NEW s \in Seq(X), NEW t \in Seq(X)
    PROVE  New(s \o t) <=> New(s) \/ New(t)
<1>1. /\ DOMAIN (s \o t) = 1 .. Len(s) + Len(t) /\ DOMAIN s = 1 .. Len(s)
      /\ DOMAIN t = 1 .. Len(t) /\ Len(s) \in Nat /\ Len(t) \in Nat
      /\ \A i \in 1 .. Len(s) : (s \o t)[i] = s[i]
      /\ \A i \in 1 .. Len(t) : (s \o t)[Len(s) + i] = t[i]
  OBVIOUS
<1>2. ASSUME New(s \o t), ~ New(s) PROVE New(t)
  <2>1. PICK i \in 1 .. Len(s) + Len(t) : (s \o t)[i].type = "newkeys"
    BY <1>1, <1>2 DEF New
  <2>2. i \notin 1 .. Len(s)
    BY <1>1, <1>2, <2>1 DEF New
  <2>3. i - Len(s) \in 1 .. Len(t) /\ Len(s) + (i - Len(s)) = i
    BY <1>1, <2>1, <2>2
  <2> QED BY <1>1, <2>1, <2>3 DEF New
<1>3. New(s) => New(s \o t)
  BY <1>1 DEF New
<1>4. New(t) => New(s \o t)
  <2>1. \A i \in 1 .. Len(t) : Len(s) + i \in 1 .. Len(s) + Len(t)
    BY <1>1
  <2> QED BY <1>1, <2>1 DEF New
<1> QED BY <1>2, <1>3, <1>4

LEMMA NewSelected ==
    ASSUME NEW X, NEW s \in Seq(X), NEW S, \A x \in X : x.type = "newkeys" => x \in S
    PROVE  New(Selection(s, S)) <=> New(s)
<1> DEFINE t == Selection(s, S)
<1>1. t \in Seq(X \cap S) /\ DOMAIN s = 1 .. Len(s) /\ \A i \in 1 .. Len(s) : s[i] \in X
  BY SelectionType
<1>2. \A y : Holds(t, y) <=> Holds(s, y) /\ y \in S
  BY SelectionHolds
<1> HIDE DEF t
<1>3. DOMAIN t = 1 .. Len(t)
  BY <1>1
<1>4. New(t) => New(s)
  BY <1>1, <1>2, <1>3 DEF New, Holds
<1>5. ASSUME New(s) PROVE New(t)
  <2>1. PICK i \in 1 .. Len(s) : s[i].type = "newkeys"
    BY <1>1, <1>5 DEF New
  <2>2. Holds(t, s[i])
    BY <1>1, <1>2, <2>1 DEF Holds
  <2> QED BY <2>1, <2>2, <1>3 DEF New, Holds
<1> QED BY <1>4, <1>5 DEF t

LEMMA NewInUnread ==
    Types => (New(Unread) <=> NewUnread(Len(toServer)))
<1> SUFFICES ASSUME Types PROVE New(Unread) <=> NewUnread(Len(toServer))
  OBVIOUS
<1> DEFINE r == srv.read  L == Len(toServer)
<1>1. r \in Nat /\ L \in Nat /\ r <= L
  BY DEF Types, ServerTypes, Server, QueueTypes
<1>2. DOMAIN Unread = 1 .. L - r /\ \A i \in 1 .. L - r : Unread[i] = toServer[r + i].packet
  BY <1>1 DEF Unread
<1>3. NewUnread(L) <=> \E j \in r + 1 .. L : toServer[j].packet.type = "newkeys"
  BY DEF NewUnread
<1> HIDE DEF r, L
<1>4. ASSUME New(Unread) PROVE NewUnread(L)
  <2>1. PICK i \in 1 .. L - r : Unread[i].type = "newkeys"
    BY <1>2, <1>4 DEF New
  <2>2. r + i \in r + 1 .. L
    BY <1>1, <2>1
  <2> QED BY <1>2, <1>3, <2>1, <2>2
<1>5. ASSUME NewUnread(L) PROVE New(Unread)
  <2>1. PICK j \in r + 1 .. L : toServer[j].packet.type = "newkeys"
    BY <1>3, <1>5
  <2>2. j - r \in 1 .. L - r /\ r + (j - r) = j
    BY <1>1, <2>1
  <2>3. Unread[j - r].type = "newkeys"
    BY <1>2, <2>1, <2>2
  <2> QED BY <1>2, <2>2, <2>3 DEF New
<1> QED BY <1>4, <1>5 DEF L

LEMMA NewInCK ==
    Types => (New(CK) <=> NewUnread(Len(toServer)) \/ NewQueued)
<1> SUFFICES ASSUME Types PROVE New(CK) <=> NewUnread(Len(toServer)) \/ NewQueued
  OBVIOUS
<1>1. Unread \in Seq(ClientPacket) /\ outboundQ \in Seq(ClientPacket) /\ mainQ \in Seq(ClientPacket)
  BY PipeTypes DEF Types, QueueTypes
<1>2. \A x \in ClientPacket : x.type = "newkeys" => x \in ClientKex
  BY DEF ClientKex, KexTypes
<1>3. \A q \in Seq(ClientPacket) : New(Selection(q, ClientKex)) <=> New(q)
  BY <1>2, NewSelected
<1>4. /\ Selection(Unread, ClientKex) \in Seq(ClientKex)
      /\ Selection(outboundQ, ClientKex) \in Seq(ClientKex)
      /\ Selection(mainQ, ClientKex) \in Seq(ClientKex) /\ Leaving \in Seq(ClientKex)
  BY PipeTypes
<1>5. New(CK) <=> New(Leaving) \/ New(Selection(mainQ, ClientKex))
  BY <1>4, NewConcat DEF CK
<1>6. New(Leaving) <=> New(Selection(Unread, ClientKex)) \/ New(Selection(outboundQ, ClientKex))
  BY <1>4, NewConcat DEF Leaving
<1>7. New(CK) <=> New(Unread) \/ New(outboundQ) \/ New(mainQ)
  BY <1>1, <1>3, <1>5, <1>6
<1>8. NewQueued <=> New(outboundQ) \/ New(mainQ)
  BY DEF NewQueued, HasNewKeys, New
<1> QED BY <1>7, <1>8, NewInUnread

LEMMA NewInSK ==
    Types => (New(SK) <=> HasN \/ NewCame)
<1> SUFFICES ASSUME Types PROVE New(SK) <=> HasN \/ NewCame
  OBVIOUS
<1>1. inboundQ \in Seq(ServerPacket) /\ toClient \in Seq(ServerPacket)
  BY DEF Types, QueueTypes
<1>2. \A x \in ServerPacket : x.type = "newkeys" => x \in ServerKex
  BY DEF ServerKex
<1>3. \A q \in Seq(ServerPacket) : New(Selection(q, ServerKex)) <=> New(q)
  BY <1>2, NewSelected
<1>4. Selection(inboundQ, ServerKex) \in Seq(ServerKex) /\ Selection(toClient, ServerKex) \in Seq(ServerKex)
  BY PipeTypes
<1>5. New(SK) <=> New(Selection(inboundQ, ServerKex)) \/ New(Selection(toClient, ServerKex))
  BY <1>4, NewConcat DEF SK
<1>6. New(SK) <=> New(inboundQ) \/ New(toClient)
  BY <1>1, <1>3, <1>5
<1>7. HasN <=> New(toClient)
  BY <1>1 DEF HasN, NewBefore, New
<1>8. NewCame <=> New(inboundQ)
  BY DEF NewCame, New
<1> QED BY <1>6, <1>7, <1>8

\* The server reads a packet.
LEMMA ServerRead ==
    ASSUME Types, srv.read < Len(toServer), srv'.read = srv.read + 1,
           UNCHANGED <<mainQ, outboundQ, toServer>>
    PROVE  /\ Got \in ClientPacket
           /\ Got \in ClientKex => CK = <<Got>> \o CK'
           /\ Got \notin ClientKex => CK' = CK
<1> DEFINE r == srv.read  L == Len(toServer)
<1>1. r \in Nat /\ L \in Nat /\ r < L /\ toServer \in Seq(SentPacket)
  BY DEF Types, ServerTypes, Server, QueueTypes
<1>2. Unread \in Seq(ClientPacket) /\ Len(Unread) = L - r
      /\ Unread = [i \in 1 .. L - r |-> toServer[r + i].packet]
  BY PipeTypes DEF Unread
<1>3. Unread' = [i \in 1 .. L - (r + 1) |-> toServer[(r + 1) + i].packet]
  BY DEF Unread
<1>4. Got = toServer[r + 1].packet
  BY DEF Got
<1> HIDE DEF r, L
<1>5. Unread # <<>> /\ Head(Unread) = Got /\ Got \in ClientPacket
  BY <1>1, <1>2, <1>4
<1>6. Unread' = Tail(Unread)
  <2> DEFINE u == Unread
  <2>1. u \in Seq(ClientPacket) /\ Len(u) = L - r /\ Len(u) # 0
    BY <1>1, <1>2
  <2>2. \A i \in 1 .. L - (r + 1) : u[i + 1] = toServer[(r + 1) + i].packet
    <3>1. \A i \in 1 .. L - (r + 1) : i + 1 \in 1 .. L - r /\ r + (i + 1) = (r + 1) + i
      BY <1>1
    <3> QED BY <1>2, <3>1
  <2> HIDE DEF u
  <2>3. Tail(u) = [i \in 1 .. L - (r + 1) |-> u[i + 1]]
    <3>1. Tail(u) \in Seq(ClientPacket) /\ Len(Tail(u)) = L - (r + 1)
          /\ \A i \in 1 .. L - (r + 1) : Tail(u)[i] = u[i + 1]
      BY <1>1, <2>1
    <3>2. \A v \in Seq(ClientPacket) : v = [i \in 1 .. Len(v) |-> v[i]]
      OBVIOUS
    <3> DEFINE v == Tail(u)
    <3>3. v \in Seq(ClientPacket) /\ Len(v) = L - (r + 1)
          /\ \A i \in 1 .. L - (r + 1) : v[i] = u[i + 1]
      BY <3>1
    <3> HIDE DEF v
    <3>4. v = [i \in 1 .. L - (r + 1) |-> v[i]]
      BY <3>2, <3>3
    <3>5. v = [i \in 1 .. L - (r + 1) |-> u[i + 1]]
      BY <3>3, <3>4
    <3> QED BY <3>5 DEF v
  <2>4. [i \in 1 .. L - (r + 1) |-> u[i + 1]]
          = [i \in 1 .. L - (r + 1) |-> toServer[(r + 1) + i].packet]
    BY <2>2
  <2> QED BY <1>3, <2>3, <2>4 DEF u
<1> DEFINE S == ClientKex  a == Selection(Unread', S)  b == Selection(outboundQ, S)
           c == Selection(mainQ, S)  h == Selection(Unread, S)  x == Got
<1>7. /\ x \in S => h = <<x>> \o a
      /\ x \notin S => h = a
  BY <1>2, <1>5, <1>6, SelectionHead
<1>8. CK = (h \o b) \o c /\ CK' = (a \o b) \o c
  BY DEF CK, Leaving
<1>9. b \in Seq(S) /\ c \in Seq(S)
  BY PipeTypes
<1>10. a \in Seq(S)
  <2>1. \A u \in Seq(ClientPacket) : Selection(u, S) \in Seq(ClientPacket \cap S)
    BY SelectionType
  <2>2. ClientPacket \cap S = S
    BY DEF ClientKex
  <2>3. Unread' \in Seq(ClientPacket)
    BY <1>2, <1>5, <1>6
  <2> QED BY <2>1, <2>2, <2>3
<1> HIDE DEF S, a, b, c, h, x
<1>11. x \in S => ((<<x>> \o a) \o b) \o c = <<x>> \o ((a \o b) \o c)
  <2>1. ASSUME NEW p \in Seq(S), NEW q \in Seq(S), NEW y \in S PROVE (<<y>> \o p) \o q = <<y>> \o (p \o q)
    OBVIOUS
  <2>2. ASSUME x \in S PROVE (<<x>> \o a) \o b = <<x>> \o (a \o b) /\ a \o b \in Seq(S)
    BY <2>1, <2>2, <1>9, <1>10
  <2>3. ASSUME x \in S, NEW d \in Seq(S) PROVE (<<x>> \o d) \o c = <<x>> \o (d \o c)
    BY <2>1, <2>3, <1>9
  <2> QED BY <2>2, <2>3
<1> QED BY <1>5, <1>7, <1>8, <1>11 DEF S, x

\* SocketRecieve passes a packet on.
LEMMA Passed ==
    ASSUME Types, toClient # <<>>, Pass
    PROVE  SK' = SK
<1> DEFINE S == ServerKex  x == Head(toClient)  a == Selection(inboundQ, S)
           b == Selection(Tail(toClient), S)
<1>1. inboundQ \in Seq(ServerPacket) /\ toClient \in Seq(ServerPacket)
  BY DEF Types, QueueTypes
<1>2. x \in ServerPacket /\ Tail(toClient) \in Seq(ServerPacket)
  BY <1>1
<1>3. Selection(inboundQ', S) = IF x \in S THEN Append(a, x) ELSE a
  <2>1. Selection(Append(inboundQ, x), S) = IF x \in S THEN Append(a, x) ELSE a
    BY <1>1, <1>2, SelectionAppend
  <2> QED BY <2>1 DEF Pass
<1>4. /\ x \in S => Selection(toClient, S) = <<x>> \o b
      /\ x \notin S => Selection(toClient, S) = b
  BY <1>1, SelectionHead
<1>5. SK' = Selection(inboundQ', S) \o b /\ SK = a \o Selection(toClient, S)
  BY DEF SK, Pass
<1>6. a \in Seq(S) /\ b \in Seq(S)
  <2>1. \A u \in Seq(ServerPacket) : Selection(u, S) \in Seq(ServerPacket \cap S)
    BY SelectionType
  <2>2. ServerPacket \cap S = S
    BY DEF ServerKex
  <2> QED BY <2>1, <2>2, <1>1, <1>2
<1> HIDE DEF S, x, a, b
<1>7. x \in S => Append(a, x) \o b = a \o (<<x>> \o b)
  BY <1>6, ConcatMove
<1> QED BY <1>3, <1>4, <1>5, <1>7

\* Transport is done with a packet.
LEMMA Handled ==
    ASSUME Types, inboundQ # <<>>, inboundQ' = Tail(inboundQ), UNCHANGED toClient
    PROVE  /\ Head(inboundQ) \in ServerPacket
           /\ Head(inboundQ) \in ServerKex => SK = <<Head(inboundQ)>> \o SK'
           /\ Head(inboundQ) \notin ServerKex => SK' = SK
<1> DEFINE S == ServerKex  x == Head(inboundQ)  a == Selection(Tail(inboundQ), S)
           b == Selection(toClient, S)
<1>1. inboundQ \in Seq(ServerPacket) /\ toClient \in Seq(ServerPacket)
  BY DEF Types, QueueTypes
<1>2. x \in ServerPacket /\ Tail(inboundQ) \in Seq(ServerPacket)
  BY <1>1
<1>3. /\ x \in S => Selection(inboundQ, S) = <<x>> \o a
      /\ x \notin S => Selection(inboundQ, S) = a
  BY <1>1, SelectionHead
<1>4. SK' = a \o b /\ SK = Selection(inboundQ, S) \o b
  BY DEF SK
<1>5. a \in Seq(S) /\ b \in Seq(S)
  <2>1. \A u \in Seq(ServerPacket) : Selection(u, S) \in Seq(ServerPacket \cap S)
    BY SelectionType
  <2>2. ServerPacket \cap S = S
    BY DEF ServerKex
  <2> QED BY <2>1, <2>2, <1>1, <1>2
<1> HIDE DEF S, x, a, b
<1>6. x \in S => (<<x>> \o a) \o b = <<x>> \o (a \o b)
  BY <1>5
<1> QED BY <1>2, <1>3, <1>4, <1>6 DEF x, S

LEMMA Sent ==
    ASSUME Types, NEW p \in ServerPacket, Sends(p), UNCHANGED inboundQ
    PROVE  SK' = IF p \in ServerKex THEN Append(SK, p) ELSE SK
<1> DEFINE S == ServerKex  a == Selection(inboundQ, S)  b == Selection(toClient, S)
<1>1. toClient \in Seq(ServerPacket)
  BY DEF Types, QueueTypes
<1>2. Selection(toClient', S) = IF p \in S THEN Append(b, p) ELSE b
  <2>1. Selection(Append(toClient, p), S) = IF p \in S THEN Append(b, p) ELSE b
    BY <1>1, SelectionAppend
  <2> QED BY <2>1 DEF Sends
<1>3. SK' = a \o Selection(toClient', S) /\ SK = a \o b
  BY DEF SK
<1>4. a \in Seq(S) /\ b \in Seq(S)
  BY PipeTypes
<1> HIDE DEF S, a, b
<1>5. p \in S => a \o Append(b, p) = Append(a \o b, p)
  BY <1>4, ConcatAppend
<1> QED BY <1>2, <1>3, <1>5 DEF S

\* The packet Transport is at is the first of those of the server.
LEMMA HeadOfSK ==
    ASSUME Types, inboundQ # <<>>, Head(inboundQ) \in ServerKex
    PROVE  Len(SK) \in Nat \ {0} /\ SK[1] = Head(inboundQ)
<1> DEFINE S == ServerKex  x == Head(inboundQ)  a == Selection(Tail(inboundQ), S)
           b == Selection(toClient, S)
<1>1. inboundQ \in Seq(ServerPacket) /\ Tail(inboundQ) \in Seq(ServerPacket)
  BY DEF Types, QueueTypes
<1>2. Selection(inboundQ, S) = <<x>> \o a
  BY <1>1, SelectionHead
<1>3. SK = Selection(inboundQ, S) \o b
  BY DEF SK
<1>4. a \in Seq(S) /\ b \in Seq(S)
  <2>1. \A u \in Seq(ServerPacket) : Selection(u, S) \in Seq(ServerPacket \cap S)
    BY SelectionType
  <2>2. ServerPacket \cap S = S
    BY DEF ServerKex
  <2> QED BY <2>1, <2>2, <1>1, PipeTypes
<1>5. x \in S
  OBVIOUS
<1> HIDE DEF S, x, a, b
<1>6. (<<x>> \o a) \o b = <<x>> \o (a \o b) /\ a \o b \in Seq(S)
  BY <1>4, <1>5
<1> DEFINE c == a \o b
<1> HIDE DEF c
<1>7. Len(<<x>> \o c) \in Nat \ {0} /\ (<<x>> \o c)[1] = x
  BY <1>5, <1>6 DEF c
<1> QED BY <1>2, <1>3, <1>6, <1>7 DEF x, c

LEMMA Shifted ==
    ASSUME NEW X, NEW s, NEW t \in Seq(X), NEW x \in X, s = <<x>> \o t
    PROVE  /\ Len(t) \in Nat /\ Len(s) = Len(t) + 1 /\ s[1] = x
           /\ \A i \in 1 .. Len(t) : t[i] = s[i + 1]
<1> DEFINE u == <<x>> \o t
<1>1. Len(t) \in Nat /\ Len(u) = 1 + Len(t) /\ u[1] = x /\ \A i \in 1 .. Len(t) : u[1 + i] = t[i]
  OBVIOUS
<1> HIDE DEF u
<1>2. \A i \in 1 .. Len(t) : 1 + i = i + 1
  BY <1>1
<1>3. s = u
  BY DEF u
<1> QED BY <1>1, <1>2, <1>3

LEMMA Extended ==
    ASSUME NEW X, NEW s \in Seq(X), NEW t, NEW x \in X, t = Append(s, x)
    PROVE  /\ Len(s) \in Nat /\ Len(t) = Len(s) + 1 /\ t[Len(s) + 1] = x
           /\ \A i \in 1 .. Len(s) : t[i] = s[i]
  OBVIOUS

-----------------------------------------------------------------------------
(* Type correctness. *)

LEMMA FirstMatchType ==
    ASSUME NEW c \in Seq(STRING), NEW o, Matches(c, o)
    PROVE  FirstMatch(c, o) \in Elements(c)
<1> DEFINE T == {i \in 1 .. Len(c) : c[i] \in Elements(o)}
           Is(i) == c[i] \in Elements(o) /\ \A j \in 1 .. i - 1 : c[j] \notin Elements(o)
<1>1. T \in SUBSET Nat /\ T # {} /\ DOMAIN c = 1 .. Len(c)
  BY DEF Matches, Elements
<1> HIDE DEF T
<1>2. PICK n \in T : \A m \in T : n <= m
  BY <1>1, LeastNumber
<1>3. n \in 1 .. Len(c) /\ Is(n)
  <2>1. ASSUME NEW j \in 1 .. n - 1 PROVE c[j] \notin Elements(o)
    <3>1. j \in 1 .. Len(c) /\ ~ (n <= j)
      BY <1>2 DEF T
    <3> QED BY <3>1, <1>2 DEF T
  <2> QED BY <1>2, <2>1 DEF T
<1> DEFINE k == CHOOSE i \in DOMAIN c : Is(i)
<1>4. k \in DOMAIN c
  BY <1>3, <1>1
<1>5. FirstMatch(c, o) = c[k]
  BY DEF FirstMatch
<1> HIDE DEF k
<1> QED BY <1>4, <1>5 DEF Elements

LEMMA AgreedType ==
    ASSUME NEW offer, NEW l \in Lists, Matches(ClientAlgs[l], offer[l])
    PROVE  FirstMatch(ClientAlgs[l], offer[l]) \in Algorithms
<1>1. ClientAlgs[l] \in Seq(STRING)
  BY SizesAssumption
<1>2. FirstMatch(ClientAlgs[l], offer[l]) \in Elements(ClientAlgs[l])
  BY <1>1, FirstMatchType
<1> QED BY <1>2 DEF Algorithms

LEMMA InitTypes == Init => Types
<1> SUFFICES ASSUME Init PROVE Types
  OBVIOUS
<1>s. "none" \in Algorithms
  BY DEF Algorithms
<1>1. None \in Hashes /\ NoKeys \in Keys
  <2>1. None \in Hashes
    BY DEF None, Hashes
  <2> QED BY <1>s, <2>1 DEF NoKeys, Keys
<1>2. RawBufOut \in Nat /\ ClientAlgs \in Offers
  BY SizesAssumption DEF Offers
<1>3. QueueTypes
  <2>1. <<>> \in Seq(ClientPacket) /\ <<>> \in Seq(DataPacket)
        /\ <<>> \in Seq(SentPacket) /\ <<>> \in Seq(ServerPacket)
    OBVIOUS
  <2> QED BY <2>1 DEF Init, QueueTypes
<1>4. CipherTypes
  BY <1>1 DEF Init, CipherTypes
<1>5. ThreadTypes
  <2>1. alg \in [Lists -> Algorithms]
    BY <1>s DEF Init, Lists
  <2>2. crypto \in [ic : Nat, is : Nat, e : Nat, h : Hashes, session : Hashes]
    BY <1>1 DEF Init
  <2>3. {keyXMode, bInKeyXMode, waited, connected} \subseteq BOOLEAN
    BY Zenon DEF Init
  <2>4. made \in Nat /\ data \in Nat /\ rawBufLeft \in 0 .. RawBufOut
    BY <1>2 DEF Init
  <2>5. /\ ssPc \in {"mode", "next", "send"}
        /\ srPc \in {"read", "enqueue", "endKeyExchange"}
        /\ tPc \in {"idle", "step1", "cipherSS", "cipherSR", "newkeys"}
    BY DEF Init
  <2> QED BY <2>1, <2>2, <2>3, <2>4, <2>5 DEF ThreadTypes
<1>6. ServerTypes
  BY <1>1, <1>2 DEF Init, ServerTypes, Server
<1> QED BY <1>3, <1>4, <1>5, <1>6 DEF Types

LEMMA ServerKeysType ==
    ASSUME Types, Agree(srv.offer), NEW l \in Lists
    PROVE  ServerKeys(l) \in Keys
<1>1. srv.h \in Hashes /\ srv.session \in Hashes
  BY DEF Types, ServerTypes, Server
<1>2. FirstMatch(ClientAlgs[l], srv.offer[l]) \in Algorithms
  BY AgreedType DEF Agree
<1> QED BY <1>1, <1>2 DEF ServerKeys, KeyWith, Keys

\* A packet of the server, and the queues without their heads.
LEMMA HeadTypes ==
    ASSUME Types
    PROVE  /\ toClient # <<>> => /\ Head(toClient) \in ServerPacket
                                 /\ Tail(toClient) \in Seq(ServerPacket)
                                 /\ Append(inboundQ, Head(toClient)) \in Seq(ServerPacket)
           /\ inboundQ # <<>> => /\ Head(inboundQ) \in ServerPacket
                                 /\ Tail(inboundQ) \in Seq(ServerPacket)
<1>1. inboundQ \in Seq(ServerPacket) /\ toClient \in Seq(ServerPacket)
  BY DEF Types, QueueTypes
<1> QED BY <1>1

LEMMA ReceiveTypes ==
    ASSUME Types, Handling, ReceiveKexInit \/ endKeyExchange \/ ReceiveOther
    PROVE  Types'
<1> USE DEF queueVars, sendVars, transportVars, newCiphers
<1>1. /\ UNCHANGED <<mainQ, channelQ, made, data, ssPc, bInKeyXMode, outboundQ, rawBufLeft>>
      /\ UNCHANGED <<waited, ssCipher, ssNewCipher, toServer, tPc, alg, crypto, connected, srv>>
  BY DEF ReceiveKexInit, endKeyExchange, ReceiveOther
<1>2. \/ UNCHANGED <<inboundQ, toClient>>
      \/ toClient # <<>> /\ Pass
  BY DEF ReceiveKexInit, beginKeyExchange, endKeyExchange, ReceiveOther, ReadsUnder, Handling
<1>3. QueueTypes'
  <2>1. inboundQ' \in Seq(ServerPacket) /\ toClient' \in Seq(ServerPacket)
    BY <1>2, HeadTypes DEF Pass, Types, QueueTypes
  <2> QED BY <1>1, <2>1 DEF Types, QueueTypes
<1>4. CipherTypes'
  <2>1. /\ srCipher' \in {srCipher, srNewCipher}
        /\ srNewCipher' \in {srNewCipher, NoKeys}
    BY DEF ReceiveKexInit, beginKeyExchange, endKeyExchange, ReceiveOther
  <2>2. NoKeys \in Keys
    BY InitTypes DEF NoKeys, Keys, None, Hashes, Algorithms
  <2> QED BY <1>1, <2>1, <2>2 DEF Types, CipherTypes
<1>5. ThreadTypes'
  <2>1. keyXMode' \in {keyXMode, TRUE} /\ srPc' \in {srPc, "read", "enqueue", "endKeyExchange"}
    BY DEF ReceiveKexInit, beginKeyExchange, endKeyExchange, ReceiveOther
  <2> QED BY <1>1, <2>1 DEF Types, ThreadTypes
<1>6. ServerTypes'
  BY <1>1 DEF Types, ServerTypes
<1> QED BY <1>3, <1>4, <1>5, <1>6 DEF Types

LEMMA TransportTypes ==
    ASSUME Types, Handling, SameExchange, Transport
    PROVE  Types'
<1> USE DEF queueVars, sendVars, receiveVars, transportVars, newCiphers
<1> USE DEF negotiateEncryptions, doKeyExchange_step1, doKeyExchange_step2, SetCipherOfSend,
        SetCipherOfReceive, QueueNewKeys, HandleNewKeys, HandleOther
<1>1. /\ UNCHANGED <<keyXMode, ssPc, bInKeyXMode, outboundQ, rawBufLeft>>
      /\ UNCHANGED <<waited, ssCipher, srCipher, toServer, srPc, toClient, srv, channelQ, data>>
  BY DEF Transport, queueOutboundData
<1>2. QueueTypes'
  <2>1. inboundQ' = inboundQ \/ (inboundQ # <<>> /\ inboundQ' = Tail(inboundQ))
    BY DEF Transport, Done, Handles, Handling
  <2>2. \/ mainQ' = mainQ
        \/ \E type \in KexTypes : mainQ' = Append(mainQ, Packet(type))
    BY DEF Transport, queueOutboundData, KexTypes
  <2>3. \A type \in KexTypes : Packet(type) \in ClientPacket
    BY DEF Packet, ClientPacket, Types, ThreadTypes
  <2>4. mainQ' \in Seq(ClientPacket)
    <3>1. mainQ \in Seq(ClientPacket)
      BY DEF Types, QueueTypes
    <3>2. \A x \in ClientPacket : Append(mainQ, x) \in Seq(ClientPacket)
      BY <3>1
    <3> QED BY ONLY <2>2, <2>3, <3>1, <3>2
  <2>5. inboundQ' \in Seq(ServerPacket)
    BY <2>1, HeadTypes DEF Types, QueueTypes
  <2> QED BY <1>1, <2>4, <2>5 DEF Types, QueueTypes
<1>3. made' \in {made, made + 1} /\ tPc' \in {"idle", "step1", "cipherSS", "cipherSR", "newkeys"}
  <2>1. made' \in {made, made + 1}
    BY DEF Transport, queueOutboundData
  <2>2. tPc' \in {"idle", "step1", "cipherSS", "cipherSR", "newkeys"}
    BY DEF Transport, Done
  <2> QED BY <2>1, <2>2
<1>4. connected' \in {connected, TRUE}
  BY DEF Transport
<1>5. alg' \in [Lists -> Algorithms]
  <2>1. CASE negotiateEncryptions
    <3>1. \A l \in Lists : parseHostKeyExchangePacket(ClientAlgs[l], Head(inboundQ).offer[l],
                                                      alg[l]) \in Algorithms
      BY AgreedType DEF parseHostKeyExchangePacket, Types, ThreadTypes
    <3> QED BY <2>1, <3>1
  <2>2. CASE ~ negotiateEncryptions
    BY <2>2 DEF Transport, Types, ThreadTypes
  <2> QED BY <2>1, <2>2
<1>6. crypto' \in [ic : Nat, is : Nat, e : Nat, h : Hashes, session : Hashes]
  <2> DEFINE T == [ic : Nat, is : Nat, e : Nat, h : Hashes, session : Hashes]
  <2>1. crypto \in T /\ made \in Nat
    BY DEF Types, ThreadTypes
  <2>2. CASE negotiateEncryptions
    <3>1. Head(inboundQ) \in ServerPacket /\ Head(inboundQ).type = "kexinit"
      BY <2>2, HeadTypes DEF Handles
    <3>2. Head(inboundQ).no \in Nat
      BY <3>1 DEF ServerPacket
    <3> DEFINE c == [crypto EXCEPT !.ic = made + 1]
    <3>3. c \in T
      BY <2>1
    <3>4. crypto' = [c EXCEPT !.is = Head(inboundQ).no]
      BY <2>2 DEF setI_S, setI_C
    <3> HIDE DEF c
    <3> QED BY ONLY <3>2, <3>3, <3>4
  <2>3. CASE doKeyExchange_step1
    BY <2>1, <2>3 DEF compute_E
  <2>4. CASE doKeyExchange_step2
    <3>1. exchangeHash \in Hashes
      BY <2>1 DEF exchangeHash, Hashes
    <3> QED BY <2>1, <2>4, <3>1 DEF computeSessionID, SessionOf
  <2>5. CASE ~ (negotiateEncryptions \/ doKeyExchange_step1 \/ doKeyExchange_step2)
    BY <2>1, <2>5 DEF Transport
  <2> QED BY <2>2, <2>3, <2>4, <2>5
<1>7. ThreadTypes'
  <2>1. {keyXMode, bInKeyXMode, waited, connected} \subseteq BOOLEAN
    BY DEF Types, ThreadTypes
  <2>2. {keyXMode, bInKeyXMode, waited, connected}' \subseteq BOOLEAN
    BY ONLY <1>1, <1>4, <2>1, Zenon
  <2>3. made' \in Nat /\ data' \in Nat
    BY <1>1, <1>3 DEF Types, ThreadTypes
  <2> QED BY <1>1, <1>3, <1>5, <1>6, <2>2, <2>3 DEF Types, ThreadTypes
<1>8. CipherTypes'
  <2>1. \A l \in Lists : getCipher(l) \in Keys
    BY DEF getCipher, KeyWith, Keys, Types, ThreadTypes
  <2>2. /\ ssNewCipher' \in {ssNewCipher, getCipher("c2s")}
        /\ srNewCipher' \in {srNewCipher, getCipher("s2c")}
    BY DEF Transport
  <2> QED BY <1>1, <2>1, <2>2 DEF Types, CipherTypes, Lists
<1>9. ServerTypes'
  BY <1>1 DEF Types, ServerTypes
<1> QED BY <1>2, <1>7, <1>8, <1>9 DEF Types

LEMMA QueueTypesKept ==
    ASSUME NEW X, NEW q \in Seq(X)
    PROVE  /\ q # <<>> => Head(q) \in X /\ Tail(q) \in Seq(X)
           /\ \A x \in X : Append(q, x) \in Seq(X)
  OBVIOUS

LEMMA UserTypes ==
    ASSUME Types, UserQueues
    PROVE  Types'
<1> USE DEF sendVars, receiveVars, transportVars, newCiphers
<1>1. /\ UNCHANGED <<keyXMode, sendVars, receiveVars, transportVars, newCiphers, srv>>
      /\ data' = data + 1 /\ made' = made + 1
      /\ \/ mainQ' = Append(mainQ, Packet("data")) /\ UNCHANGED channelQ
         \/ channelQ' = Append(channelQ, Packet("data")) /\ UNCHANGED mainQ
  BY DEF UserQueues
<1>2. made \in Nat /\ data \in Nat
  BY DEF Types, ThreadTypes
<1>3. QueueTypes'
  <2>1. Packet("data") \in ClientPacket /\ Packet("data") \in DataPacket
    BY <1>2 DEF Packet, ClientPacket, DataPacket
  <2>2. mainQ \in Seq(ClientPacket) /\ channelQ \in Seq(DataPacket)
    BY DEF Types, QueueTypes
  <2>3. /\ Append(mainQ, Packet("data")) \in Seq(ClientPacket)
        /\ Append(channelQ, Packet("data")) \in Seq(DataPacket)
    BY <2>1, <2>2, QueueTypesKept
  <2>4. mainQ' \in Seq(ClientPacket) /\ channelQ' \in Seq(DataPacket)
    BY <1>1, <2>2, <2>3
  <2> QED BY <1>1, <2>4 DEF Types, QueueTypes
<1>4. CipherTypes' /\ ServerTypes'
  BY <1>1 DEF Types, CipherTypes, ServerTypes
<1>5. ThreadTypes'
  BY <1>1, <1>2 DEF Types, ThreadTypes
<1> QED BY <1>3, <1>4, <1>5 DEF Types

LEMMA SendTypes ==
    ASSUME Types, ReadMode \/ NextPacket \/ PacketOverruns \/ NoPacket
    PROVE  Types'
<1> USE DEF queueVars, sendVars, receiveVars, transportVars, newCiphers
<1>1. /\ UNCHANGED <<made, data, ssCipher, toServer, receiveVars>>
      /\ UNCHANGED <<transportVars, newCiphers, srv>>
  BY DEF ReadMode, NextPacket, PacketOverruns, NoPacket, getNextPacket, Took
<1>2. mainQ \in Seq(ClientPacket) /\ outboundQ \in Seq(ClientPacket)
      /\ channelQ \in Seq(DataPacket)
  BY DEF Types, QueueTypes
<1>3. DataPacket \subseteq ClientPacket
  BY DEF ClientPacket, DataPacket
<1>4. channelQ # <<>> => /\ Head(channelQ) \in DataPacket
                         /\ Tail(channelQ) \in Seq(DataPacket)
  BY <1>2, QueueTypesKept
<1>5. /\ mainQ' \in Seq(ClientPacket) /\ channelQ' \in Seq(DataPacket)
      /\ \/ UNCHANGED <<outboundQ, rawBufLeft, keyXMode>>
         \/ \E p \in ClientPacket : Took(p) /\ Fits(p)
  <2>1. CASE ReadMode \/ PacketOverruns \/ NoPacket
    BY <2>1, <1>2 DEF ReadMode, PacketOverruns, NoPacket
  <2>2. CASE NextPacket /\ bInKeyXMode
    <3>1. PICK i \in DOMAIN mainQ : /\ mainQ' = RemoveIt(mainQ, i) /\ Fits(mainQ[i])
                                    /\ Took(mainQ[i]) /\ UNCHANGED channelQ
      BY <2>2 DEF NextPacket, getNextPacket, FirstKex
    <3>2. mainQ[i] \in ClientPacket /\ RemoveIt(mainQ, i) \in Seq(ClientPacket)
      BY <1>2 DEF RemoveIt
    <3> QED BY <3>1, <3>2, <1>2
  <2>3. CASE NextPacket /\ ~ bInKeyXMode
    <3>1. \/ mainQ # <<>> /\ mainQ' = Tail(mainQ) /\ UNCHANGED channelQ
             /\ Took(Head(mainQ)) /\ Fits(Head(mainQ))
          \/ channelQ # <<>> /\ channelQ' = Tail(channelQ) /\ UNCHANGED mainQ
             /\ Took(Head(channelQ)) /\ Fits(Head(channelQ))
      BY <2>3 DEF NextPacket, getNextPacket
    <3>2. mainQ # <<>> => Head(mainQ) \in ClientPacket /\ Tail(mainQ) \in Seq(ClientPacket)
      BY <1>2, QueueTypesKept
    <3> QED BY ONLY <3>1, <3>2, <1>2, <1>3, <1>4
  <2> QED BY <2>1, <2>2, <2>3
<1>6. QueueTypes'
  <2>1. \A p \in ClientPacket : Append(outboundQ, p) \in Seq(ClientPacket)
    BY <1>2
  <2>2. outboundQ' \in Seq(ClientPacket)
    BY <1>2, <1>5, <2>1 DEF Took
  <2> QED BY <1>1, <1>5, <2>2 DEF Types, QueueTypes
<1>7. rawBufLeft' \in 0 .. RawBufOut
  <2>1. rawBufLeft \in 0 .. RawBufOut /\ RawBufOut \in Nat
    BY SizesAssumption DEF Types, ThreadTypes
  <2>2. \A p \in ClientPacket : PacketLen[p.type] \in Nat \ {0}
    BY SizesAssumption DEF ClientPacket
  <2>3. ASSUME NEW p \in ClientPacket, Took(p), Fits(p)
        PROVE  rawBufLeft' \in 0 .. RawBufOut
    BY <2>1, <2>2, <2>3 DEF Took, Fits
  <2> QED BY <1>5, <2>1, <2>3
<1>8. /\ keyXMode' \in BOOLEAN /\ bInKeyXMode' \in BOOLEAN /\ waited' \in BOOLEAN
      /\ ssPc' \in {"mode", "next", "send", "overrun"}
  <2>1. keyXMode \in BOOLEAN /\ bInKeyXMode \in BOOLEAN /\ waited \in BOOLEAN
    BY Zenon DEF Types, ThreadTypes
  <2>2. keyXMode' \in BOOLEAN
    BY <1>5, <2>1, Zenon DEF Took
  <2>3. bInKeyXMode' \in BOOLEAN /\ waited' \in BOOLEAN
    BY <2>1 DEF ReadMode, NextPacket, PacketOverruns, NoPacket, getNextPacket, Took
  <2>4. ssPc' \in {"mode", "next", "send", "overrun"}
    BY DEF ReadMode, NextPacket, PacketOverruns, NoPacket, getNextPacket, Took
  <2> QED BY <2>2, <2>3, <2>4
<1>9. ThreadTypes'
  BY <1>1, <1>7, <1>8 DEF Types, ThreadTypes
<1>10. CipherTypes' /\ ServerTypes'
  BY <1>1 DEF Types, CipherTypes, ServerTypes
<1> QED BY <1>6, <1>9, <1>10 DEF Types

LEMMA CombineTypes ==
    ASSUME Types, combineAndSendPackets
    PROVE  Types'
<1> USE DEF queueVars, sendVars, receiveVars, transportVars, newCiphers
<1>1. /\ UNCHANGED <<mainQ, channelQ, made, data, keyXMode, bInKeyXMode, waited>>
      /\ UNCHANGED <<receiveVars, transportVars, srNewCipher, srv>>
      /\ outboundQ' = <<>> /\ rawBufLeft' \in {rawBufLeft, RawBufOut} /\ ssPc' = "mode"
      /\ ssCipher' \in {ssCipher, ssNewCipher} /\ ssNewCipher' \in {ssNewCipher, NoKeys}
  BY DEF combineAndSendPackets
<1> DEFINE sent == [i \in DOMAIN outboundQ |-> [packet |-> outboundQ[i], keys |-> CipherOf(i)]]
<1>2. toServer' = toServer \o sent
  BY DEF combineAndSendPackets
<1>3. outboundQ \in Seq(ClientPacket) /\ toServer \in Seq(SentPacket)
  BY DEF Types, QueueTypes
<1>4. sent \in Seq(SentPacket)
  <2>1. \A i \in DOMAIN outboundQ : CipherOf(i) \in Keys /\ outboundQ[i] \in ClientPacket
    BY <1>3 DEF Types, CipherTypes, CipherOf
  <2>2. \A i \in DOMAIN outboundQ : sent[i] \in SentPacket
    BY <2>1 DEF SentPacket
  <2>3. DOMAIN outboundQ = 1 .. Len(outboundQ) /\ Len(outboundQ) \in Nat
    BY <1>3
  <2> QED BY <2>2, <2>3
<1> HIDE DEF sent
<1>5. toServer' \in Seq(SentPacket) /\ Len(toServer') >= Len(toServer)
  BY <1>2, <1>3, <1>4
<1>6. QueueTypes'
  <2>1. <<>> \in Seq(ClientPacket)
    OBVIOUS
  <2> QED BY <1>1, <1>5, <2>1 DEF Types, QueueTypes
<1>7. CipherTypes'
  <2>1. NoKeys \in Keys
    BY DEF NoKeys, Keys, None, Hashes, Algorithms
  <2> QED BY <1>1, <2>1 DEF Types, CipherTypes
<1>8. ThreadTypes'
  <2>1. rawBufLeft' \in 0 .. RawBufOut
    BY <1>1, SizesAssumption DEF Types, ThreadTypes
  <2> QED BY <1>1, <2>1 DEF Types, ThreadTypes
<1>9. ServerTypes'
  <2>1. Len(toServer) \in Nat /\ Len(toServer') \in Nat
    BY <1>3, <1>5
  <2> QED BY <1>1, <1>5, <2>1 DEF Types, ServerTypes, Server
<1> QED BY <1>6, <1>7, <1>8, <1>9 DEF Types

\* NEWKEYS of the client is under way after the signature was accepted, and nothing
\* else of it is.
LEMMA NewKeysAlone ==
    ASSUME Types, Stage, New(CK)
    PROVE  Accepted /\ Len(CK) = 1 /\ IsN(CK[1]) /\ srv.rcv.h # srv.h
<1>1. CK \in Seq(ClientKex)
  BY PipeTypes
<1>2. DOMAIN CK = 1 .. Len(CK) /\ Len(CK) \in Nat
  BY <1>1
<1>3. PICK i \in 1 .. Len(CK) : CK[i].type = "newkeys"
  BY <1>2 DEF New
<1>4. Len(CK) # 0
  BY <1>2, <1>3
<1>5. Len(CK) = 1 => i = 1
  BY <1>2, <1>3
<1>6. Len(CK) = 2 => i = 1 \/ i = 2
  BY <1>2, <1>3
<1>7. ~ (Resting \/ Begun \/ Replied \/ Refused)
  BY <1>4 DEF Resting, Begun, Replied, Refused, NoClient
<1>8. ~ Negotiating
  BY <1>3, <1>4, <1>5 DEF Negotiating, NoClient, IsC
<1>9. ~ Asked
  BY <1>3, <1>4, <1>5, <1>6 DEF Asked, NoClient, IsC, IsE
<1> QED BY <1>4, <1>7, <1>8, <1>9 DEF Stage, Accepted, NoClient

LEMMA GotFirst ==
    ASSUME Types, srv.read < Len(toServer), Got \in ClientKex
    PROVE  Len(CK) \in Nat \ {0} /\ CK[1] = Got
<1> DEFINE S == ClientKex  x == Got  a == Selection(Tail(Unread), S)
           b == Selection(outboundQ, S)  c == Selection(mainQ, S)
<1>1. Unread \in Seq(ClientPacket) /\ Unread # <<>> /\ Head(Unread) = x
  <2>1. srv.read \in Nat /\ Len(toServer) \in Nat
    BY DEF Types, ServerTypes, Server, QueueTypes
  <2>2. Unread \in Seq(ClientPacket) /\ Len(Unread) = Len(toServer) - srv.read
    BY PipeTypes
  <2>3. Unread[1] = Got
    BY <2>1 DEF Unread, Got
  <2>4. Len(Unread) # 0 /\ Head(Unread) = Unread[1]
    BY <2>1, <2>2
  <2>5. Unread # <<>>
    BY <2>4, Len(<<>>) = 0
  <2> QED BY <2>2, <2>3, <2>4, <2>5
<1>2. Selection(Unread, S) = <<x>> \o a
  BY <1>1, SelectionHead
<1>3. CK = (Selection(Unread, S) \o b) \o c
  BY DEF CK, Leaving
<1>4. a \in Seq(S) /\ b \in Seq(S) /\ c \in Seq(S) /\ x \in S
  <2>1. \A u \in Seq(ClientPacket) : Selection(u, S) \in Seq(ClientPacket \cap S)
    BY SelectionType
  <2>2. ClientPacket \cap S = S
    BY DEF ClientKex
  <2>3. Tail(Unread) \in Seq(ClientPacket)
    BY <1>1
  <2> QED BY <2>1, <2>2, <2>3, PipeTypes
<1> HIDE DEF S, x, a, b, c
<1> DEFINE d == <<x>> \o a
<1>5. d \in Seq(S) /\ Len(d) \in Nat \ {0} /\ d[1] = x
  BY <1>4
<1> HIDE DEF d
<1> DEFINE e == d \o b
<1>6. e \in Seq(S) /\ Len(e) \in Nat \ {0} /\ e[1] = x
  BY <1>4, <1>5
<1> HIDE DEF e
<1>7. Len(e \o c) \in Nat \ {0} /\ (e \o c)[1] = x
  BY <1>4, <1>6
<1> QED BY <1>2, <1>3, <1>7 DEF e, d, x

LEMMA ServerReadsNewKeysIn ==
    ASSUME Types, Stage, ServerReadsNewKeys
    PROVE  Accepted /\ Len(CK) = 1 /\ IsN(CK[1]) /\ srv.rcv.h # srv.h
<1>1. srv.read < Len(toServer) /\ Got.type = "newkeys"
  BY DEF ServerReadsNewKeys, ServerReads, Got
<1>2. Got \in ClientPacket
  <2>1. srv.read + 1 \in 1 .. Len(toServer) /\ toServer \in Seq(SentPacket)
    BY <1>1 DEF Types, ServerTypes, Server, QueueTypes
  <2>2. toServer[srv.read + 1] \in SentPacket
    BY <2>1
  <2> QED BY <2>2 DEF Got, SentPacket
<1>3. Got \in ClientKex
  BY <1>1, <1>2 DEF ClientKex, KexTypes
<1>4. New(CK)
  <2>1. CK \in Seq(ClientKex)
    BY PipeTypes
  <2>2. Len(CK) \in Nat \ {0} /\ CK[1] = Got
    BY <1>1, <1>3, GotFirst
  <2>3. 1 \in DOMAIN CK
    BY <2>1, <2>2
  <2> QED BY <1>1, <2>2, <2>3 DEF New
<1> QED BY <1>4, NewKeysAlone

LEMMA ServerExcept ==
    ASSUME NEW s \in Server
    PROVE  /\ \A x \in {"idle", "kexinit", "reply", "stopped"} : [s EXCEPT !.phase = x] \in Server
           /\ \A x \in Nat : /\ [s EXCEPT !.begun = x] \in Server /\ [s EXCEPT !.ic = x] \in Server
                             /\ [s EXCEPT !.data = x] \in Server /\ [s EXCEPT !.read = x] \in Server
           /\ \A x \in Offers : [s EXCEPT !.offer = x] \in Server
           /\ \A x \in Hashes : [s EXCEPT !.h = x] \in Server /\ [s EXCEPT !.session = x] \in Server
           /\ \A x \in Keys : [s EXCEPT !.rcv = x] \in Server /\ [s EXCEPT !.snd = x] \in Server
           /\ \A x \in SUBSET Nat : [s EXCEPT !.bad = x] \in Server
  BY DEF Server

\* What the server sends is a packet.
LEMMA SendsTypes ==
    ASSUME Types, NEW p \in ServerPacket, Sends(p)
    PROVE  toClient' \in Seq(ServerPacket)
<1>1. toClient \in Seq(ServerPacket)
  BY DEF Types, QueueTypes
<1> QED BY <1>1, QueueTypesKept DEF Sends

LEMMA ServerTypesNext ==
    ASSUME Types, Stage, SameExchange, ServerBegins \/ ServerSendsData \/ ServerAnswers
    PROVE  Types'
<1> USE DEF queueVars, sendVars, transportVars, newCiphers
<1>1. UNCHANGED ClientOnly
  BY DEF ServerBegins, ServerSendsData, ServerAnswers, ServerNegotiates, ServerRefuses, ServerReplies,
         ServerNewKeys, ServerReadsNewKeys, ServerReadsData, ServerReads
<1>2. srv \in Server /\ srv.read <= Len(toServer) /\ toClient \in Seq(ServerPacket)
      /\ Len(toServer) \in Nat
  BY DEF Types, ServerTypes, QueueTypes
<1>3. /\ srv.begun \in Nat /\ srv.ic \in Nat /\ srv.read \in Nat /\ srv.snd \in Keys /\ srv.rcv \in Keys
      /\ srv.session \in Hashes /\ srv.bad \in SUBSET Nat /\ srv.data \in Nat
      /\ srv.phase \in {"idle", "kexinit", "reply", "stopped"}
  BY <1>2 DEF Server
<1>4. srv.read < Len(toServer) => Got \in ClientPacket
  <2>1. toServer \in Seq(SentPacket)
    BY DEF Types, QueueTypes
  <2>2. srv.read < Len(toServer) => toServer[srv.read + 1] \in SentPacket
    BY <2>1, <1>3
  <2> QED BY <2>2 DEF Got, SentPacket
<1>5. srv' \in Server /\ srv'.read <= Len(toServer) /\ toClient' \in Seq(ServerPacket)
  <2>1. CASE ServerBegins
    <3>1. PICK offer \in ServerOffers :
            /\ Sends([type |-> "kexinit", no |-> srv.begun + 1, offer |-> offer,
                      keys |-> srv.snd])
            /\ srv' = [srv EXCEPT !.phase = "kexinit", !.begun = @ + 1, !.offer = offer]
      BY <2>1 DEF ServerBegins
    <3>2. offer \in Offers
      BY SizesAssumption DEF Offers
    <3>3. [type |-> "kexinit", no |-> srv.begun + 1, offer |-> offer, keys |-> srv.snd]
            \in ServerPacket
      BY <1>3, <3>2 DEF ServerPacket
    <3>4. toClient' \in Seq(ServerPacket)
      BY <3>1, <3>3, SendsTypes
    <3>5. srv' \in Server /\ srv'.read = srv.read
      <4> DEFINE n == srv.begun + 1  s1 == [srv EXCEPT !.phase = "kexinit"]
                 s2 == [s1 EXCEPT !.begun = n]  s3 == [s2 EXCEPT !.offer = offer]
      <4>1. srv' = s3 /\ s3.read = srv.read
        BY <3>1, <1>2 DEF Server
      <4>2. n \in Nat
        BY <1>3
      <4> HIDE DEF s1, s2, s3, n
      <4>3. s1 \in Server
        BY <1>2, ServerExcept DEF s1
      <4>4. s2 \in Server
        BY <4>2, <4>3, ServerExcept DEF s2
      <4>5. s3 \in Server
        BY <3>2, <4>4, ServerExcept DEF s3
      <4> QED BY <4>1, <4>5
    <3> QED BY <1>2, <3>4, <3>5
  <2>2. CASE ServerSendsData
    <3>1. /\ Sends([type |-> "data", keys |-> srv.snd])
          /\ srv' = [srv EXCEPT !.data = @ + 1]
      BY <2>2 DEF ServerSendsData
    <3>2. [type |-> "data", keys |-> srv.snd] \in ServerPacket
      BY <1>3 DEF ServerPacket
    <3>3. srv' \in Server /\ srv'.read = srv.read
      BY <1>2, <1>3, <3>1 DEF Server
    <3> QED BY <1>2, <3>1, <3>2, <3>3, SendsTypes
  <2>3. CASE ServerNegotiates
    <3>1. srv.read < Len(toServer) /\ toClient' = toClient
          /\ srv' = [srv EXCEPT !.read = @ + 1, !.ic = Got.no,
                      !.phase = IF Agree(srv.offer) THEN @ ELSE "stopped"]
      BY <2>3 DEF ServerNegotiates, ServerReads
    <3>2. Got.no \in Nat
      BY <3>1, <1>4 DEF ClientPacket
    <3> DEFINE r == srv.read + 1  ph == IF Agree(srv.offer) THEN srv.phase ELSE "stopped"
               s1 == [srv EXCEPT !.read = r]  s2 == [s1 EXCEPT !.ic = Got.no]
               s3 == [s2 EXCEPT !.phase = ph]
    <3>3. srv' = s3 /\ s3.read = r
      BY <3>1, <1>2 DEF Server
    <3>4. r \in Nat /\ ph \in {"idle", "kexinit", "reply", "stopped"}
      BY <1>3
    <3> HIDE DEF s1, s2, s3, r, ph
    <3>5. s1 \in Server
      BY <1>2, <3>4, ServerExcept DEF s1
    <3>6. s2 \in Server
      BY <3>2, <3>5, ServerExcept DEF s2
    <3>7. s3 \in Server
      BY <3>4, <3>6, ServerExcept DEF s3
    <3> QED BY <1>2, <1>3, <3>1, <3>3, <3>7 DEF r
  <2>4. CASE ServerReplies
    <3> DEFINE h == [ic |-> srv.ic, is |-> srv.begun, e |-> Got.no]
    <3>1. PICK fault \in Faults :
            /\ Sends([type |-> "kexdh_reply", keys |-> srv.snd, fault |-> fault, signed |-> h])
            /\ srv' = [srv EXCEPT !.read = @ + 1, !.phase = "reply", !.h = h,
                        !.session = SessionOf(@, h),
                        !.bad = IF fault = "none" THEN @ ELSE @ \cup {srv.begun}]
      BY <2>4 DEF ServerReplies, Faults
    <3>2. srv.read < Len(toServer)
      BY <2>4 DEF ServerReplies, ServerReads
    <3>3. Got.no \in Nat
      BY <3>2, <1>4 DEF ClientPacket
    <3>4. h \in Hashes
      BY <1>3, <3>3 DEF Hashes
    <3> HIDE DEF h
    <3>5. [type |-> "kexdh_reply", keys |-> srv.snd, fault |-> fault, signed |-> h]
            \in ServerPacket
      BY <1>3, <3>4 DEF ServerPacket
    <3>6. toClient' \in Seq(ServerPacket)
      BY <3>1, <3>5, SendsTypes
    <3>7. SessionOf(srv.session, h) \in Hashes
      BY <1>3, <3>4 DEF SessionOf
    <3> DEFINE r == srv.read + 1  x == SessionOf(srv.session, h)
               b == IF fault = "none" THEN srv.bad ELSE srv.bad \cup {srv.begun}
               s1 == [srv EXCEPT !.read = r]  s2 == [s1 EXCEPT !.phase = "reply"]
               s3 == [s2 EXCEPT !.h = h]  s4 == [s3 EXCEPT !.session = x]
               s5 == [s4 EXCEPT !.bad = b]
    <3>8. srv' = s5 /\ s5.read = r
      BY <3>1, <1>2 DEF Server
    <3>9. r \in Nat /\ b \in SUBSET Nat
      BY <1>3
    <3> HIDE DEF s1, s2, s3, s4, s5, r, x, b
    <3>10. s2 \in Server
      <4>1. s1 \in Server
        BY <1>2, <3>9, ServerExcept DEF s1
      <4> QED BY <4>1, ServerExcept DEF s2
    <3>11. s4 \in Server
      <4>1. s3 \in Server
        BY <3>4, <3>10, ServerExcept DEF s3
      <4> QED BY <3>7, <4>1, ServerExcept DEF s4, x
    <3>12. s5 \in Server
      BY <3>9, <3>11, ServerExcept DEF s5
    <3> QED BY <1>2, <1>3, <3>2, <3>6, <3>8, <3>12 DEF r
  <2>5. CASE ServerNewKeys
    <3>1. /\ srv.phase = "reply" /\ Sends([type |-> "newkeys", keys |-> srv.snd])
          /\ srv' = [srv EXCEPT !.snd = ServerKeys("s2c"),
                      !.phase = IF srv.rcv.h = srv.h THEN "idle" ELSE @]
      BY <2>5 DEF ServerNewKeys
    <3>2. [type |-> "newkeys", keys |-> srv.snd] \in ServerPacket
      BY <1>3 DEF ServerPacket
    <3>3. ServerKeys("s2c") \in Keys
      BY <3>1, ServerKeysType DEF SameExchange, Lists
    <3>4. srv' \in Server /\ srv'.read = srv.read
      BY <1>2, <1>3, <3>1, <3>3 DEF Server
    <3> QED BY <1>2, <3>1, <3>2, <3>4, SendsTypes
  <2>6. CASE ServerReadsNewKeys
    <3>1. /\ srv.read < Len(toServer) /\ toClient' = toClient
          /\ srv' = [srv EXCEPT !.read = @ + 1, !.rcv = ServerKeys("c2s"),
                      !.phase = IF srv.snd.h = srv.h THEN "idle" ELSE @]
      BY <2>6 DEF ServerReadsNewKeys, ServerReads
    <3>2. srv.phase = "reply"
      BY <2>6, ServerReadsNewKeysIn DEF Accepted
    <3>3. ServerKeys("c2s") \in Keys
      BY <3>2, ServerKeysType DEF SameExchange, Lists
    <3> DEFINE r == srv.read + 1  ph == IF srv.snd.h = srv.h THEN "idle" ELSE srv.phase
               x == ServerKeys("c2s")
               s1 == [srv EXCEPT !.read = r]  s2 == [s1 EXCEPT !.rcv = x]
               s3 == [s2 EXCEPT !.phase = ph]
    <3> HIDE DEF x
    <3>4. srv' = s3 /\ s3.read = r
      BY <3>1, <1>2 DEF Server, x
    <3>5. r \in Nat /\ ph \in {"idle", "kexinit", "reply", "stopped"}
      BY <1>3
    <3> HIDE DEF s1, s2, s3, r, ph
    <3>6. s1 \in Server
      BY <1>2, <3>5, ServerExcept DEF s1
    <3>7. s2 \in Server
      BY <3>3, <3>6, ServerExcept DEF s2, x
    <3>8. s3 \in Server
      BY <3>5, <3>7, ServerExcept DEF s3
    <3> QED BY <1>2, <1>3, <3>1, <3>4, <3>8 DEF r
  <2>7. CASE ServerReadsData
    <3>1. srv.read < Len(toServer) /\ srv' = [srv EXCEPT !.read = @ + 1] /\ toClient' = toClient
      BY <2>7 DEF ServerReadsData, ServerReads
    <3>2. srv' \in Server /\ srv'.read = srv.read + 1
      BY <1>2, <1>3, <3>1 DEF Server
    <3> QED BY <1>2, <1>3, <3>1, <3>2
  <2>8. CASE ServerRefuses
    <3>1. srv.read < Len(toServer) /\ srv' = [srv EXCEPT !.read = @ + 1, !.phase = "stopped"]
          /\ toClient' = toClient
      BY <2>8 DEF ServerRefuses, ServerReads
    <3> DEFINE r == srv.read + 1  s1 == [srv EXCEPT !.read = r]
               s2 == [s1 EXCEPT !.phase = "stopped"]
    <3>2. srv' = s2 /\ s2.read = r
      BY <3>1, <1>2 DEF Server
    <3>3. r \in Nat
      BY <1>3
    <3> HIDE DEF s1, s2, r
    <3>4. s1 \in Server
      BY <1>2, <3>3, ServerExcept DEF s1
    <3>5. s2 \in Server
      BY <3>4, ServerExcept DEF s2
    <3> QED BY <1>2, <1>3, <3>1, <3>2, <3>5 DEF r
  <2> QED BY <2>1, <2>2, <2>3, <2>4, <2>5, <2>6, <2>7, <2>8 DEF ServerAnswers
<1>6. QueueTypes' /\ CipherTypes' /\ ThreadTypes'
  BY <1>1, <1>5 DEF Types, QueueTypes, CipherTypes, ThreadTypes, ClientOnly
<1>7. ServerTypes'
  BY <1>1, <1>5 DEF ServerTypes, ClientOnly
<1> QED BY <1>6, <1>7 DEF Types

LEMMA TypesNext ==
    ASSUME KeyInv, [Next]_vars
    PROVE  Types'
<1>1. Types /\ Handling /\ Stage /\ SameExchange
  BY DEF KeyInv
<1>2. CASE SocketReceive
  BY <1>1, <1>2, ReceiveTypes DEF SocketReceive
<1>3. CASE Transport
  BY <1>1, <1>3, TransportTypes
<1>4. CASE SocketSend
  BY <1>1, <1>4, SendTypes, CombineTypes DEF SocketSend
<1>5. CASE UserQueues
  BY <1>1, <1>5, UserTypes
<1>6. CASE ServerBegins \/ ServerSendsData \/ ServerAnswers
  BY <1>1, <1>6, ServerTypesNext
<1>7. CASE UNCHANGED vars
  <2> USE <1>7 DEF vars, queueVars, sendVars, receiveVars, transportVars, newCiphers
  <2>1. QueueTypes' /\ CipherTypes' /\ ThreadTypes' /\ ServerTypes'
    BY <1>1 DEF Types, QueueTypes, CipherTypes, ThreadTypes, ServerTypes
  <2> QED BY <2>1 DEF Types
<1> QED BY <1>2, <1>3, <1>4, <1>5, <1>6, <1>7 DEF Next

LEMMA AppendHead ==
    ASSUME NEW X, NEW q \in Seq(X), q # <<>>, NEW x
    PROVE  Append(q, x) # <<>> /\ Head(Append(q, x)) = Head(q)
  OBVIOUS

LEMMA HandlingNext ==
    ASSUME Types, Handling, [Next]_vars
    PROVE  Handling'
<1> USE DEF Handling
<1>1. inboundQ \in Seq(ServerPacket) /\ toClient \in Seq(ServerPacket)
  BY DEF Types, QueueTypes
<1>2. \A x : inboundQ # <<>> => Append(inboundQ, x) # <<>> /\ Head(Append(inboundQ, x)) = Head(inboundQ)
  BY <1>1, AppendHead
<1>3. \A x : toClient # <<>> => Append(toClient, x) # <<>> /\ Head(Append(toClient, x)) = Head(toClient)
  BY <1>1, AppendHead
<1>4. CASE SocketReceive
  <2>1. CASE ReceiveKexInit
    BY <1>2, <2>1 DEF ReceiveKexInit, beginKeyExchange, ReadsUnder, Pass, transportVars
  <2>2. CASE endKeyExchange
    BY <1>2, <2>2 DEF endKeyExchange, ReadsUnder, Pass, transportVars
  <2>3. CASE ReceiveOther
    BY <1>2, <2>3 DEF ReceiveOther, ReadsUnder, Pass, transportVars
  <2> QED BY <1>4, <2>1, <2>2, <2>3 DEF SocketReceive
<1>5. CASE Transport
  <2>1. UNCHANGED <<srPc, toClient>>
    BY <1>5 DEF Transport, negotiateEncryptions, doKeyExchange_step1, doKeyExchange_step2,
         SetCipherOfSend, SetCipherOfReceive, QueueNewKeys, HandleNewKeys, HandleOther, receiveVars
  <2>2. \/ tPc' = "idle"
        \/ UNCHANGED inboundQ /\ tPc' = "step1" /\ Handles("kexinit")
        \/ UNCHANGED inboundQ /\ tPc' = "cipherSS" /\ Handles("kexdh_reply")
        \/ UNCHANGED inboundQ /\ tPc \in {"cipherSS", "cipherSR"} /\ tPc' \in {"cipherSR", "newkeys"}
    BY <1>5 DEF Transport, negotiateEncryptions, doKeyExchange_step1, doKeyExchange_step2,
         SetCipherOfSend, SetCipherOfReceive, QueueNewKeys, HandleNewKeys, HandleOther,
         receiveVars, Done
  <2> QED BY <2>1, <2>2 DEF Handles
<1>6. CASE SocketSend \/ UserQueues
  BY <1>6 DEF SocketSend, UserQueues, ReadMode, NextPacket, PacketOverruns, NoPacket, combineAndSendPackets,
       getNextPacket, Took, receiveVars, transportVars
<1>7. CASE ServerBegins \/ ServerSendsData \/ ServerAnswers
  <2>1. UNCHANGED <<srPc, inboundQ, tPc>>
    BY <1>7 DEF ServerBegins, ServerSendsData, ServerAnswers, ServerNegotiates, ServerRefuses, ServerReplies,
         ServerNewKeys, ServerReadsNewKeys, ServerReadsData, ServerReads, ClientOnly, transportVars
  <2>2. toClient' = toClient \/ \E x : toClient' = Append(toClient, x)
    BY <1>7 DEF ServerBegins, ServerSendsData, ServerAnswers, ServerNegotiates, ServerRefuses, ServerReplies,
         ServerNewKeys, ServerReadsNewKeys, ServerReadsData, Sends
  <2> QED BY <1>3, <2>1, <2>2
<1>8. CASE UNCHANGED vars
  BY <1>8 DEF vars, receiveVars, transportVars
<1> QED BY <1>4, <1>5, <1>6, <1>7, <1>8 DEF Next

-----------------------------------------------------------------------------
(* The exchange goes on. *)

Core == Stage /\ Numbers /\ SameExchange /\ SameSession /\ Older

SameServer ==
    /\ srv'.phase = srv.phase /\ srv'.begun = srv.begun /\ srv'.offer = srv.offer
    /\ srv'.ic = srv.ic /\ srv'.h = srv.h /\ srv'.session = srv.session
    /\ srv'.rcv = srv.rcv /\ srv'.snd = srv.snd /\ srv'.bad = srv.bad

LEMMA CoreKept ==
    ASSUME Core, UNCHANGED <<tPc, alg, crypto>>, SameServer, CK' = CK, SK' = SK
    PROVE  Core' /\ (Accepted' <=> Accepted) /\ \A l \in Lists : ServerKeys(l)' = ServerKeys(l)
<1> USE DEF SameServer
<1>1. (NoClient' <=> NoClient) /\ (NoServer' <=> NoServer) /\ (OnlyN' <=> OnlyN)
  BY DEF NoClient, NoServer, OnlyN, IsN
<1>2. /\ Resting' <=> Resting
      /\ Begun' <=> Begun
      /\ Negotiating' <=> Negotiating
      /\ Asked' <=> Asked
  <2>1. (KexInitRead' <=> KexInitRead) /\ (KexInitUnread' <=> KexInitUnread)
    BY DEF KexInitRead, KexInitUnread, Agree
  <2>2. (Resting' <=> Resting) /\ (Begun' <=> Begun)
    BY <1>1 DEF Resting, Begun, IsN, IsK
  <2>3. Negotiating' <=> Negotiating
    BY <1>1, <2>1 DEF Negotiating, IsC, IsK
  <2>4. Asked' <=> Asked
    BY <1>1, <2>1 DEF Asked, IsC, IsE
  <2> QED BY <2>2, <2>3, <2>4
<1>3. /\ Replied' <=> Replied
      /\ Refused' <=> Refused
      /\ Accepted' <=> Accepted
  <2>1. Replied' <=> Replied
    BY <1>1 DEF Replied, IsR, IsN
  <2>2. Refused' <=> Refused
    BY <1>1 DEF Refused
  <2>3. Accepted' <=> Accepted
    BY <1>1 DEF Accepted, IsN
  <2> QED BY <2>1, <2>2, <2>3
<1>4. Stage'
  BY <1>2, <1>3 DEF Core, Stage
<1>5. Numbers'
  BY DEF Core, Numbers
<1>6. SameExchange'
  BY <1>2 DEF Core, SameExchange, Agreed, Agree, exchangeHash
<1>7. SameSession'
  BY <1>3 DEF Core, SameSession
<1>8. Older'
  BY DEF Core, Older
<1>9. \A l \in Lists : ServerKeys(l)' = ServerKeys(l)
  BY DEF ServerKeys
<1> QED BY <1>3, <1>4, <1>5, <1>6, <1>7, <1>8, <1>9 DEF Core

\* Two packets under way are the client's KEXINIT and e: the server stops if they swap.
LEMMA CoreSwapped ==
    ASSUME Core, UNCHANGED <<tPc, alg, crypto>>, SameServer, Swapped, SK' = SK
    PROVE  Core' /\ (Accepted' <=> Accepted) /\ \A l \in Lists : ServerKeys(l)' = ServerKeys(l)
<1> USE DEF SameServer
<1>1. Len(CK) = 2 /\ Len(CK') = 2 /\ CK'[1] = CK[2] /\ CK'[2] = CK[1]
  BY DEF Swapped
<1>2. Asked
  BY <1>1 DEF Core, Stage, Resting, Begun, Negotiating, Replied, Refused, Accepted, NoClient
<1>3. Asked'
  <2>1. KexInitUnread' <=> KexInitUnread
    BY DEF KexInitUnread
  <2>2. NoServer' <=> NoServer
    BY DEF NoServer
  <2> QED BY <1>1, <1>2, <2>1, <2>2 DEF Asked, IsC, IsE, NoClient
<1>4. srv.phase # "reply" /\ ~ Accepted /\ ~ Accepted'
  BY <1>2 DEF Asked, Accepted
<1>5. Numbers' /\ Older'
  BY DEF Core, Numbers, Older
<1>6. SameExchange'
  BY <1>2, <1>4 DEF Core, SameExchange, Agreed
<1>7. SameSession'
  BY <1>2, <1>4 DEF Core, SameSession
<1>8. \A l \in Lists : ServerKeys(l)' = ServerKeys(l)
  BY DEF ServerKeys
<1> QED BY <1>3, <1>4, <1>5, <1>6, <1>7, <1>8 DEF Core, Stage

\* What the first packet of the server says of the stage.
LEMMA StageOfHead ==
    ASSUME Types, Stage, inboundQ # <<>>, Head(inboundQ) \in ServerKex
    PROVE  /\ Len(SK) \in Nat \ {0} /\ SK[1] = Head(inboundQ)
           /\ tPc = "idle" /\ Head(inboundQ).type = "kexinit" => Begun /\ Len(SK) = 1 /\ IsK(SK[1])
           /\ Head(inboundQ).type = "kexdh_reply" => Replied
           /\ tPc = "idle" /\ Head(inboundQ).type = "newkeys" =>
                Resting \/ Begun \/ Refused \/ Accepted
<1>1. Len(SK) \in Nat \ {0} /\ SK[1] = Head(inboundQ)
  BY HeadOfSK
<1> DEFINE t == Head(inboundQ).type
<1>2. Len(SK) # 0 /\ SK[1].type = t
  BY <1>1
<1> HIDE DEF t
<1>3. Resting => t = "newkeys"
  BY <1>2 DEF Resting, NoServer, OnlyN, IsN
<1>4. Begun => t = "newkeys" \/ (t = "kexinit" /\ Len(SK) = 1 /\ IsK(SK[1]))
  BY <1>2 DEF Begun, IsN, IsK
<1>5. Negotiating => t = "kexinit" /\ tPc = "step1"
  BY <1>2 DEF Negotiating, IsK
<1>6. ~ Asked
  BY <1>2 DEF Asked, NoServer
<1>7. Replied => t = "kexdh_reply"
  BY <1>2 DEF Replied, IsR
<1>8. Refused => t = "newkeys"
  BY <1>2 DEF Refused, NoServer, OnlyN, IsN
<1>9. Accepted => t = "newkeys"
  BY <1>2 DEF Accepted, NoServer, OnlyN, IsN
<1> QED BY <1>1, <1>3, <1>4, <1>5, <1>6, <1>7, <1>8, <1>9 DEF Stage, t

\* Transport queues a packet of the exchange.
LEMMA QueuedKex ==
    ASSUME Types, NEW type \in KexTypes, queueOutboundData(type),
           UNCHANGED <<outboundQ, toServer>>, srv'.read = srv.read
    PROVE  /\ Len(CK) \in Nat /\ Len(CK') = Len(CK) + 1 /\ CK'[Len(CK) + 1] = Packet(type)
           /\ \A i \in 1 .. Len(CK) : CK'[i] = CK[i]
<1>1. Packet(type) \in ClientPacket
  BY DEF Packet, ClientPacket, Types, ThreadTypes
<1>2. Packet(type) \in ClientKex
  BY <1>1 DEF ClientKex, Packet
<1>3. mainQ' = Append(mainQ, Packet(type))
  BY DEF queueOutboundData
<1>4. CK' = Append(CK, Packet(type))
  BY <1>1, <1>2, <1>3, Queued
<1>5. CK \in Seq(ClientKex)
  BY PipeTypes
<1> QED BY <1>2, <1>4, <1>5, Extended

\* Transport is done with a packet of the exchange.
LEMMA HandledKex ==
    ASSUME Types, Types', inboundQ # <<>>, inboundQ' = Tail(inboundQ), UNCHANGED toClient,
           Head(inboundQ).type # "data"
    PROVE  /\ Len(SK) \in Nat /\ Len(SK') \in Nat /\ Len(SK) = Len(SK') + 1
           /\ SK[1] = Head(inboundQ) /\ \A i \in 1 .. Len(SK') : SK'[i] = SK[i + 1]
           /\ Len(SK) = 1 => Len(SK') = 0
           /\ Len(SK) = 2 => Len(SK') = 1 /\ SK'[1] = SK[2]
<1>1. Head(inboundQ) \in ServerPacket
  BY HeadTypes
<1>2. Head(inboundQ) \in ServerKex
  BY <1>1 DEF ServerKex
<1>3. SK = <<Head(inboundQ)>> \o SK'
  BY <1>2, Handled
<1>4. SK' \in Seq(ServerKex)
  BY PipeTypesNext
<1> DEFINE s == SK  t == SK'  x == Head(inboundQ)
<1>5. /\ Len(t) \in Nat /\ Len(s) = Len(t) + 1 /\ s[1] = x
      /\ \A i \in 1 .. Len(t) : t[i] = s[i + 1]
  BY <1>2, <1>3, <1>4, Shifted
<1> HIDE DEF s, t, x
<1>6. Len(s) = 2 => Len(t) = 1 /\ t[1] = s[2]
  <2>1. ASSUME NEW m, NEW n \in Nat, m = n + 1
        PROVE  (m = 2 => n = 1) /\ (m = 1 => n = 0) /\ m \in Nat
    BY <2>1
  <2>2. Len(t) = 1 => 1 \in 1 .. Len(t) /\ 1 + 1 = 2
    OBVIOUS
  <2>3. (Len(s) = 2 => Len(t) = 1) /\ (Len(s) = 1 => Len(t) = 0) /\ Len(s) \in Nat
    BY ONLY <1>5, <2>1
  <2> QED BY <1>5, <2>2, <2>3
<1>7. Len(s) \in Nat /\ (Len(s) = 1 => Len(t) = 0)
  BY ONLY <1>5, \A m, n : n \in Nat /\ m = n + 1 => (m = 1 => n = 0) /\ m \in Nat
<1> QED BY <1>5, <1>6, <1>7 DEF s, t, x

LEMMA NegotiateCore ==
    ASSUME KeyInv, Types', negotiateEncryptions
    PROVE  Core'
<1>1. Types /\ Stage /\ Numbers /\ SameExchange /\ SameSession /\ Older /\ Made
  BY DEF KeyInv
<1>2. tPc = "idle" /\ inboundQ # <<>> /\ Head(inboundQ).type = "kexinit"
  BY DEF negotiateEncryptions, Handles
<1>3. Head(inboundQ) \in ServerKex
  BY <1>1, <1>2, HeadTypes DEF ServerKex
<1>4. Begun /\ Len(SK) = 1 /\ IsK(SK[1]) /\ SK[1] = Head(inboundQ)
  BY <1>1, <1>2, <1>3, StageOfHead
<1>5. /\ UNCHANGED <<inboundQ, toClient, outboundQ, toServer, srv>> /\ tPc' = "step1"
      /\ queueOutboundData("kexinit") /\ crypto' = setI_S(setI_C(crypto))
      /\ alg' = [l \in Lists |->
                  parseHostKeyExchangePacket(ClientAlgs[l], Head(inboundQ).offer[l], alg[l])]
  BY DEF negotiateEncryptions, sendVars, receiveVars
<1>6. SK' = SK
  BY <1>5, ServerKept
<1>7. Len(CK') = 1 /\ CK'[1] = Packet("kexinit")
  <2>1. Len(CK) = 0
    BY <1>4 DEF Begun, NoClient
  <2>2. "kexinit" \in KexTypes
    BY DEF KexTypes
  <2> QED BY <1>1, <1>5, <2>1, <2>2, QueuedKex
<1>8. crypto'.ic = made + 1 /\ crypto'.is = srv.begun /\ crypto'.session = crypto.session
  <2>1. crypto \in [ic : Nat, is : Nat, e : Nat, h : Hashes, session : Hashes]
    BY <1>1 DEF Types, ThreadTypes
  <2>2. Head(inboundQ).no = srv.begun
    BY <1>4 DEF IsK
  <2> QED BY <1>5, <2>1, <2>2 DEF setI_S, setI_C
<1>9. \A l \in Lists : Agreed(l)'
  <2>1. Head(inboundQ).offer = srv.offer
    BY <1>4 DEF IsK
  <2> QED BY <1>5, <2>1 DEF Agreed, parseHostKeyExchangePacket
<1>10. Negotiating'
  <2>1. IsC(CK[1])'
    BY <1>7, <1>8 DEF IsC, Packet
  <2>2. Len(SK') = 1 /\ IsK(SK[1])'
    BY <1>4, <1>5, <1>6 DEF IsK
  <2>3. KexInitUnread'
    <3>1. srv.ic <= made /\ srv.ic \in Nat /\ made \in Nat
      BY <1>1 DEF Made, Types, ThreadTypes, ServerTypes, Server
    <3>2. srv.ic # made + 1
      BY <3>1
    <3> QED BY <1>4, <1>5, <1>8, <3>2 DEF Begun, KexInitUnread
  <2> QED BY <1>4, <1>5, <1>7, <2>1, <2>2, <2>3 DEF Negotiating, Begun
<1>11. srv.phase = "kexinit"
  BY <1>4 DEF Begun
<1>12. Numbers' /\ Older'
  BY <1>1, <1>5 DEF Numbers, Older
<1>13. SameExchange'
  BY <1>5, <1>8, <1>9, <1>11 DEF SameExchange
<1>14. SameSession'
  BY <1>1, <1>5, <1>8, <1>11 DEF SameSession
<1> QED BY <1>10, <1>12, <1>13, <1>14 DEF Core, Stage

LEMMA Step1Core ==
    ASSUME KeyInv, Types', doKeyExchange_step1
    PROVE  Core'
<1>1. Types /\ Stage /\ Numbers /\ SameExchange /\ SameSession /\ Older
  BY DEF KeyInv
<1>2. tPc = "step1" /\ inboundQ # <<>> /\ Head(inboundQ).type = "kexinit"
  BY DEF doKeyExchange_step1, KeyInv, Handling
<1>3. Negotiating
  BY <1>1, <1>2 DEF Stage, Resting, Begun, Asked, Replied, Refused, Accepted
<1>4. /\ UNCHANGED <<toClient, outboundQ, toServer, srv, alg>> /\ tPc' = "idle"
      /\ inboundQ' = Tail(inboundQ)
  BY DEF doKeyExchange_step1, sendVars, Done
<1>5. NoServer'
  BY <1>1, <1>2, <1>3, <1>4, HandledKex DEF Negotiating, NoServer
<1>6. crypto'.ic = crypto.ic /\ crypto'.is = crypto.is /\ crypto'.session = crypto.session
  <2>1. crypto \in [ic : Nat, is : Nat, e : Nat, h : Hashes, session : Hashes]
    BY <1>1 DEF Types, ThreadTypes
  <2>2. crypto' = crypto \/ crypto' = [crypto EXCEPT !.e = made + 1]
    BY DEF doKeyExchange_step1, compute_E
  <2> QED BY <2>1, <2>2
<1>7. (KexInitRead => KexInitRead') /\ (KexInitUnread => KexInitUnread')
  BY <1>4, <1>6 DEF KexInitRead, KexInitUnread, Agree
<1>8. Asked'
  <2>1. CASE setKeyExchangeType
    <3>1. queueOutboundData("kexdh_init") /\ crypto' = [crypto EXCEPT !.e = made + 1]
      BY <2>1 DEF doKeyExchange_step1, compute_E
    <3>2. Len(CK') = Len(CK) + 1 /\ CK'[Len(CK) + 1] = Packet("kexdh_init") /\ Len(CK) \in Nat
          /\ \A i \in 1 .. Len(CK) : CK'[i] = CK[i]
      <4>1. "kexdh_init" \in KexTypes
        BY DEF KexTypes
      <4> QED BY <1>1, <1>4, <3>1, <4>1, QueuedKex
    <3>3. crypto'.e = made + 1
      BY <1>1, <3>1 DEF Types, ThreadTypes
    <3>4. CASE Len(CK) = 1 /\ IsC(CK[1]) /\ KexInitUnread
      <4>1. Len(CK') = 2 /\ CK'[1] = CK[1] /\ CK'[2] = Packet("kexdh_init")
        BY <3>2, <3>4
      <4>2. IsC(CK[1])' /\ IsE(CK[2])'
        BY <1>6, <3>3, <3>4, <4>1 DEF IsC, IsE, Packet
      <4> QED BY <1>4, <1>5, <1>7, <3>4, <4>1, <4>2 DEF Asked, KexInitUnread
    <3>5. CASE NoClient /\ KexInitRead
      <4>1. Len(CK') = 1 /\ CK'[1] = Packet("kexdh_init")
        BY <3>2, <3>5 DEF NoClient
      <4>2. IsE(CK[1])'
        BY <3>3, <4>1 DEF IsE, Packet
      <4> QED BY <1>3, <1>4, <1>5, <1>7, <3>5, <4>1, <4>2 DEF Asked, Negotiating
    <3> QED BY <1>3, <3>4, <3>5 DEF Negotiating
  <2>2. CASE ~ setKeyExchangeType
    <3>1. UNCHANGED <<mainQ, crypto>>
      BY <2>2 DEF doKeyExchange_step1, queueVars
    <3>2. CK' = CK
      BY <1>4, <3>1, ClientKept
    <3> QED BY <1>3, <1>4, <1>5, <1>7, <3>1, <3>2 DEF Asked, Negotiating, NoClient, IsC
  <2> QED BY <2>1, <2>2
<1>9. Numbers' /\ Older'
  BY <1>1, <1>4 DEF Numbers, Older
<1>10. srv.phase # "reply"
  BY <1>3 DEF Negotiating
<1>11. SameExchange'
  BY <1>1, <1>3, <1>4, <1>6, <1>10 DEF SameExchange, Agreed
<1>12. SameSession'
  BY <1>1, <1>4, <1>6, <1>10 DEF SameSession
<1> QED BY <1>8, <1>9, <1>11, <1>12 DEF Core, Stage

\* A signature is verified exactly when the server did not spoil its answer.
LEMMA Step2Core ==
    ASSUME KeyInv, Types', doKeyExchange_step2
    PROVE  Core'
<1>1. Types /\ Stage /\ Numbers /\ SameExchange /\ SameSession /\ Older
  BY DEF KeyInv
<1>2. tPc = "idle" /\ inboundQ # <<>> /\ Head(inboundQ).type = "kexdh_reply"
  BY DEF doKeyExchange_step2, Handles
<1>3. Head(inboundQ) \in ServerPacket
  BY <1>1, <1>2, HeadTypes
<1>4. Head(inboundQ).fault \in Faults
  BY <1>2, <1>3 DEF ServerPacket
<1>5. Head(inboundQ) \in ServerKex
  BY <1>2, <1>3 DEF ServerKex
<1>6. Replied /\ SK[1] = Head(inboundQ)
  BY <1>1, <1>2, <1>5, StageOfHead
<1>7. IsR(Head(inboundQ)) /\ srv.phase = "reply"
  BY <1>6 DEF Replied
<1>8. srv.h = exchangeHash /\ srv.session # None
  BY <1>1, <1>7 DEF SameExchange, SameSession
<1>9. /\ UNCHANGED <<mainQ, outboundQ, toServer, toClient, srv, alg>>
      /\ \/ crypto' = crypto \/ computeSessionID
  BY DEF doKeyExchange_step2, sendVars, queueVars
<1>10. CK' = CK
  BY <1>9, ClientKept
<1>11. /\ crypto'.ic = crypto.ic /\ crypto'.is = crypto.is /\ crypto'.e = crypto.e
       /\ computeSessionID => crypto'.h = srv.h /\ crypto'.session = srv.session
       /\ crypto'.session = srv.session \/ (crypto'.session = None /\ srv.session = srv.h)
  <2>1. crypto \in [ic : Nat, is : Nat, e : Nat, h : Hashes, session : Hashes]
    BY <1>1 DEF Types, ThreadTypes
  <2>2. crypto.session = srv.session \/ (crypto.session = None /\ srv.session = srv.h)
    BY <1>1 DEF SameSession
  <2>3. ASSUME computeSessionID
        PROVE  /\ crypto'.ic = crypto.ic /\ crypto'.is = crypto.is /\ crypto'.e = crypto.e
               /\ crypto'.h = srv.h /\ crypto'.session = SessionOf(crypto.session, srv.h)
    BY <1>8, <2>1, <2>3 DEF computeSessionID
  <2>4. SessionOf(crypto.session, srv.h) = srv.session
    BY <1>8, <2>2 DEF SessionOf
  <2> QED BY <1>9, <2>2, <2>3, <2>4
<1>12. exchangeHash' = exchangeHash
  BY <1>11 DEF exchangeHash
<1>13. Numbers' /\ Older'
  BY <1>1, <1>9 DEF Numbers, Older
<1>14. SameExchange'
  BY <1>1, <1>7, <1>9, <1>12 DEF SameExchange, Negotiating, Asked, Agree
<1>15. CASE setPublicKey /\ setSignatureOfH /\ verifySigOfH_onTheBigHash
  <2>1. computeSessionID /\ tPc' = "cipherSS" /\ UNCHANGED inboundQ
    BY <1>15 DEF doKeyExchange_step2
  <2>2. SK' = SK
    BY <1>9, <2>1, ServerKept
  <2>3. srv.bad = {}
    <3>1. Head(inboundQ).fault = "none"
      BY <1>4, <1>15 DEF Faults, setPublicKey, setSignatureOfH, verifySigOfH_onTheBigHash
    <3> QED BY <1>1, <1>7, <3>1 DEF IsR, Numbers
  <2>4. Replied'
    BY <1>6, <1>9, <1>10, <2>1, <2>2, <2>3 DEF Replied, NoClient, IsR, IsN
  <2>5. SameSession'
    BY <1>1, <1>9, <1>11, <2>1 DEF SameSession
  <2> QED BY <1>13, <1>14, <2>4, <2>5 DEF Core, Stage
<1>16. CASE ~ (setPublicKey /\ setSignatureOfH /\ verifySigOfH_onTheBigHash)
  <2>1. inboundQ' = Tail(inboundQ) /\ tPc' = "idle"
    BY <1>16 DEF doKeyExchange_step2, Done
  <2>2. srv.begun \in srv.bad
    <3>1. Head(inboundQ).fault # "none"
      BY <1>7, <1>8, <1>16 DEF IsR, setPublicKey, setSignatureOfH, verifySigOfH_onTheBigHash
    <3> QED BY <1>7, <3>1 DEF IsR
  <2>3. (Len(SK) = 1 => Len(SK') = 0) /\ (Len(SK) = 2 => Len(SK') = 1 /\ SK'[1] = SK[2])
    BY <1>1, <1>2, <1>9, <2>1, HandledKex
  <2>4. Refused'
    <3>1. CASE srv.snd.h = srv.h
      <4>1. Len(SK') = 1 /\ SK'[1] = SK[2]
        BY <1>6, <2>3, <3>1 DEF Replied
      <4>2. OnlyN'
        BY <1>6, <3>1, <4>1 DEF Replied, OnlyN, IsN
      <4> QED BY <1>6, <1>9, <1>10, <2>1, <2>2, <3>1, <4>2 DEF Replied, Refused, NoClient
    <3>2. CASE srv.snd.h # srv.h
      <4>1. NoServer'
        BY <1>6, <2>3, <3>2 DEF Replied, NoServer
      <4> QED BY <1>6, <1>9, <1>10, <2>1, <2>2, <3>2, <4>1 DEF Replied, Refused, NoClient
    <3> QED BY <3>1, <3>2
  <2>5. ~ Accepted'
    BY <1>9, <2>2 DEF Accepted
  <2>6. SameSession'
    BY <1>1, <1>7, <1>9, <1>11, <2>1, <2>5 DEF SameSession
  <2> QED BY <1>13, <1>14, <2>4, <2>6 DEF Core, Stage
<1> QED BY <1>15, <1>16

LEMMA SetCipherCore ==
    ASSUME KeyInv, SetCipherOfSend \/ SetCipherOfReceive
    PROVE  Core'
<1>1. Types /\ Stage /\ Numbers /\ SameExchange /\ SameSession /\ Older
  BY DEF KeyInv
<1>2. /\ UNCHANGED <<mainQ, outboundQ, toServer, inboundQ, toClient, srv, alg, crypto>>
      /\ tPc \in {"cipherSS", "cipherSR"} /\ tPc' \in {"cipherSR", "newkeys"}
  BY DEF SetCipherOfSend, SetCipherOfReceive, queueVars, sendVars, receiveVars
<1>3. CK' = CK /\ SK' = SK
  BY <1>2, ClientKept, ServerKept
<1>4. Replied
  BY <1>1, <1>2 DEF Stage, Resting, Begun, Negotiating, Asked, Refused, Accepted
<1>5. Replied'
  BY <1>2, <1>3, <1>4 DEF Replied, NoClient, IsR, IsN
<1>6. Numbers' /\ Older'
  BY <1>1, <1>2 DEF Numbers, Older
<1>7. SameExchange'
  BY <1>1, <1>2, <1>4 DEF SameExchange, Replied, Negotiating, Asked, Agree, exchangeHash
<1>8. SameSession'
  BY <1>1, <1>2 DEF SameSession
<1> QED BY <1>5, <1>6, <1>7, <1>8 DEF Core, Stage

LEMMA QueueNewKeysCore ==
    ASSUME KeyInv, Types', QueueNewKeys
    PROVE  Core' /\ Accepted' /\ Len(CK') = 1
<1>1. Types /\ Stage /\ Numbers /\ SameExchange /\ SameSession /\ Older
  BY DEF KeyInv
<1>2. tPc = "newkeys" /\ inboundQ # <<>> /\ Head(inboundQ).type = "kexdh_reply"
  BY DEF QueueNewKeys, KeyInv, Handling
<1>3. /\ UNCHANGED <<outboundQ, toServer, toClient, srv, alg, crypto>>
      /\ queueOutboundData("newkeys") /\ inboundQ' = Tail(inboundQ) /\ tPc' = "idle"
  BY DEF QueueNewKeys, Done, sendVars
<1>4. Replied
  BY <1>1, <1>2 DEF Stage, Resting, Begun, Negotiating, Asked, Refused, Accepted
<1>5. Len(CK') = 1 /\ CK'[1] = Packet("newkeys")
  <2>1. Len(CK) = 0
    BY <1>4 DEF Replied, NoClient
  <2>2. "newkeys" \in KexTypes
    BY DEF KexTypes
  <2> QED BY <1>1, <1>3, <2>1, <2>2, QueuedKex
<1>6. (Len(SK) = 1 => Len(SK') = 0) /\ (Len(SK) = 2 => Len(SK') = 1 /\ SK'[1] = SK[2])
  BY <1>1, <1>2, <1>3, HandledKex
<1>7. Accepted'
  <2>1. IsN(CK[1])'
    BY <1>5 DEF IsN, Packet
  <2>2. NoServer' \/ (OnlyN' /\ srv.snd.h = srv.h)
    <3>1. CASE srv.snd.h = srv.h
      <4>1. Len(SK') = 1 /\ SK'[1] = SK[2]
        BY <1>4, <1>6, <3>1 DEF Replied
      <4> QED BY <1>4, <3>1, <4>1 DEF Replied, OnlyN, IsN
    <3>2. CASE srv.snd.h # srv.h
      BY <1>4, <1>6, <3>2 DEF Replied, NoServer
    <3> QED BY <3>1, <3>2
  <2> QED BY <1>2, <1>3, <1>4, <1>5, <2>1, <2>2 DEF Accepted, Replied
<1>8. Numbers' /\ Older'
  BY <1>1, <1>3 DEF Numbers, Older
<1>9. SameExchange'
  BY <1>1, <1>3, <1>4 DEF SameExchange, Replied, Negotiating, Asked, Agree, exchangeHash
<1>10. SameSession'
  BY <1>1, <1>2, <1>3 DEF SameSession
<1> QED BY <1>5, <1>7, <1>8, <1>9, <1>10 DEF Core, Stage

LEMMA HandleNewKeysCore ==
    ASSUME KeyInv, Types', HandleNewKeys
    PROVE  Core' /\ (Accepted' <=> Accepted) /\ CK' = CK
<1>1. Types /\ Stage /\ Numbers /\ SameExchange /\ SameSession /\ Older
  BY DEF KeyInv
<1>2. tPc = "idle" /\ inboundQ # <<>> /\ Head(inboundQ).type = "newkeys"
  BY DEF HandleNewKeys, Handles
<1>3. /\ UNCHANGED <<mainQ, outboundQ, toServer, toClient, srv, alg, crypto>>
      /\ inboundQ' = Tail(inboundQ) /\ tPc' = "idle"
  BY DEF HandleNewKeys, Done, sendVars, queueVars
<1>4. CK' = CK
  BY <1>3, ClientKept
<1>5. Head(inboundQ) \in ServerKex
  BY <1>1, <1>2, HeadTypes DEF ServerKex
<1>6. NewCame
  <2>1. inboundQ \in Seq(ServerPacket)
    BY <1>1 DEF Types, QueueTypes
  <2>2. 1 \in DOMAIN inboundQ /\ inboundQ[1] = Head(inboundQ)
    BY <1>2, <2>1
  <2> QED BY <1>2, <2>2 DEF NewCame
<1>7. Ready
  BY <1>6 DEF KeyInv, KeysToClient
<1>8. Resting \/ Begun \/ Accepted
  <2>1. ~ Refused
    BY <1>1, <1>2, <1>7 DEF Ready, Refused, Accepted, Numbers
  <2> QED BY <1>1, <1>2, <1>5, <2>1, StageOfHead
<1>9. Len(SK') \in Nat /\ Len(SK) = Len(SK') + 1 /\ SK[1].type = "newkeys"
      /\ (Len(SK) = 1 => Len(SK') = 0) /\ (Len(SK) = 2 => Len(SK') = 1 /\ SK'[1] = SK[2])
  BY <1>1, <1>2, <1>3, HandledKex
<1>10. Resting => Resting'
  BY <1>3, <1>4, <1>9 DEF Resting, NoClient, NoServer, OnlyN
<1>11. Begun => Begun'
  <2>1. Begun => Len(SK) = 2 /\ IsK(SK[2])
    BY <1>9 DEF Begun, IsK
  <2>2. Begun => Len(SK') = 1 /\ SK'[1] = SK[2]
    BY <1>9, <2>1
  <2> QED BY <1>3, <1>4, <2>1, <2>2 DEF Begun, NoClient, IsK
<1>12. Accepted' <=> Accepted
  <2>1. Accepted => Accepted'
    BY <1>3, <1>4, <1>9 DEF Accepted, NoClient, NoServer, OnlyN, IsN
  <2>2. Resting \/ Begun => ~ Accepted'
    BY <1>3 DEF Resting, Begun, Accepted
  <2> QED BY <1>8, <2>1, <2>2
<1>13. Numbers' /\ Older'
  BY <1>1, <1>3 DEF Numbers, Older
<1>14. ~ Negotiating' /\ ~ Asked'
  <2>1. ~ Negotiating'
    BY <1>3 DEF Negotiating
  <2>2. ~ Asked'
    <3>1. Begun => Len(SK') # 0
      BY <1>9 DEF Begun, IsK
    <3> QED BY <1>3, <1>8, <3>1 DEF Asked, NoServer, Resting, Accepted
  <2> QED BY <2>1, <2>2
<1>15. SameExchange'
  BY <1>1, <1>3, <1>14 DEF SameExchange, Agree, exchangeHash
<1>16. SameSession'
  BY <1>1, <1>2, <1>3, <1>12 DEF SameSession
<1> QED BY <1>4, <1>8, <1>10, <1>11, <1>12, <1>13, <1>15, <1>16 DEF Core, Stage

\* The server sends a packet of the exchange.
LEMMA SentKex ==
    ASSUME Types, NEW p \in ServerPacket, p.type # "data", Sends(p), UNCHANGED inboundQ
    PROVE  /\ Len(SK) \in Nat /\ Len(SK') = Len(SK) + 1 /\ SK'[Len(SK) + 1] = p
           /\ \A i \in 1 .. Len(SK) : SK'[i] = SK[i]
           /\ Len(SK) = 0 => Len(SK') = 1 /\ SK'[1] = p
           /\ Len(SK) = 1 => Len(SK') = 2 /\ SK'[1] = SK[1] /\ SK'[2] = p
<1>1. p \in ServerKex
  BY DEF ServerKex
<1>2. SK \in Seq(ServerKex)
  BY PipeTypes
<1>3. SK' = Append(SK, p)
  BY <1>1, Sent
<1> DEFINE s == SK  t == SK'
<1>4. /\ Len(s) \in Nat /\ Len(t) = Len(s) + 1 /\ t[Len(s) + 1] = p
      /\ \A i \in 1 .. Len(s) : t[i] = s[i]
  BY <1>1, <1>2, <1>3, Extended
<1> HIDE DEF s, t
<1>5. Len(s) = 0 => Len(t) = 1 /\ t[1] = p
  BY <1>4
<1>6. Len(s) = 1 => Len(t) = 2 /\ t[1] = s[1] /\ t[2] = p
  BY <1>4
<1> QED BY <1>4, <1>5, <1>6 DEF s, t

\* The server reads a packet of the exchange.
LEMMA ReadKex ==
    ASSUME Types, Types', srv.read < Len(toServer), srv'.read = srv.read + 1,
           UNCHANGED <<mainQ, outboundQ, toServer>>, Got.type # "data"
    PROVE  /\ Len(CK) \in Nat \ {0} /\ CK[1] = Got
           /\ Len(CK) = 1 => Len(CK') = 0
           /\ Len(CK) = 2 => Len(CK') = 1 /\ CK'[1] = CK[2]
<1>1. Got \in ClientPacket
  BY ServerRead
<1>2. Got \in ClientKex
  BY <1>1 DEF ClientKex, ClientPacket
<1>3. CK = <<Got>> \o CK'
  BY <1>2, ServerRead
<1>4. CK' \in Seq(ClientKex)
  BY PipeTypesNext
<1> DEFINE s == CK  t == CK'  x == Got
<1>5. /\ Len(t) \in Nat /\ Len(s) = Len(t) + 1 /\ s[1] = x
      /\ \A i \in 1 .. Len(t) : t[i] = s[i + 1]
  BY <1>2, <1>3, <1>4, Shifted
<1> HIDE DEF s, t, x
<1>6. (Len(s) = 2 => Len(t) = 1) /\ (Len(s) = 1 => Len(t) = 0) /\ Len(s) \in Nat \ {0}
  <2>1. ASSUME NEW m, NEW n \in Nat, m = n + 1
        PROVE  (m = 2 => n = 1) /\ (m = 1 => n = 0) /\ m \in Nat \ {0}
    BY <2>1
  <2> QED BY ONLY <1>5, <2>1
<1>7. Len(s) = 2 => t[1] = s[2]
  <2>1. Len(t) = 1 => 1 \in 1 .. Len(t) /\ 1 + 1 = 2
    OBVIOUS
  <2> QED BY <1>5, <1>6, <2>1
<1> QED BY <1>5, <1>6, <1>7 DEF s, t, x

\* Another packet changes nothing.
LEMMA ReadData ==
    ASSUME Types, srv.read < Len(toServer), srv'.read = srv.read + 1,
           UNCHANGED <<mainQ, outboundQ, toServer>>, Got.type = "data"
    PROVE  CK' = CK
<1>1. Got \notin ClientKex
  BY DEF ClientKex, KexTypes
<1> QED BY <1>1, ServerRead

LEMMA ServerBeginsCore ==
    ASSUME KeyInv, Types', ServerBegins
    PROVE  Core' /\ CK' = CK
<1>1. Types /\ Stage /\ Numbers /\ SameExchange /\ SameSession /\ Older
  BY DEF KeyInv
<1>2. PICK offer \in ServerOffers :
            /\ Sends([type |-> "kexinit", no |-> srv.begun + 1, offer |-> offer,
                      keys |-> srv.snd])
            /\ srv' = [srv EXCEPT !.phase = "kexinit", !.begun = @ + 1, !.offer = offer]
  BY DEF ServerBegins
<1> DEFINE p == [type |-> "kexinit", no |-> srv.begun + 1, offer |-> offer, keys |-> srv.snd]
<1>3. /\ srv.phase = "idle" /\ UNCHANGED <<mainQ, outboundQ, toServer, inboundQ, tPc, alg, crypto>>
  BY DEF ServerBegins, ClientOnly, queueVars, sendVars, transportVars
<1>4. /\ srv'.phase = "kexinit" /\ srv'.begun = srv.begun + 1 /\ srv'.offer = offer
      /\ srv'.read = srv.read /\ srv'.h = srv.h /\ srv'.session = srv.session
      /\ srv'.rcv = srv.rcv /\ srv'.snd = srv.snd /\ srv'.bad = srv.bad /\ srv'.ic = srv.ic
      /\ srv.begun \in Nat
  BY <1>1, <1>2 DEF Types, ServerTypes, Server
<1>5. CK' = CK
  BY <1>3, <1>4, ClientKept
<1>6. p \in ServerPacket /\ p.type = "kexinit" /\ p.no = srv'.begun /\ p.offer = srv'.offer
  <2>1. offer \in Offers /\ srv.snd \in Keys
    BY <1>1, SizesAssumption DEF Offers, Types, ServerTypes, Server
  <2> QED BY <1>4, <2>1 DEF ServerPacket
<1> HIDE DEF p
<1>7. /\ Len(SK) = 0 => Len(SK') = 1 /\ SK'[1] = p
      /\ Len(SK) = 1 => Len(SK') = 2 /\ SK'[1] = SK[1] /\ SK'[2] = p
  BY <1>1, <1>2, <1>3, <1>6, SentKex DEF p
<1>8. Resting
  BY <1>1, <1>3 DEF Stage, Begun, Negotiating, Asked, Replied, Refused, Accepted
<1>9. Begun'
  <2>1. srv.ic = srv.h.ic
    BY <1>1, <1>3 DEF Numbers
  <2> QED BY <2>1, <1>3, <1>4, <1>5, <1>6, <1>7, <1>8
     DEF Resting, Begun, NoClient, NoServer, OnlyN, IsN, IsK
<1>10. Numbers'
  BY <1>1, <1>3, <1>4 DEF Numbers
<1>11. SameExchange'
  <2>1. ~ Negotiating' /\ ~ Asked'
    BY <1>3, <1>7, <1>8 DEF Negotiating, Asked, Resting, NoServer, OnlyN
  <2> QED BY <1>4, <2>1 DEF SameExchange
<1>12. SameSession'
  BY <1>1, <1>3, <1>4, <1>8 DEF SameSession, Resting
<1>13. Older'
  BY <1>1, <1>3, <1>4 DEF Older
<1> QED BY <1>5, <1>9, <1>10, <1>11, <1>12, <1>13 DEF Core, Stage

LEMMA ServerNegotiatesCore ==
    ASSUME KeyInv, Types', ServerNegotiates
    PROVE  Core' /\ srv'.ic = crypto.ic
<1>1. Types /\ Stage /\ Numbers /\ SameExchange /\ SameSession /\ Older
  BY DEF KeyInv
<1>2. /\ srv.phase # "stopped" /\ srv.read < Len(toServer) /\ Got.type = "kexinit"
      /\ UNCHANGED <<mainQ, outboundQ, toServer, inboundQ, toClient, tPc, alg, crypto>>
  BY DEF ServerNegotiates, ServerReads, Got, ClientOnly, queueVars, sendVars, transportVars
<1>3. /\ srv'.phase = (IF Agree(srv.offer) THEN srv.phase ELSE "stopped")
      /\ srv'.ic = Got.no /\ srv'.read = srv.read + 1
      /\ srv'.begun = srv.begun /\ srv'.offer = srv.offer /\ srv'.h = srv.h
      /\ srv'.session = srv.session /\ srv'.rcv = srv.rcv /\ srv'.snd = srv.snd
      /\ srv'.bad = srv.bad
  BY <1>1 DEF Types, ServerTypes, Server, ServerNegotiates
<1>4. SK' = SK
  BY <1>2, ServerKept
<1>5. /\ Len(CK) \in Nat \ {0} /\ CK[1] = Got
      /\ Len(CK) = 1 => Len(CK') = 0
      /\ Len(CK) = 2 => Len(CK') = 1 /\ CK'[1] = CK[2]
  BY <1>1, <1>2, <1>3, ReadKex
<1>6. CK[1].type = "kexinit" /\ Len(CK) # 0
  BY <1>2, <1>5
<1>7. Negotiating \/ Asked
  BY <1>1, <1>6 DEF Stage, Resting, Begun, Replied, Refused, Accepted, NoClient, IsN
<1>8. srv.phase = "kexinit" /\ KexInitUnread /\ IsC(CK[1]) /\ (Len(CK) = 1 \/ (Asked /\ Len(CK) = 2 /\ IsE(CK[2])))
  BY <1>2, <1>6, <1>7 DEF Negotiating, Asked, KexInitUnread, NoClient, IsC, IsE
<1>9. KexInitRead'
  BY <1>2, <1>3, <1>5, <1>8 DEF KexInitRead, KexInitUnread, IsC, Agree
<1>10. Negotiating \/ ~ (Len(CK) = 1) => Negotiating' \/ Asked'
  <2>1. Negotiating => Len(CK) = 1
    BY <1>6 DEF Negotiating, NoClient
  <2>2. Negotiating => Negotiating'
    BY <1>2, <1>3, <1>4, <1>5, <1>8, <1>9, <2>1 DEF Negotiating, NoClient, IsK
  <2>3. Asked /\ Len(CK) = 2 => Asked'
    BY <1>2, <1>3, <1>4, <1>5, <1>8, <1>9 DEF Asked, NoServer, IsE
  <2> QED BY <1>8, <2>2, <2>3
<1>11. Asked /\ Len(CK) = 1 => Asked'
  BY <1>2, <1>3, <1>4, <1>5, <1>8, <1>9 DEF Asked, NoServer, NoClient
<1>12. Stage'
  BY <1>7, <1>10, <1>11 DEF Stage
<1>13. Numbers' /\ Older'
  BY <1>1, <1>3, <1>8 DEF Numbers, Older
<1>14. srv'.phase # "reply"
  BY <1>3, <1>8
<1>15. SameExchange'
  BY <1>1, <1>2, <1>3, <1>7, <1>14 DEF SameExchange, Agreed
<1>16. SameSession'
  BY <1>1, <1>2, <1>3, <1>8, <1>14 DEF SameSession
<1>17. srv'.ic = crypto.ic
  BY <1>3, <1>5, <1>8 DEF IsC
<1> QED BY <1>12, <1>13, <1>15, <1>16, <1>17 DEF Core

LEMMA ServerRepliesCore ==
    ASSUME KeyInv, Types', ServerReplies
    PROVE  Core' /\ Replied' /\ Len(SK') = 1 /\ Asked /\ NoClient'
<1>1. Types /\ Stage /\ Numbers /\ SameExchange /\ SameSession /\ Older
  BY DEF KeyInv
<1>2. /\ srv.phase # "stopped" /\ srv.read < Len(toServer) /\ Got.type = "kexdh_init"
      /\ UNCHANGED <<mainQ, outboundQ, toServer, inboundQ, tPc, alg, crypto>>
  BY DEF ServerReplies, ServerReads, Got, ClientOnly, queueVars, sendVars, transportVars
<1> DEFINE h == [ic |-> srv.ic, is |-> srv.begun, e |-> Got.no]
<1>3. PICK fault \in Faults :
            /\ Sends([type |-> "kexdh_reply", keys |-> srv.snd, fault |-> fault, signed |-> h])
            /\ srv' = [srv EXCEPT !.read = @ + 1, !.phase = "reply", !.h = h,
                        !.session = SessionOf(@, h),
                        !.bad = IF fault = "none" THEN @ ELSE @ \cup {srv.begun}]
  BY DEF ServerReplies, Faults
<1> DEFINE p == [type |-> "kexdh_reply", keys |-> srv.snd, fault |-> fault, signed |-> h]
<1>4. srv.ic \in Nat /\ srv.begun \in Nat /\ Got.no \in Nat /\ srv.snd \in Keys
  <2>1. srv.read + 1 \in 1 .. Len(toServer) /\ toServer \in Seq(SentPacket)
    BY <1>1, <1>2, SMTT(20) DEF Types, ServerTypes, Server, QueueTypes
  <2>2. toServer[srv.read + 1] \in SentPacket
    BY <2>1
  <2> QED BY <1>1, <2>2 DEF Got, SentPacket, ClientPacket, Types, ServerTypes, Server
<1>5. h \in Hashes /\ h.is = srv.begun
  BY <1>4 DEF Hashes
<1>6. p \in ServerPacket /\ p.type = "kexdh_reply" /\ p.fault = fault /\ p.signed = h
  <2> HIDE DEF h
  <2> QED BY <1>4, <1>5 DEF ServerPacket
<1> HIDE DEF h, p
<1>7. /\ srv'.phase = "reply" /\ srv'.h = h /\ srv'.session = SessionOf(srv.session, h)
      /\ srv'.bad = (IF fault = "none" THEN srv.bad ELSE srv.bad \cup {srv.begun})
      /\ srv'.read = srv.read + 1 /\ srv'.begun = srv.begun /\ srv'.offer = srv.offer
      /\ srv'.ic = srv.ic /\ srv'.rcv = srv.rcv /\ srv'.snd = srv.snd
  BY <1>1, <1>3 DEF Types, ServerTypes, Server
<1>8. /\ Len(CK) \in Nat \ {0} /\ CK[1] = Got /\ (Len(CK) = 1 => Len(CK') = 0)
  BY <1>1, <1>2, <1>7, ReadKex
<1>9. CK[1].type = "kexdh_init" /\ Len(CK) # 0
  BY <1>2, <1>8
<1>10. Asked
  BY <1>1, <1>9 DEF Stage, Resting, Begun, Negotiating, Replied, Refused, Accepted, NoClient,
                    IsN, IsC
<1>11. Len(CK) = 1 /\ IsE(CK[1]) /\ KexInitRead
  <2>1. srv.ic # srv.h.ic
    BY DEF ServerReplies, Negotiated
  <2> QED BY <1>9, <1>10, <2>1 DEF Asked, KexInitUnread, NoClient, IsC
<1>12. srv.phase = "kexinit" /\ tPc = "idle" /\ Agree(srv.offer) /\ srv.ic = crypto.ic
  BY <1>2, <1>10, <1>11 DEF Asked, KexInitRead
<1>13. Len(SK') = 1 /\ SK'[1] = p
  <2>1. Len(SK) = 0
    BY <1>10 DEF Asked, NoServer
  <2>2. Sends(p)
    BY <1>3 DEF p
  <2> QED BY <1>1, <1>2, <1>6, <2>1, <2>2, SentKex
<1>14. srv.bad = {}
  BY <1>1, <1>12 DEF Numbers
<1>15. srv.rcv.h = srv.h /\ srv.snd.h = srv.h /\ srv.h.is = srv.begun - 1 /\ srv.begun > 0
  BY <1>1, <1>12 DEF Numbers, Older
<1>16. srv.h # h
  BY <1>4, <1>5, <1>15
<1>17. IsR(SK[1])'
  <2>1. fault = "none" <=> srv.begun \notin srv'.bad
    BY <1>7, <1>14
  <2> QED BY <1>6, <1>7, <1>13, <2>1 DEF IsR
<1>18. NoClient'
  BY <1>8, <1>11 DEF NoClient
<1>19. Replied'
  BY <1>2, <1>7, <1>12, <1>13, <1>15, <1>16, <1>17, <1>18 DEF Replied
<1>20. Numbers'
  <2>1. h.ic = srv.ic
    BY DEF h
  <2> QED BY <1>1, <1>5, <1>7, <1>14, <1>15, <2>1 DEF Numbers
<1>21. SameExchange'
  <2>1. crypto.is = srv.begun /\ \A l \in Lists : Agreed(l)
    BY <1>1, <1>10 DEF SameExchange
  <2>2. h = exchangeHash
    <3>1. Got.no = crypto.e
      BY <1>8, <1>11 DEF IsE
    <3> QED BY <1>12, <2>1, <3>1 DEF exchangeHash, h
  <2>3. srv'.h = exchangeHash'
    BY <1>2, <1>7, <2>2 DEF exchangeHash
  <2>4. Agree(srv.offer)' /\ \A l \in Lists : alg'[l] = FirstMatch(ClientAlgs[l], srv'.offer[l])
    BY <1>2, <1>7, <1>12, <2>1 DEF Agree, Agreed
  <2>5. ~ Negotiating' /\ ~ Asked'
    BY <1>7 DEF Negotiating, Asked
  <2> QED BY <2>3, <2>4, <2>5 DEF SameExchange
<1>22. SameSession'
  <2>1. h # None
    BY <1>4, <1>5, <1>15 DEF None
  <2>2. crypto.session = srv.session
    BY <1>1, <1>12 DEF SameSession
  <2>3. srv'.session # None /\ (crypto.session = srv'.session
                                \/ (crypto.session = None /\ srv'.session = h))
    BY <1>7, <2>1, <2>2 DEF SessionOf
  <2>4. ~ Accepted'
    BY <1>13, <1>18 DEF Accepted, NoClient, NoServer
  <2> QED BY <1>2, <1>7, <1>12, <2>3, <2>4 DEF SameSession
<1>23. Older'
  BY <1>4, <1>7, <1>15 DEF Older
<1> QED BY <1>10, <1>13, <1>18, <1>19, <1>20, <1>21, <1>22, <1>23 DEF Core, Stage

LEMMA ServerRefusesCore ==
    ASSUME KeyInv, Types', ServerRefuses
    PROVE  Core' /\ Asked /\ Asked' /\ CK' = <<CK[2]>> /\ SK' = SK
<1>1. Types /\ Stage /\ Numbers /\ SameExchange /\ SameSession /\ Older
  BY DEF KeyInv
<1>2. /\ srv.phase # "stopped" /\ srv.read < Len(toServer) /\ Got.type = "kexdh_init"
      /\ srv.ic = srv.h.ic
      /\ UNCHANGED <<mainQ, outboundQ, toServer, inboundQ, toClient, tPc, alg, crypto>>
  BY DEF ServerRefuses, Negotiated, ServerReads, Got, ClientOnly, queueVars, sendVars,
         transportVars
<1>3. /\ srv'.phase = "stopped" /\ srv'.read = srv.read + 1 /\ srv'.ic = srv.ic
      /\ srv'.begun = srv.begun /\ srv'.offer = srv.offer /\ srv'.h = srv.h
      /\ srv'.session = srv.session /\ srv'.rcv = srv.rcv /\ srv'.snd = srv.snd
      /\ srv'.bad = srv.bad
  BY <1>1 DEF Types, ServerTypes, Server, ServerRefuses
<1>4. SK' = SK
  BY <1>2, ServerKept
<1>5. /\ Len(CK) \in Nat \ {0} /\ CK[1] = Got
      /\ Len(CK) = 2 => Len(CK') = 1 /\ CK'[1] = CK[2]
  BY <1>1, <1>2, <1>3, ReadKex
<1>6. CK[1].type = "kexdh_init" /\ Len(CK) # 0
  BY <1>2, <1>5
<1>7. Asked
  BY <1>1, <1>6 DEF Stage, Resting, Begun, Negotiating, Replied, Refused, Accepted, NoClient,
                    IsN, IsC
<1>8. Len(CK) = 2 /\ IsC(CK[2]) /\ srv.phase = "kexinit"
  BY <1>2, <1>6, <1>7 DEF Asked, KexInitRead, KexInitUnread, NoClient, IsC
<1>9. Asked'
  BY <1>2, <1>3, <1>4, <1>5, <1>7, <1>8 DEF Asked, NoServer, IsC
<1>10. Numbers' /\ Older'
  BY <1>1, <1>3, <1>8 DEF Numbers, Older
<1>11. SameExchange'
  BY <1>1, <1>2, <1>3, <1>7 DEF SameExchange, Agreed
<1>12. SameSession'
  BY <1>1, <1>2, <1>3, <1>8 DEF SameSession
<1>13. CK' = <<CK[2]>>
  <2>1. CK' \in Seq(ClientKex) /\ Len(CK') = 1 /\ CK'[1] = CK[2]
    BY <1>5, <1>8, PipeTypesNext
  <2> QED BY <2>1
<1> QED BY <1>4, <1>7, <1>9, <1>10, <1>11, <1>12, <1>13 DEF Core, Stage

LEMMA ServerNewKeysCore ==
    ASSUME KeyInv, Types', ServerNewKeys
    PROVE  Core' /\ CK' = CK /\ (Accepted => Accepted' \/ srv'.phase = "idle")
           /\ (Accepted' => Accepted)
<1>1. Types /\ Stage /\ Numbers /\ SameExchange /\ SameSession /\ Older
  BY DEF KeyInv
<1> DEFINE p == [type |-> "newkeys", keys |-> srv.snd]
<1>2. /\ srv.phase = "reply" /\ srv.snd.h # srv.h /\ Sends(p)
      /\ UNCHANGED <<mainQ, outboundQ, toServer, inboundQ, tPc, alg, crypto>>
  BY DEF ServerNewKeys, ClientOnly, queueVars, sendVars, transportVars
<1>3. p \in ServerPacket /\ p.type = "newkeys"
  BY <1>1 DEF ServerPacket, Types, ServerTypes, Server
<1> HIDE DEF p
<1>4. /\ srv'.snd.h = srv.h /\ srv'.phase = (IF srv.rcv.h = srv.h THEN "idle" ELSE srv.phase)
      /\ srv'.read = srv.read /\ srv'.begun = srv.begun /\ srv'.offer = srv.offer
      /\ srv'.ic = srv.ic /\ srv'.rcv = srv.rcv /\ srv'.h = srv.h
      /\ srv'.session = srv.session /\ srv'.bad = srv.bad
  BY <1>1 DEF Types, ServerTypes, Server, ServerNewKeys, ServerKeys, KeyWith
<1>5. CK' = CK
  BY <1>2, <1>4, ClientKept
<1>6. /\ Len(SK) = 0 => Len(SK') = 1 /\ SK'[1] = p
      /\ Len(SK) = 1 => Len(SK') = 2 /\ SK'[1] = SK[1] /\ SK'[2] = p
  BY <1>1, <1>2, <1>3, SentKex
<1>7. Replied \/ Refused \/ Accepted
  BY <1>1, <1>2 DEF Stage, Resting, Begun, Negotiating, Asked
<1>8. ASSUME Replied PROVE Stage' /\ ~ Accepted' /\ ~ Accepted
  <2>1. Len(SK) = 1 /\ srv.rcv.h # srv.h
    BY <1>2, <1>8 DEF Replied
  <2>2. Replied'
    <3>1. IsR(SK[1])' /\ IsN(SK[2])'
      BY <1>3, <1>4, <1>6, <1>8, <2>1 DEF Replied, IsR, IsN
    <3> QED BY <1>2, <1>4, <1>5, <1>6, <1>8, <2>1, <3>1 DEF Replied, NoClient
  <2>3. ~ Accepted' /\ ~ Accepted /\ srv'.phase = "reply"
    BY <1>2, <1>4, <1>5, <1>6, <1>8, <2>1
       DEF Accepted, Replied, NoClient, NoServer, OnlyN, IsR, IsN
  <2> QED BY <2>2, <2>3 DEF Stage
<1>9. ASSUME Refused PROVE Stage' /\ ~ Accepted' /\ ~ Accepted
  <2>1. Len(SK) = 0 /\ srv.rcv.h # srv.h
    BY <1>2, <1>9 DEF Refused, NoServer
  <2>2. Refused'
    <3>1. OnlyN'
      BY <1>3, <1>6, <2>1 DEF OnlyN, IsN
    <3> QED BY <1>2, <1>4, <1>5, <1>9, <2>1, <3>1 DEF Refused, NoClient
  <2>3. ~ Accepted' /\ ~ Accepted
    BY <1>4, <1>9 DEF Accepted, Refused
  <2> QED BY <2>2, <2>3 DEF Stage
<1>10. ASSUME Accepted PROVE Stage' /\ (Accepted' \/ srv'.phase = "idle")
  <2>1. Len(SK) = 0
    BY <1>2, <1>10 DEF Accepted, NoServer
  <2>2. OnlyN'
    BY <1>3, <1>6, <2>1 DEF OnlyN, IsN
  <2>3. srv.rcv.h # srv.h => Accepted'
    BY <1>2, <1>4, <1>5, <1>10, <2>2 DEF Accepted, IsN
  <2>4. srv.rcv.h = srv.h => Resting'
    BY <1>2, <1>4, <1>5, <1>10, <2>2 DEF Accepted, Resting, NoClient
  <2> QED BY <1>4, <1>10, <2>3, <2>4 DEF Stage
<1>11. Stage' /\ (Accepted' => Accepted) /\ (Accepted => Accepted' \/ srv'.phase = "idle")
  BY <1>7, <1>8, <1>9, <1>10
<1>12. srv'.phase = "idle" => Accepted
  <2>1. Replied \/ Refused => srv.rcv.h # srv.h
    BY DEF Replied, Refused
  <2> QED BY <1>2, <1>4, <1>7, <2>1
<1>13. Numbers'
  <2>1. srv'.phase = "idle" => srv.bad = {}
    BY <1>12 DEF Accepted
  <2> QED BY <1>1, <1>2, <1>4, <2>1 DEF Numbers
<1>14. SameExchange'
  <2>1. ~ Negotiating' /\ ~ Asked'
    BY <1>2, <1>4 DEF Negotiating, Asked
  <2> QED BY <1>1, <1>2, <1>4, <2>1 DEF SameExchange, Agree, exchangeHash
<1>15. SameSession'
  BY <1>1, <1>2, <1>4, <1>11, <1>12 DEF SameSession
<1>16. Older'
  BY <1>1, <1>2, <1>4 DEF Older
<1> QED BY <1>5, <1>11, <1>13, <1>14, <1>15, <1>16 DEF Core

LEMMA ServerReadsNewKeysCore ==
    ASSUME KeyInv, Types', ServerReadsNewKeys
    PROVE  Core' /\ Len(CK') = 0 /\ (srv'.phase = "idle" \/ Accepted')
<1>1. Types /\ Stage /\ Numbers /\ SameExchange /\ SameSession /\ Older
  BY DEF KeyInv
<1>2. /\ srv.read < Len(toServer) /\ Got.type = "newkeys"
      /\ UNCHANGED <<mainQ, outboundQ, toServer, inboundQ, toClient, tPc, alg, crypto>>
  BY DEF ServerReadsNewKeys, ServerReads, Got, ClientOnly, queueVars, sendVars, transportVars
<1>3. Accepted /\ Len(CK) = 1 /\ IsN(CK[1]) /\ srv.rcv.h # srv.h
  BY <1>1, ServerReadsNewKeysIn
<1>4. /\ srv'.rcv.h = srv.h /\ srv'.phase = (IF srv.snd.h = srv.h THEN "idle" ELSE srv.phase)
      /\ srv'.read = srv.read + 1 /\ srv'.begun = srv.begun /\ srv'.offer = srv.offer
      /\ srv'.ic = srv.ic /\ srv'.snd = srv.snd /\ srv'.h = srv.h
      /\ srv'.session = srv.session /\ srv'.bad = srv.bad
  BY <1>1 DEF Types, ServerTypes, Server, ServerReadsNewKeys, ServerKeys, KeyWith
<1>5. Len(CK') = 0
  BY <1>1, <1>2, <1>3, <1>4, ReadKex
<1>6. SK' = SK
  BY <1>2, ServerKept
<1>7. (NoServer' <=> NoServer) /\ (OnlyN' <=> OnlyN)
  BY <1>6 DEF NoServer, OnlyN, IsN
<1>8. srv.phase = "reply" /\ tPc = "idle" /\ srv.bad = {}
      /\ (NoServer \/ (OnlyN /\ srv.snd.h = srv.h))
  BY <1>3 DEF Accepted, NoClient
<1>9. srv.snd.h = srv.h => Resting' /\ srv'.phase = "idle"
  BY <1>2, <1>4, <1>5, <1>7, <1>8 DEF Resting, NoClient
<1>10. srv.snd.h # srv.h => Accepted'
  BY <1>2, <1>4, <1>5, <1>7, <1>8 DEF Accepted, NoClient
<1>11. Numbers' /\ Older'
  BY <1>1, <1>4, <1>8 DEF Numbers, Older
<1>12. SameExchange'
  <2>1. ~ Negotiating' /\ ~ Asked'
    BY <1>4, <1>8 DEF Negotiating, Asked
  <2> QED BY <1>1, <1>2, <1>4, <1>8, <2>1 DEF SameExchange, Agree, exchangeHash
<1>13. SameSession'
  BY <1>1, <1>2, <1>3, <1>4, <1>8 DEF SameSession
<1> QED BY <1>5, <1>9, <1>10, <1>11, <1>12, <1>13 DEF Core, Stage

-----------------------------------------------------------------------------
(* The steps that leave the exchange alone. *)

\* Only one NEWKEYS of the client is under way.
LEMMA NewOnce == Types /\ Stage => ~ (NewUnread(Len(toServer)) /\ NewQueued)
<1> SUFFICES ASSUME Types, Stage, NewUnread(Len(toServer)), NewQueued PROVE FALSE
  OBVIOUS
<1> DEFINE a == Selection(Unread, ClientKex)  b == Selection(outboundQ, ClientKex)
           c == Selection(mainQ, ClientKex)
<1>1. Unread \in Seq(ClientPacket) /\ outboundQ \in Seq(ClientPacket) /\ mainQ \in Seq(ClientPacket)
  BY PipeTypes DEF Types, QueueTypes
<1>2. \A x \in ClientPacket : x.type = "newkeys" => x \in ClientKex
  BY DEF ClientKex, KexTypes
<1>3. \A q \in Seq(ClientPacket) : New(Selection(q, ClientKex)) <=> New(q)
  BY <1>2, NewSelected
<1>4. a \in Seq(ClientKex) /\ b \in Seq(ClientKex) /\ c \in Seq(ClientKex)
  BY PipeTypes
<1>5. New(a)
  BY <1>1, <1>3, NewInUnread
<1>6. New(b) \/ New(c)
  <2>1. New(outboundQ) \/ New(mainQ)
    BY DEF NewQueued, HasNewKeys, New
  <2> QED BY <1>1, <1>3, <2>1
<1>7. CK = (a \o b) \o c
  BY DEF CK, Leaving
<1>8. Len(CK) = 1
  BY NewInCK, NewKeysAlone
<1> HIDE DEF a, b, c
<1>9. \A q \in Seq(ClientKex) : Len(q) \in Nat /\ (New(q) => Len(q) > 0)
  BY DEF New
<1>10. Len((a \o b) \o c) = Len(a) + Len(b) + Len(c)
  BY <1>4
<1> QED BY <1>4, <1>5, <1>6, <1>7, <1>8, <1>9, <1>10

LEMMA RemoveFirst ==
    ASSUME NEW X, NEW q \in Seq(X), q # <<>>
    PROVE  RemoveIt(q, 1) = Tail(q)
<1>1. SubSeq(q, 1, 1 - 1) = <<>>
  BY DEF RemoveIt
<1>2. SubSeq(q, 1 + 1, Len(q)) = Tail(q) /\ Tail(q) \in Seq(X)
  <2> DEFINE u == SubSeq(q, 1 + 1, Len(q))  v == Tail(q)
  <2>1. /\ u \in Seq(X) /\ Len(u) = Len(q) - 1 /\ \A i \in 1 .. Len(q) - 1 : u[i] = q[i + 1]
    <3>1. Len(q) \in Nat \ {0} /\ 1 + 1 = 2
      OBVIOUS
    <3>2. /\ 2 \in 1 .. Len(q) + 1 /\ Len(q) \in 2 - 1 .. Len(q) /\ Len(q) - 2 + 1 = Len(q) - 1
          /\ \A i \in 1 .. Len(q) - 1 : 2 + i - 1 = i + 1
      BY <3>1
    <3>3. /\ SubSeq(q, 2, Len(q)) \in Seq(X)
          /\ Len(SubSeq(q, 2, Len(q))) = Len(q) - 2 + 1
          /\ \A i \in 1 .. Len(q) - 2 + 1 : SubSeq(q, 2, Len(q))[i] = q[2 + i - 1]
      BY <3>2, SubSeqProperties
    <3> QED BY <3>1, <3>2, <3>3
  <2>2. /\ v \in Seq(X) /\ Len(v) = Len(q) - 1 /\ \A i \in 1 .. Len(q) - 1 : v[i] = q[i + 1]
    OBVIOUS
  <2> HIDE DEF u, v
  <2>3. u = v
    BY <2>1, <2>2, SeqEqual
  <2> QED BY <2>2, <2>3 DEF u, v
<1>3. \A s \in Seq(X) : <<>> \o s = s
  OBVIOUS
<1> QED BY <1>1, <1>2, <1>3 DEF RemoveIt

\* What SocketSend takes keeps its place, or goes before the one packet that is there.
LEMMA NextPacketKept ==
    ASSUME Types, Stage, NextPacket
    PROVE  CK' = CK \/ Swapped
<1>1. ssPc = "next" /\ UNCHANGED <<toServer, srv>>
      /\ mainQ \in Seq(ClientPacket) /\ channelQ \in Seq(DataPacket)
      /\ DOMAIN mainQ = 1 .. Len(mainQ)
  BY DEF NextPacket, getNextPacket, Took, Types, QueueTypes
<1>2. \A p \in ClientPacket : IsKex(p) <=> p \in ClientKex
  BY DEF IsKex, ClientKex
<1>3. CASE bInKeyXMode
  <2>3. PICK i \in DOMAIN mainQ :
            FirstKex(i) /\ mainQ' = RemoveIt(mainQ, i) /\ outboundQ' = Append(outboundQ, mainQ[i])
    BY <1>3 DEF NextPacket, getNextPacket, Took
  <2>4. \A j \in DOMAIN mainQ : mainQ[j] \in ClientPacket
    BY <1>1
  <2>5. mainQ[i] \in ClientKex
    BY <1>2, <2>3, <2>4 DEF FirstKex
  <2>6. CASE \A j \in 1 .. i - 1 : mainQ[j] \notin ClientKex
    BY <1>1, <2>3, <2>5, <2>6, TookKex
  <2>7. CASE \E j \in 1 .. i - 1 : mainQ[j] \in ClientKex
    <3>1. PICK k \in 1 .. i - 1 : mainQ[k] \in ClientKex
      BY <2>7
    <3>2. Len(CK) <= 2
      <4>1. Len(CK) = 0 \/ Len(CK) = 1 \/ Len(CK) = 2
        BY DEF Stage, Resting, Begun, Negotiating, Asked, Replied, Refused, Accepted, NoClient
      <4> DEFINE n == Len(CK)
      <4> HIDE DEF n
      <4>2. n = 0 \/ n = 1 \/ n = 2
        BY <4>1 DEF n
      <4>3. n <= 2
        BY ONLY <4>2
      <4> QED BY <4>3 DEF n
    <3> QED BY <1>1, <2>3, <2>5, <3>1, <3>2, TookSecond
  <2> QED BY <2>6, <2>7
<1>4. CASE ~ bInKeyXMode /\ mainQ # <<>> /\ mainQ' = Tail(mainQ) /\ Took(Head(mainQ))
  <2>1. Head(mainQ) \in ClientPacket /\ Head(mainQ) = mainQ[1] /\ 1 \in DOMAIN mainQ
    BY <1>1, <1>4
  <2>2. outboundQ' = Append(outboundQ, Head(mainQ))
    BY <1>4 DEF Took
  <2>3. CASE Head(mainQ) \in ClientKex
    <3>1. mainQ' = RemoveIt(mainQ, 1)
      BY <1>1, <1>4, RemoveFirst
    <3>2. \A j \in 1 .. 1 - 1 : mainQ[j] \notin ClientKex
      OBVIOUS
    <3> QED BY <1>1, <2>1, <2>2, <2>3, <3>1, <3>2, TookKex
  <2>4. CASE Head(mainQ) \notin ClientKex
    <3>1. Selection(mainQ', ClientKex) = Selection(mainQ, ClientKex)
      BY <1>1, <1>4, <2>4, SelectionHead
    <3> QED BY <1>1, <2>1, <2>2, <2>4, <3>1, TookData
  <2> QED BY <2>3, <2>4
<1>5. CASE ~ bInKeyXMode /\ channelQ # <<>> /\ UNCHANGED mainQ /\ Took(Head(channelQ))
  <2>1. Head(channelQ) \in DataPacket
    BY <1>1, <1>5, QueueTypesKept
  <2>2. Head(channelQ) \in ClientPacket /\ Head(channelQ) \notin ClientKex
    BY <2>1 DEF DataPacket, ClientPacket, ClientKex, KexTypes
  <2>3. outboundQ' = Append(outboundQ, Head(channelQ))
    BY <1>5 DEF Took
  <2> QED BY <1>1, <1>5, <2>2, <2>3, TookData
<1> QED BY <1>3, <1>4, <1>5 DEF NextPacket, getNextPacket

-----------------------------------------------------------------------------
(* The keys of the client. *)


LEMMA NewUnreadGrows ==
    ASSUME NEW m \in Int, NEW n \in Int, m <= n, srv.read \in Nat, NewUnread(m)
    PROVE  NewUnread(n)
<1>1. srv.read + 1 .. m \subseteq srv.read + 1 .. n
  OBVIOUS
<1> QED BY <1>1 DEF NewUnread

\* SocketSend's keys stay as long as it sends nothing and the server reads nothing.
LEMMA ToServerKept ==
    ASSUME KeysToServer, UNCHANGED <<toServer, ssCipher>>, srv'.read = srv.read,
           srv'.rcv = srv.rcv, ServerKeys("c2s")' = ServerKeys("c2s"),
           ssNewCipher' = (IF (tPc \in {"cipherSR", "newkeys"} \/ NewQueued)'
                           THEN ServerKeys("c2s") ELSE NoKeys)
    PROVE  KeysToServer'
<1>1. \A n : NewUnread(n)' <=> NewUnread(n)
  BY DEF NewUnread
<1> QED BY <1>1 DEF KeysToServer

LEMMA QueuedAfter ==
    ASSUME Types, Stage, Types', Stage', New(CK') <=> New(CK),
           UNCHANGED toServer, srv'.read = srv.read
    PROVE  NewQueued' <=> NewQueued
<1>1. New(CK) <=> NewUnread(Len(toServer)) \/ NewQueued
  BY NewInCK
<1>2. (Types => (New(CK) <=> NewUnread(Len(toServer)) \/ NewQueued))'
  BY NewInCK, PTL
<1>3. New(CK') <=> NewUnread(Len(toServer))' \/ NewQueued'
  BY <1>2 DEF New
<1>4. ~ (NewUnread(Len(toServer)) /\ NewQueued)
  BY NewOnce
<1>5. (Types /\ Stage => ~ (NewUnread(Len(toServer)) /\ NewQueued))'
  BY NewOnce, PTL
<1>6. ~ (NewUnread(Len(toServer))' /\ NewQueued')
  BY <1>5
<1>7. NewUnread(Len(toServer))' <=> NewUnread(Len(toServer))
  BY DEF NewUnread
<1> QED BY <1>1, <1>3, <1>4, <1>6, <1>7

LEMMA ToServerQuiet ==
    ASSUME KeysToServer, UNCHANGED <<toServer, ssCipher, ssNewCipher>>, srv'.read = srv.read,
           srv'.rcv = srv.rcv, srv'.h = srv.h, srv'.session = srv.session,
           srv'.offer = srv.offer, NewQueued' <=> NewQueued,
           tPc' \in {"cipherSR", "newkeys"} <=> tPc \in {"cipherSR", "newkeys"}
    PROVE  KeysToServer'
<1>1. ServerKeys("c2s")' = ServerKeys("c2s")
  BY DEF ServerKeys
<1> QED BY <1>1, ToServerKept DEF KeysToServer

\* What is queued that is not NEWKEYS does not count.
LEMMA QueuedOther ==
    ASSUME Types, UNCHANGED outboundQ,
           mainQ' = mainQ \/ \E x : mainQ' = Append(mainQ, x) /\ x.type # "newkeys"
    PROVE  NewQueued' <=> NewQueued
<1>1. mainQ \in Seq(ClientPacket)
  BY DEF Types, QueueTypes
<1>2. New(mainQ') <=> New(mainQ)
  <2>1. \A x : New(Append(mainQ, x)) <=> New(mainQ) \/ x.type = "newkeys"
    BY <1>1, NewAppend
  <2>2. CASE mainQ' = mainQ
    BY <2>2
  <2>3. CASE \E x : mainQ' = Append(mainQ, x) /\ x.type # "newkeys"
    <3>1. PICK x : mainQ' = Append(mainQ, x) /\ x.type # "newkeys"
      BY <2>3
    <3> QED BY <2>1, <3>1
  <2> QED BY <2>2, <2>3
<1>3. NewQueued' <=> HasNewKeys' \/ New(mainQ')
  BY DEF NewQueued, New
<1>4. NewQueued <=> HasNewKeys \/ New(mainQ)
  BY DEF NewQueued, New
<1> QED BY <1>2, <1>3, <1>4 DEF HasNewKeys

\* The receiving thread, the user, and Transport where it makes no keys.
LEMMA ReceiveToServer ==
    ASSUME Types, KeysToServer,
           SocketReceive \/ UserQueues \/ ReadMode \/ PacketOverruns \/ NoPacket
             \/ HandleOther \/ HandleNewKeys
             \/ negotiateEncryptions \/ doKeyExchange_step1 \/ doKeyExchange_step2
    PROVE  KeysToServer'
<1> USE DEF queueVars, sendVars, receiveVars, transportVars, newCiphers
<1>1. UNCHANGED <<toServer, ssCipher, ssNewCipher, srv, outboundQ>>
  BY DEF SocketReceive, ReceiveKexInit, endKeyExchange, ReceiveOther, UserQueues, ReadMode, PacketOverruns, NoPacket,
         HandleOther, HandleNewKeys, negotiateEncryptions, doKeyExchange_step1, doKeyExchange_step2
<1>2. mainQ' = mainQ \/ \E x : mainQ' = Append(mainQ, x) /\ x.type # "newkeys"
  <2>1. \A t \in {"data", "kexinit", "kexdh_init"} : Packet(t).type # "newkeys"
    BY DEF Packet
  <2>2. mainQ' = mainQ \/ \E t \in {"data", "kexinit", "kexdh_init"} : mainQ' = Append(mainQ, Packet(t))
    BY DEF SocketReceive, ReceiveKexInit, endKeyExchange, ReceiveOther, UserQueues, ReadMode,
           PacketOverruns, NoPacket, HandleOther, HandleNewKeys, negotiateEncryptions, doKeyExchange_step1,
           doKeyExchange_step2, queueOutboundData
  <2> QED BY <2>1, <2>2
<1>3. NewQueued' <=> NewQueued
  BY <1>1, <1>2, QueuedOther
<1>4. tPc' \in {"cipherSR", "newkeys"} <=> tPc \in {"cipherSR", "newkeys"}
  BY DEF SocketReceive, ReceiveKexInit, endKeyExchange, ReceiveOther, UserQueues, ReadMode, PacketOverruns, NoPacket,
         HandleOther, HandleNewKeys, negotiateEncryptions, doKeyExchange_step1,
         doKeyExchange_step2, Done
<1> QED BY <1>1, <1>3, <1>4, ToServerQuiet

LEMMA ReplyKeys ==
    ASSUME Types, Core, tPc \in {"cipherSS", "cipherSR", "newkeys"}
    PROVE  Replied /\ \A l \in Lists : getCipher(l) = ServerKeys(l)
<1>1. Replied
  BY DEF Core, Stage, Resting, Begun, Negotiating, Asked, Refused, Accepted
<1>2. /\ crypto.h = srv.h /\ crypto.session = srv.session
      /\ \A l \in Lists : alg[l] = FirstMatch(ClientAlgs[l], srv.offer[l])
  BY <1>1 DEF Core, SameExchange, SameSession, Replied
<1> QED BY <1>1, <1>2 DEF getCipher, ServerKeys

LEMMA CipherToServer ==
    ASSUME Types, Core, KeysToServer, SetCipherOfSend \/ SetCipherOfReceive \/ QueueNewKeys
    PROVE  KeysToServer'
<1> USE DEF queueVars, sendVars, receiveVars, transportVars, newCiphers
<1>1. UNCHANGED <<toServer, ssCipher, srv, outboundQ>>
  BY DEF SetCipherOfSend, SetCipherOfReceive, QueueNewKeys
<1>2. ServerKeys("c2s")' = ServerKeys("c2s")
  BY <1>1 DEF ServerKeys
<1>3. CASE SetCipherOfSend
  <2>1. ssNewCipher' = ServerKeys("c2s") /\ tPc' = "cipherSR"
    BY <1>3, ReplyKeys DEF SetCipherOfSend, Lists
  <2> QED BY <1>1, <1>2, <2>1, ToServerKept
<1>4. CASE SetCipherOfReceive
  <2>1. UNCHANGED <<mainQ, ssNewCipher>> /\ tPc = "cipherSR" /\ tPc' = "newkeys"
    BY <1>4 DEF SetCipherOfReceive
  <2> QED BY <1>1, <1>2, <2>1, ToServerKept DEF KeysToServer
<1>5. CASE QueueNewKeys
  <2>1. UNCHANGED ssNewCipher /\ tPc = "newkeys" /\ mainQ' = Append(mainQ, Packet("newkeys"))
    BY <1>5 DEF QueueNewKeys, queueOutboundData
  <2>2. New(mainQ')
    <3>1. mainQ \in Seq(ClientPacket)
      BY DEF Types, QueueTypes
    <3>2. Packet("newkeys").type = "newkeys"
      BY DEF Packet
    <3> QED BY <2>1, <3>1, <3>2, NewAppend
  <2>3. NewQueued'
    BY <2>2 DEF NewQueued, New
  <2> QED BY <1>1, <1>2, <2>1, <2>3, ToServerKept DEF KeysToServer
<1> QED BY <1>3, <1>4, <1>5

LEMMA NextPacketToServer ==
    ASSUME Types, Stage, Types', Stage', KeysToServer, NextPacket
    PROVE  KeysToServer'
<1> USE DEF receiveVars, transportVars, newCiphers
<1>1. UNCHANGED <<toServer, ssCipher, ssNewCipher, srv, tPc>>
  BY DEF NextPacket, getNextPacket, Took
<1>2. CK' = CK \/ Swapped
  BY NextPacketKept
<1>3. New(CK') <=> New(CK)
  <2>1. CASE Swapped
    <3>1. CK \in Seq(ClientKex) /\ Len(CK) = 2
      BY <2>1, PipeTypes DEF Swapped
    <3>2. DOMAIN CK = {1, 2} /\ DOMAIN CK' = {1, 2} /\ CK'[1] = CK[2] /\ CK'[2] = CK[1]
      BY <2>1, <3>1 DEF Swapped
    <3> QED BY <3>2 DEF New
  <2> QED BY <1>2, <2>1
<1>4. NewQueued' <=> NewQueued
  BY <1>1, <1>3, QueuedAfter
<1> QED BY <1>1, <1>4, ToServerQuiet

LEMMA SentFacts ==
    ASSUME Types, combineAndSendPackets
    PROVE  /\ Len(toServer) \in Nat /\ Len(outboundQ) \in Nat
           /\ Len(toServer') = Len(toServer) + Len(outboundQ)
           /\ \A i \in 1 .. Len(toServer) : toServer'[i] = toServer[i]
           /\ \A i \in 1 .. Len(outboundQ) :
                 /\ toServer'[Len(toServer) + i].packet = outboundQ[i]
                 /\ toServer'[Len(toServer) + i].keys = CipherOf(i)
<1>1. outboundQ \in Seq(ClientPacket) /\ toServer \in Seq(SentPacket)
  BY DEF Types, QueueTypes
<1> DEFINE sent == [i \in DOMAIN outboundQ |-> [packet |-> outboundQ[i], keys |-> CipherOf(i)]]
<1>2. toServer' = toServer \o sent
  BY DEF combineAndSendPackets
<1>3. DOMAIN outboundQ = 1 .. Len(outboundQ) /\ Len(outboundQ) \in Nat /\ Len(toServer) \in Nat
  BY <1>1
<1>4. \A i \in 1 .. Len(outboundQ) : sent[i].packet = outboundQ[i] /\ sent[i].keys = CipherOf(i)
  BY <1>3
<1>5. sent \in Seq(SentPacket) /\ Len(sent) = Len(outboundQ)
  <2>1. \A i \in DOMAIN outboundQ : CipherOf(i) \in Keys /\ outboundQ[i] \in ClientPacket
    BY <1>1 DEF Types, CipherTypes, CipherOf
  <2>2. \A i \in DOMAIN outboundQ : sent[i] \in SentPacket
    BY <2>1 DEF SentPacket
  <2> QED BY <1>3, <2>2
<1> HIDE DEF sent
<1>6. /\ Len(toServer') = Len(toServer) + Len(outboundQ)
      /\ \A i \in 1 .. Len(toServer) : toServer'[i] = toServer[i]
      /\ \A i \in 1 .. Len(outboundQ) : toServer'[Len(toServer) + i] = sent[i]
  <2>1. \A u, v \in Seq(SentPacket) :
           /\ Len(u \o v) = Len(u) + Len(v)
           /\ \A i \in 1 .. Len(u) : (u \o v)[i] = u[i]
           /\ \A i \in 1 .. Len(v) : (u \o v)[Len(u) + i] = v[i]
    OBVIOUS
  <2> QED BY ONLY <1>1, <1>2, <1>5, <2>1, Zenon
<1> QED BY <1>3, <1>4, <1>6

LEMMA CombineToServer ==
    ASSUME Types, Stage, Types', Stage', KeysToServer, combineAndSendPackets
    PROVE  KeysToServer'
<1> DEFINE L == Len(toServer)  n == Len(outboundQ)  K == ServerKeys("c2s")  r == srv.read
           Before(k) == \E j \in 1 .. k : outboundQ[j].type = "newkeys"
<1>1. /\ L \in Nat /\ n \in Nat /\ Len(toServer') = L + n
      /\ \A i \in 1 .. L : toServer'[i] = toServer[i]
      /\ \A i \in 1 .. n : toServer'[L + i].packet = outboundQ[i] /\ toServer'[L + i].keys = CipherOf(i)
  BY SentFacts
<1>2. /\ UNCHANGED <<mainQ, srv, tPc>> /\ outboundQ' = <<>>
      /\ IF HasNewKeys THEN ssCipher' = ssNewCipher /\ ssNewCipher' = NoKeys
         ELSE UNCHANGED <<ssCipher, ssNewCipher>>
  BY DEF combineAndSendPackets, queueVars, transportVars
<1>3. r \in Nat /\ r <= L
  BY DEF Types, ServerTypes, Server
<1>4. DOMAIN outboundQ = 1 .. n /\ DOMAIN outboundQ' = {}
  BY <1>2 DEF Types, QueueTypes
<1>5. HasNewKeys <=> Before(n)
  BY <1>4 DEF HasNewKeys
<1>6. ServerKeys("c2s")' = K
  BY <1>2 DEF ServerKeys
<1>7. /\ ssNewCipher = IF tPc \in {"cipherSR", "newkeys"} \/ NewQueued THEN K ELSE NoKeys
      /\ ssCipher = IF NewUnread(L) THEN K ELSE srv.rcv
      /\ \A i \in r + 1 .. L : toServer[i].keys = IF NewUnread(i - 1) THEN K ELSE srv.rcv
  BY DEF KeysToServer
<1>8. \A i \in 1 .. n : CipherOf(i) = IF Before(i - 1) THEN ssNewCipher ELSE ssCipher
  BY DEF CipherOf
<1>9. \A m \in 0 .. L : NewUnread(m)' <=> NewUnread(m)
  <2>1. ASSUME NEW m \in 0 .. L PROVE NewUnread(m)' <=> NewUnread(m)
    <3>1. \A j \in r + 1 .. m : j \in 1 .. L
      BY <1>1, <1>3
    <3> QED BY <1>1, <1>2, <3>1 DEF NewUnread
  <2> QED BY <2>1
<1> DEFINE U(m) == \E j \in r + 1 .. m : toServer'[j].packet.type = "newkeys"
<1>10. \A m : NewUnread(m)' <=> U(m)
  BY <1>2 DEF NewUnread
<1> HIDE DEF L, n, K, r
<1>11. ASSUME NEW k \in 0 .. n PROVE U(L + k) <=> NewUnread(L) \/ Before(k)
  <2>1. U(L) <=> NewUnread(L)
    <3>1. L \in 0 .. L
      BY <1>1
    <3> QED BY <1>9, <1>10, <3>1
  <2>2. ASSUME U(L + k), ~ U(L) PROVE Before(k)
    <3>1. PICK j \in r + 1 .. L + k : toServer'[j].packet.type = "newkeys"
      BY <2>2
    <3>2. j \notin r + 1 .. L
      BY <2>2, <3>1
    <3>3. j - L \in 1 .. k /\ j - L \in 1 .. n /\ L + (j - L) = j
      BY <1>1, <1>3, <3>1, <3>2
    <3>4. outboundQ[j - L] = toServer'[j].packet
      BY <1>1, <3>3
    <3> QED BY <3>1, <3>3, <3>4
  <2>3. U(L) => U(L + k)
    <3>1. r + 1 .. L \subseteq r + 1 .. L + k
      BY <1>1, <1>3
    <3> QED BY <3>1
  <2>4. ASSUME Before(k) PROVE U(L + k)
    <3>1. PICK j \in 1 .. k : outboundQ[j].type = "newkeys"
      BY <2>4
    <3>2. j \in 1 .. n /\ L + j \in r + 1 .. L + k
      BY <1>1, <1>3, <3>1
    <3>3. toServer'[L + j].packet.type = "newkeys"
      BY <1>1, <3>1, <3>2
    <3> QED BY <3>2, <3>3
  <2> QED BY <2>1, <2>2, <2>3, <2>4
<1> HIDE DEF Before, U
<1>12. HasNewKeys => NewQueued /\ ~ NewUnread(L)
  BY NewOnce DEF NewQueued, L
<1>13. HasNewKeys => tPc \notin {"cipherSR", "newkeys"}
  <2>1. NewQueued => New(CK)
    BY NewInCK
  <2> QED BY <1>12, <2>1, NewKeysAlone DEF Accepted
<1>14. NewQueued' <=> NewQueued /\ ~ HasNewKeys
  <2>1. NewQueued' <=> New(mainQ)
    BY <1>2, <1>4 DEF NewQueued, HasNewKeys, New
  <2>2. NewQueued <=> HasNewKeys \/ New(mainQ)
    BY DEF NewQueued, New
  <2>3. (Types /\ Stage => ~ (NewUnread(Len(toServer)) /\ NewQueued))'
    BY NewOnce, PTL
  <2>4. HasNewKeys => NewUnread(Len(toServer))'
    <3>1. n \in 0 .. n
      BY <1>1
    <3>2. HasNewKeys => U(L + n)
      BY <1>5, <1>11, <3>1
    <3>3. NewUnread(Len(toServer))' <=> U(Len(toServer'))
      BY <1>2 DEF NewUnread, U, r
    <3> QED BY <1>1, <3>2, <3>3
  <2> QED BY <2>1, <2>2, <2>3, <2>4
<1>15. ssNewCipher' = IF (tPc \in {"cipherSR", "newkeys"} \/ NewQueued)' THEN K ELSE NoKeys
  BY <1>2, <1>7, <1>12, <1>13, <1>14
<1>16. ssCipher' = IF U(L + n) THEN K ELSE srv.rcv
  <2>1. n \in 0 .. n
    BY <1>1
  <2>2. U(L + n) <=> NewUnread(L) \/ HasNewKeys
    BY <1>5, <1>11, <2>1
  <2> QED BY <1>2, <1>7, <1>12, <2>2
<1>17. ASSUME NEW i \in r + 1 .. L + n
       PROVE  toServer'[i].keys = IF U(i - 1) THEN K ELSE srv.rcv
  <2>1. CASE i <= L
    <3>1. i \in 1 .. L /\ i \in r + 1 .. L /\ i - 1 \in 0 .. L
      BY <1>1, <1>3, <2>1
    <3>2. U(i - 1) <=> NewUnread(i - 1)
      BY <1>9, <1>10, <3>1
    <3> QED BY <1>1, <1>7, <3>1, <3>2
  <2>2. CASE ~ (i <= L)
    <3>1. PICK k \in 1 .. n : i = L + k /\ k - 1 \in 0 .. n /\ i - 1 = L + (k - 1)
      <4>1. i - L \in 1 .. n /\ i = L + (i - L) /\ (i - L) - 1 \in 0 .. n /\ i - 1 = L + ((i - L) - 1)
        BY <1>1, <1>3, <2>2
      <4> QED BY <4>1
    <3>2. U(i - 1) <=> NewUnread(L) \/ Before(k - 1)
      BY <1>11, <3>1
    <3>3. toServer'[i].keys = IF Before(k - 1) THEN ssNewCipher ELSE ssCipher
      BY <1>1, <1>8, <3>1
    <3>4. Before(k - 1) => HasNewKeys
      <4>1. 1 .. k - 1 \subseteq 1 .. n
        BY <1>1, <3>1
      <4> QED BY <1>5, <4>1 DEF Before
    <3> QED BY <1>7, <1>12, <3>2, <3>3, <3>4
  <2> QED BY <2>1, <2>2
<1> QED BY <1>1, <1>2, <1>6, <1>10, <1>15, <1>16, <1>17 DEF KeysToServer, K, r
\* A step of the server that reads no NEWKEYS.
LEMMA ServerStepToServer ==
    ASSUME Types, KeysToServer,
           UNCHANGED <<mainQ, outboundQ, toServer, ssCipher, ssNewCipher, tPc>>,
           srv'.rcv = srv.rcv,
           \/ srv'.read = srv.read
           \/ /\ srv.read < Len(toServer) /\ srv'.read = srv.read + 1
              /\ Got.type # "newkeys",
           tPc \in {"cipherSR", "newkeys"} \/ NewUnread(Len(toServer)) \/ NewQueued =>
             ServerKeys("c2s")' = ServerKeys("c2s")
    PROVE  KeysToServer'
<1> DEFINE L == Len(toServer)  K == ServerKeys("c2s")  r == srv.read
<1>1. r \in Nat /\ r <= L /\ L \in Nat
  BY DEF Types, ServerTypes, Server, QueueTypes
<1>2. /\ ssNewCipher = IF tPc \in {"cipherSR", "newkeys"} \/ NewQueued THEN K ELSE NoKeys
      /\ ssCipher = IF NewUnread(L) THEN K ELSE srv.rcv
      /\ \A i \in r + 1 .. L : toServer[i].keys = IF NewUnread(i - 1) THEN K ELSE srv.rcv
  BY DEF KeysToServer
<1>3. ASSUME NEW n \in Int PROVE NewUnread(n)' <=> NewUnread(n)
  <2>1. CASE srv'.read = srv.read
    BY <2>1 DEF NewUnread
  <2>2. CASE srv'.read = srv.read + 1 /\ Got.type # "newkeys"
    <3>1. \A j \in r + 2 .. n : j \in r + 1 .. n
      BY <1>1
    <3>2. \A j \in r + 1 .. n : toServer[j].packet.type = "newkeys" => j \in r + 2 .. n
      BY <1>1, <2>2 DEF Got
    <3>3. srv'.read + 1 = r + 2
      BY <1>1, <2>2
    <3> QED BY <3>1, <3>2, <3>3 DEF NewUnread
  <2> QED BY <2>1, <2>2
<1>4. NewQueued' <=> NewQueued
  BY DEF NewQueued, HasNewKeys
<1>5. \A i \in r + 1 .. L : NewUnread(i - 1) => NewUnread(L)
  <2>1. \A i \in r + 1 .. L : i - 1 \in Int /\ i - 1 <= L
    BY <1>1
  <2> QED BY <1>1, <2>1, NewUnreadGrows
<1>6. \A i \in srv'.read + 1 .. L : i \in r + 1 .. L /\ i - 1 \in Int
  BY <1>1
<1>7. L \in Int
  BY <1>1
<1> HIDE DEF L, K, r
<1>8. ssNewCipher' = IF (tPc \in {"cipherSR", "newkeys"} \/ NewQueued)' THEN K' ELSE NoKeys
  BY <1>2, <1>4 DEF K, L
<1>9. ssCipher' = IF NewUnread(L)' THEN K' ELSE srv'.rcv
  BY <1>2, <1>3, <1>7 DEF K, L
<1>10. ASSUME NEW i \in srv'.read + 1 .. L
       PROVE  toServer'[i].keys = IF NewUnread(i - 1)' THEN K' ELSE srv'.rcv
  <2>1. i \in r + 1 .. L /\ i - 1 \in Int
    BY <1>6
  <2>2. NewUnread(i - 1)' <=> NewUnread(i - 1)
    BY <1>3, <2>1
  <2> QED BY <1>2, <1>5, <2>1, <2>2 DEF K, L
<1> QED BY <1>8, <1>9, <1>10 DEF KeysToServer, K, L

LEMMA NoNewKeys ==
    ASSUME Types, Stage, srv.phase # "reply"
    PROVE  ~ NewUnread(Len(toServer)) /\ ~ NewQueued
  BY NewInCK, NewKeysAlone DEF Accepted

LEMMA ServerToServer ==
    ASSUME KeyInv, Types', Stage', ServerBegins \/ ServerSendsData \/ ServerAnswers
    PROVE  KeysToServer'
<1>1. Types /\ Stage /\ KeysToServer /\ srv \in Server
  BY DEF KeyInv, Types, ServerTypes
<1>2. UNCHANGED <<mainQ, outboundQ, toServer, ssCipher, ssNewCipher, tPc>>
  BY DEF ServerBegins, ServerSendsData, ServerAnswers, ServerNegotiates, ServerRefuses, ServerReplies,
         ServerNewKeys, ServerReadsNewKeys, ServerReadsData, ServerReads, ClientOnly, queueVars,
         sendVars, transportVars, newCiphers
<1>3. CASE ServerBegins
  <2>1. srv'.read = srv.read /\ srv'.rcv = srv.rcv /\ srv.phase = "idle"
    BY <1>1, <1>3 DEF ServerBegins, Server
  <2>2. ~ NewUnread(Len(toServer)) /\ ~ NewQueued
    BY <1>1, <2>1, NoNewKeys
  <2>3. tPc = "idle"
    BY <1>1, <2>1 DEF Stage, Resting, Begun, Negotiating, Asked, Replied, Refused, Accepted
  <2> QED BY <1>1, <1>2, <2>1, <2>2, <2>3, ServerStepToServer
<1>4. CASE ServerSendsData \/ ServerNewKeys
  <2>1. /\ srv'.read = srv.read /\ srv'.rcv = srv.rcv /\ srv'.h = srv.h
        /\ srv'.session = srv.session /\ srv'.offer = srv.offer
    BY <1>1, <1>4 DEF ServerSendsData, ServerNewKeys, Server
  <2>2. ServerKeys("c2s")' = ServerKeys("c2s")
    BY <2>1 DEF ServerKeys
  <2> QED BY <1>1, <1>2, <2>1, <2>2, ServerStepToServer
<1>5. CASE ServerNegotiates \/ ServerRefuses \/ ServerReadsData
  <2>1. /\ srv'.read = srv.read + 1 /\ srv'.rcv = srv.rcv /\ srv'.h = srv.h
        /\ srv'.session = srv.session /\ srv'.offer = srv.offer
    BY <1>1, <1>5 DEF ServerNegotiates, ServerRefuses, ServerReadsData, Server
  <2>2. srv.read < Len(toServer) /\ Got.type # "newkeys"
    BY <1>5 DEF ServerNegotiates, ServerRefuses, ServerReadsData, ServerReads, Got
  <2>3. ServerKeys("c2s")' = ServerKeys("c2s")
    BY <2>1 DEF ServerKeys
  <2> QED BY <1>1, <1>2, <2>1, <2>2, <2>3, ServerStepToServer
<1>6. CASE ServerReplies
  <2>1. srv'.read = srv.read + 1 /\ srv'.rcv = srv.rcv
    BY <1>1, <1>6 DEF ServerReplies, Server
  <2>2. srv.read < Len(toServer) /\ Got.type # "newkeys"
    BY <1>6 DEF ServerReplies, ServerReads, Got
  <2>3. Asked
    BY <1>6, ServerRepliesCore
  <2>4. ~ NewUnread(Len(toServer)) /\ ~ NewQueued /\ tPc = "idle"
    BY <1>1, <2>3, NoNewKeys DEF Asked
  <2> QED BY <1>1, <1>2, <2>1, <2>2, <2>4, ServerStepToServer
<1>7. CASE ServerReadsNewKeys
  <2> DEFINE L == Len(toServer)  K == ServerKeys("c2s")  r == srv.read
  <2>1. /\ srv'.read = r + 1 /\ srv'.rcv = K /\ srv'.h = srv.h
        /\ srv'.session = srv.session /\ srv'.offer = srv.offer
    BY <1>1, <1>7 DEF ServerReadsNewKeys, Server
  <2>2. r < L /\ r \in Nat /\ L \in Nat /\ Got.type = "newkeys"
    BY <1>1, <1>7 DEF ServerReadsNewKeys, ServerReads, Got, Types, QueueTypes, Server
  <2>3. Len(CK') = 0 /\ Accepted
    BY <1>1, <1>7, ServerReadsNewKeysCore, ServerReadsNewKeysIn
  <2>4. tPc = "idle"
    BY <2>3 DEF Accepted
  <2>5. ~ NewUnread(L)' /\ ~ NewQueued'
    <3>1. (Types => (New(CK) <=> NewUnread(Len(toServer)) \/ NewQueued))'
      BY NewInCK, PTL
    <3>2. ~ New(CK')
      BY <2>3 DEF New
    <3>3. New(CK)' <=> New(CK')
      BY DEF New
    <3> QED BY <3>1, <3>2, <3>3, <1>2
  <2>6. K' = K
    BY <2>1 DEF ServerKeys
  <2>7. NewUnread(L) /\ ~ NewQueued
    <3>1. r + 1 \in r + 1 .. L
      BY <2>2
    <3>2. NewUnread(L)
      BY <2>2, <3>1 DEF NewUnread, Got
    <3> QED BY <1>1, <3>2, NewOnce
  <2>8. ssNewCipher' = NoKeys /\ ssCipher' = K
    BY <1>1, <1>2, <2>4, <2>7 DEF KeysToServer
  <2>9. ASSUME NEW i \in srv'.read + 1 .. L
        PROVE  toServer[i].keys = K /\ ~ NewUnread(i - 1)'
    <3>1. i \in r + 1 .. L /\ r + 1 \in r + 1 .. i - 1 /\ i - 1 \in Int /\ i - 1 <= L
      BY <2>1, <2>2
    <3>2. NewUnread(i - 1)
      BY <2>2, <3>1 DEF NewUnread, Got
    <3>3. NewUnread(i - 1)' => NewUnread(L)'
      <4>1. srv'.read + 1 .. i - 1 \subseteq srv'.read + 1 .. L
        BY <2>1, <2>2, <3>1
      <4> QED BY <4>1, <1>2 DEF NewUnread
    <3> QED BY <1>1, <2>5, <3>1, <3>2, <3>3 DEF KeysToServer
  <2> HIDE DEF K
  <2> QED BY <1>2, <2>1, <2>4, <2>5, <2>6, <2>8, <2>9 DEF KeysToServer, K
<1> QED BY <1>3, <1>4, <1>5, <1>6, <1>7 DEF ServerAnswers
-----------------------------------------------------------------------------
(* The keys of the packets to the client. *)

\* What is read, or sent, without being NEWKEYS leaves the keys of the others.
ClientPipe ==
    \/ toClient' = toClient
    \/ toClient # <<>> /\ Head(toClient).type # "newkeys" /\ toClient' = Tail(toClient)
    \/ \E p \in ServerPacket : p.type # "newkeys" /\ p.keys = srv.snd /\ Sends(p)

KeysOfPackets ==
    \A i \in DOMAIN toClient :
        toClient[i].keys = IF NewBefore(i - 1) THEN srv.snd ELSE srCipher

LEMMA ClientPipeKept ==
    ASSUME Types, ClientPipe, srCipher' = srCipher, srv'.snd = srv.snd, KeysOfPackets,
           ~ HasN => srCipher = srv.snd
    PROVE  (HasN' <=> HasN) /\ KeysOfPackets'
<1> DEFINE B(n) == \E j \in 1 .. n : toClient'[j].type = "newkeys"
<1>1. toClient \in Seq(ServerPacket) /\ Len(toClient) \in Nat /\ DOMAIN toClient = 1 .. Len(toClient)
  BY DEF Types, QueueTypes
<1>2. CASE toClient' = toClient
  BY <1>2 DEF HasN, NewBefore, KeysOfPackets
<1>3. CASE toClient # <<>> /\ Head(toClient).type # "newkeys" /\ toClient' = Tail(toClient)
  <2> DEFINE L == Len(toClient)
  <2>1. /\ L \in Nat /\ L > 0 /\ Len(toClient') = L - 1 /\ DOMAIN toClient' = 1 .. L - 1
        /\ \A i \in 1 .. L - 1 : toClient'[i] = toClient[i + 1]
        /\ toClient[1].type # "newkeys"
    BY <1>1, <1>3
  <2> HIDE DEF L
  <2>2. ASSUME NEW n \in 0 .. L - 1 PROVE B(n) <=> NewBefore(n + 1)
    <3>1. \A j \in 1 .. n : j \in 1 .. L - 1 /\ j + 1 \in 1 .. n + 1
      BY <2>1
    <3>2. \A j \in 1 .. n + 1 : j = 1 \/ (j - 1 \in 1 .. n /\ j - 1 \in 1 .. L - 1 /\ (j - 1) + 1 = j)
      BY <2>1
    <3>3. B(n) => NewBefore(n + 1)
      BY <2>1, <3>1 DEF NewBefore
    <3>4. NewBefore(n + 1) => B(n)
      <4> SUFFICES ASSUME NewBefore(n + 1) PROVE B(n)
        OBVIOUS
      <4>1. PICK j \in 1 .. n + 1 : toClient[j].type = "newkeys"
        BY DEF NewBefore
      <4>2. j - 1 \in 1 .. n /\ j - 1 \in 1 .. L - 1 /\ (j - 1) + 1 = j
        BY <2>1, <3>2, <4>1
      <4>3. toClient'[j - 1] = toClient[j]
        BY <2>1, <4>2
      <4> QED BY <4>1, <4>2, <4>3 DEF NewBefore
    <3> QED BY <3>3, <3>4
  <2>3. HasN' <=> HasN
    <3>1. L - 1 \in 0 .. L - 1 /\ (L - 1) + 1 = L
      BY <2>1
    <3>2. B(L - 1) <=> NewBefore(L)
      BY <2>2, <3>1
    <3>3. HasN' <=> B(L - 1)
      BY <2>1 DEF HasN, NewBefore
    <3> QED BY <3>2, <3>3 DEF HasN, L
  <2>4. ASSUME NEW i \in DOMAIN toClient'
        PROVE  toClient'[i].keys = IF B(i - 1) THEN srv.snd ELSE srCipher
    <3>1. /\ i \in 1 .. L - 1 /\ i - 1 \in 0 .. L - 1 /\ i + 1 \in DOMAIN toClient
          /\ (i - 1) + 1 = i /\ (i + 1) - 1 = i
      BY <1>1, <2>1 DEF L
    <3>2. B(i - 1) <=> NewBefore(i)
      BY <2>2, <3>1
    <3>3. toClient[i + 1].keys = IF NewBefore(i) THEN srv.snd ELSE srCipher
      <4>1. toClient[i + 1].keys = IF NewBefore((i + 1) - 1) THEN srv.snd ELSE srCipher
        BY <3>1 DEF KeysOfPackets
      <4> QED BY <3>1, <4>1
    <3> QED BY <2>1, <3>1, <3>2, <3>3
  <2>5. \A n : NewBefore(n)' <=> B(n)
    BY DEF NewBefore
  <2> QED BY <2>3, <2>4, <2>5 DEF KeysOfPackets
<1>4. CASE \E p \in ServerPacket : p.type # "newkeys" /\ p.keys = srv.snd /\ Sends(p)
  <2> DEFINE L == Len(toClient)
  <2>1. PICK p \in ServerPacket : p.type # "newkeys" /\ p.keys = srv.snd /\ Sends(p)
    BY <1>4
  <2>2. /\ L \in Nat /\ Len(toClient') = L + 1 /\ DOMAIN toClient' = 1 .. L + 1
        /\ toClient'[L + 1] = p /\ \A i \in 1 .. L : toClient'[i] = toClient[i]
    BY <1>1, <2>1 DEF Sends
  <2> HIDE DEF L
  <2>3. ASSUME NEW n \in 0 .. L PROVE B(n) <=> NewBefore(n)
    <3>1. \A j \in 1 .. n : j \in 1 .. L
      BY <2>2
    <3> QED BY <2>2, <3>1 DEF NewBefore
  <2>4. HasN <=> NewBefore(L)
    BY DEF HasN, L
  <2>5. HasN' <=> B(L)
    <3>1. \A j \in 1 .. L : j \in 1 .. L + 1
      BY <2>2
    <3>2. \A j \in 1 .. L + 1 : j = L + 1 \/ j \in 1 .. L
      BY <2>2
    <3> QED BY <2>1, <2>2, <3>1, <3>2 DEF HasN, NewBefore
  <2>6. L \in 0 .. L
    BY <2>2
  <2>7. HasN' <=> HasN
    BY <2>3, <2>4, <2>5, <2>6
  <2>8. ASSUME NEW i \in DOMAIN toClient'
        PROVE  toClient'[i].keys = IF B(i - 1) THEN srv.snd ELSE srCipher
    <3>1. i \in 1 .. L + 1 /\ i - 1 \in 0 .. L
      BY <2>2
    <3>2. B(i - 1) <=> NewBefore(i - 1)
      BY <2>3, <3>1
    <3>3. CASE i = L + 1
      <4>1. i - 1 = L
        BY <2>2, <3>3
      <4> QED BY <2>1, <2>2, <2>4, <3>2, <3>3, <4>1
    <3>4. CASE i # L + 1
      <4>1. i \in 1 .. L /\ i \in DOMAIN toClient
        BY <1>1, <2>2, <3>1, <3>4 DEF L
      <4> QED BY <2>2, <3>2, <4>1 DEF KeysOfPackets
    <3> QED BY <3>3, <3>4
  <2>9. \A n : NewBefore(n)' <=> B(n)
    BY DEF NewBefore
  <2> QED BY <2>7, <2>8, <2>9 DEF KeysOfPackets
<1> QED BY <1>2, <1>3, <1>4 DEF ClientPipe

\* A step that gives SocketRecieve no cipher and takes none.
LEMMA ToClientKept ==
    ASSUME Types, KeysToClient, ClientPipe, UNCHANGED <<srCipher, srNewCipher>>,
           srv'.snd = srv.snd, Ready' <=> Ready, NewCame' => NewCame,
           connected' => connected \/ NewCame,
           srv'.snd.h # srv'.h <=> srv.snd.h # srv.h,
           srv'.phase = "reply" => srv.phase = "reply",
           srv'.phase = "reply" \/ srv.snd.h # srv.h =>
             ServerKeys("s2c")' = ServerKeys("s2c")
    PROVE  KeysToClient'
<1> DEFINE K == ServerKeys("s2c")
<1>1. /\ srv.phase = "reply" /\ srv.snd.h = srv.h => srv.snd = K
      /\ srNewCipher = IF Ready /\ HasN THEN srv.snd
                       ELSE IF Ready /\ srv.snd.h # srv.h THEN K
                       ELSE NoKeys
      /\ HasN => srCipher.h.is < srv.snd.h.is
      /\ ~ HasN => srCipher = srv.snd
      /\ ~ Ready => ~ NewCame
      /\ connected \/ NewCame => srCipher # NoKeys
  BY DEF KeysToClient
<1>2. KeysOfPackets
  BY DEF KeysToClient, KeysOfPackets
<1>3. (HasN' <=> HasN) /\ KeysOfPackets'
  BY <1>1, <1>2, ClientPipeKept
<1>4. srv'.phase = "reply" \/ srv.snd.h # srv.h => K' = K
  OBVIOUS
<1> HIDE DEF K
<1>5. srNewCipher' = IF Ready' /\ HasN' THEN srv'.snd
                     ELSE IF Ready' /\ srv'.snd.h # srv'.h THEN K'
                     ELSE NoKeys
  BY <1>1, <1>3, <1>4
<1>6. /\ srv'.phase = "reply" /\ srv'.snd.h = srv'.h => srv'.snd = K'
      /\ HasN' => srCipher'.h.is < srv'.snd.h.is
      /\ ~ HasN' => srCipher' = srv'.snd
      /\ ~ Ready' => ~ NewCame'
      /\ connected' \/ NewCame' => srCipher' # NoKeys
  BY <1>1, <1>3, <1>4
<1> QED BY <1>3, <1>5, <1>6 DEF KeysToClient, KeysOfPackets, K

LEMMA ReadyKept ==
    ASSUME UNCHANGED <<srv, tPc>>, Accepted' <=> Accepted
    PROVE  Ready' <=> Ready
  BY DEF Ready
-----------------------------------------------------------------------------
(* The steps that leave the exchange alone. *)

LEMMA QuietPackets ==
    ASSUME Types, Handling, Stage,
           \/ SocketReceive \/ HandleOther \/ UserQueues \/ SocketSend
           \/ ServerSendsData \/ ServerReadsData \/ UNCHANGED vars
    PROVE  /\ UNCHANGED <<tPc, alg, crypto>> /\ SameServer
           /\ CK' = CK \/ Swapped
           /\ SK' = SK
<1> USE DEF queueVars, sendVars, receiveVars, transportVars, newCiphers
<1>1. srv \in Server /\ mainQ \in Seq(ClientPacket)
  BY DEF Types, ServerTypes, QueueTypes
<1>2. CASE SocketReceive
  <2>1. UNCHANGED <<tPc, alg, crypto, srv, mainQ, outboundQ, toServer>>
    BY <1>2 DEF SocketReceive, ReceiveKexInit, endKeyExchange, ReceiveOther
  <2>2. (UNCHANGED <<inboundQ, toClient>>) \/ (toClient # <<>> /\ Pass)
    BY <1>2 DEF SocketReceive, ReceiveKexInit, beginKeyExchange, endKeyExchange, ReceiveOther,
                ReadsUnder, Handling
  <2>3. SK' = SK
    BY <2>2, ServerKept, Passed
  <2> QED BY <2>1, <2>3, ClientKept DEF SameServer
<1>3. CASE HandleOther
  <2>1. /\ UNCHANGED <<alg, crypto, srv, mainQ, outboundQ, toServer, toClient>>
        /\ tPc = "idle" /\ tPc' = "idle" /\ inboundQ' = Tail(inboundQ)
        /\ inboundQ # <<>> /\ Head(inboundQ).type = "data"
    BY <1>3 DEF HandleOther, Done, Handles
  <2>2. Head(inboundQ) \notin ServerKex
    BY <2>1 DEF ServerKex
  <2>3. SK' = SK
    BY <2>1, <2>2, Handled
  <2> QED BY <2>1, <2>3, ClientKept DEF SameServer
<1>4. CASE UserQueues
  <2>1. /\ UNCHANGED <<tPc, alg, crypto, srv, outboundQ, toServer, inboundQ, toClient>>
        /\ mainQ' = mainQ \/ mainQ' = Append(mainQ, Packet("data"))
    BY <1>4 DEF UserQueues
  <2>2. Packet("data") \in ClientPacket /\ Packet("data") \notin ClientKex
    BY DEF Packet, ClientPacket, ClientKex, KexTypes, Types, ThreadTypes
  <2>3. CK' = CK
    BY <2>1, <2>2, ClientKept, Queued
  <2> QED BY <2>1, <2>3, ServerKept DEF SameServer
<1>5. CASE ReadMode \/ PacketOverruns \/ NoPacket
  <2>1. UNCHANGED <<tPc, alg, crypto, srv, mainQ, outboundQ, toServer, inboundQ, toClient>>
    BY <1>5 DEF ReadMode, PacketOverruns, NoPacket
  <2> QED BY <2>1, ClientKept, ServerKept DEF SameServer
<1>6. CASE NextPacket
  <2>1. UNCHANGED <<tPc, alg, crypto, srv, inboundQ, toClient>>
    BY <1>6 DEF NextPacket, getNextPacket, Took
  <2> QED BY <1>6, <2>1, NextPacketKept, ServerKept DEF SameServer
<1>7. CASE combineAndSendPackets
  <2>1. UNCHANGED <<tPc, alg, crypto, srv, inboundQ, toClient>>
    BY <1>7 DEF combineAndSendPackets
  <2> QED BY <1>7, <2>1, Combined, ServerKept DEF SameServer
<1>8. CASE ServerSendsData
  <2>1. /\ UNCHANGED <<tPc, alg, crypto, mainQ, outboundQ, toServer, inboundQ>>
        /\ srv'.read = srv.read /\ SameServer
    BY <1>1, <1>8 DEF ServerSendsData, ClientOnly, Server, SameServer
  <2>2. PICK p \in ServerPacket : p \notin ServerKex /\ Sends(p)
    <3> DEFINE p == [type |-> "data", keys |-> srv.snd]
    <3>1. p \in ServerPacket
      BY <1>1 DEF ServerPacket, Server
    <3>2. p \notin ServerKex
      BY DEF ServerKex
    <3> QED BY <1>8, <3>1, <3>2 DEF ServerSendsData
  <2>3. SK' = SK
    BY <2>1, <2>2, Sent
  <2> QED BY <2>1, <2>3, ClientKept
<1>9. CASE ServerReadsData
  <2>1. /\ UNCHANGED <<tPc, alg, crypto, mainQ, outboundQ, toServer, inboundQ, toClient>>
        /\ srv'.read = srv.read + 1 /\ SameServer
    BY <1>1, <1>9 DEF ServerReadsData, ServerReads, ClientOnly, Server, SameServer
  <2>2. srv.read < Len(toServer) /\ Got.type = "data"
    BY <1>9 DEF ServerReadsData, ServerReads, Got
  <2> QED BY <2>1, <2>2, ReadData, ServerKept
<1>10. CASE UNCHANGED vars
  <2>1. UNCHANGED <<tPc, alg, crypto, srv, mainQ, outboundQ, toServer, inboundQ, toClient>>
    BY <1>10 DEF vars
  <2> QED BY <2>1, ClientKept, ServerKept DEF SameServer
<1> QED BY <1>2, <1>3, <1>4, <1>5, <1>6, <1>7, <1>8, <1>9, <1>10 DEF SocketSend

LEMMA QuietCore ==
    ASSUME KeyInv,
           \/ SocketReceive \/ HandleOther \/ UserQueues \/ SocketSend
           \/ ServerSendsData \/ ServerReadsData \/ UNCHANGED vars
    PROVE  /\ Core' /\ (Accepted' <=> Accepted) /\ SameServer /\ tPc' = tPc
           /\ \A l \in Lists : ServerKeys(l)' = ServerKeys(l)
<1>1. Core /\ Stage /\ Types /\ Handling
  BY DEF KeyInv, Core
<1>2. UNCHANGED <<tPc, alg, crypto>> /\ SameServer /\ (CK' = CK \/ Swapped) /\ SK' = SK
  BY <1>1, QuietPackets
<1> QED BY <1>1, <1>2, CoreKept, CoreSwapped

LEMMA CoreNext ==
    ASSUME KeyInv, Types', [Next]_vars
    PROVE  Core'
<1>1. CASE ServerAnswers \/ ServerBegins
  BY <1>1, ServerBeginsCore, ServerNegotiatesCore, ServerRefusesCore, ServerRepliesCore,
     ServerNewKeysCore, ServerReadsNewKeysCore, QuietCore DEF ServerAnswers
<1>2. CASE Transport
  BY <1>2, NegotiateCore, Step1Core, Step2Core, SetCipherCore, QueueNewKeysCore,
     HandleNewKeysCore, QuietCore DEF Transport
<1>3. CASE SocketReceive \/ UserQueues \/ SocketSend \/ ServerSendsData \/ UNCHANGED vars
  BY <1>3, QuietCore
<1> QED BY <1>1, <1>2, <1>3 DEF Next

\* Packets get greater numbers, and the server has the number of the client's KEXINIT.
LEMMA MadeNext ==
    ASSUME KeyInv, Types', [Next]_vars
    PROVE  Made'
<1> USE DEF queueVars, sendVars, receiveVars, transportVars, newCiphers
<1>1. /\ srv.ic \in Nat /\ crypto.ic \in Nat /\ made \in Nat
      /\ srv.ic <= made /\ crypto.ic <= made
      /\ crypto \in [ic : Nat, is : Nat, e : Nat, h : Hashes, session : Hashes] /\ srv \in Server
  BY DEF KeyInv, Made, Types, ThreadTypes, ServerTypes, Server
<1>2. CASE Transport
  <2>1. srv' = srv
    BY <1>2 DEF Transport, negotiateEncryptions, doKeyExchange_step1, doKeyExchange_step2,
         SetCipherOfSend, SetCipherOfReceive, QueueNewKeys, HandleNewKeys, HandleOther
  <2>2. made' \in {made, made + 1} /\ crypto'.ic \in {crypto.ic, made'}
    <3>1. CASE negotiateEncryptions
      BY <1>1, <3>1 DEF negotiateEncryptions, queueOutboundData, setI_S, setI_C
    <3>2. CASE doKeyExchange_step1
      BY <1>1, <3>2 DEF doKeyExchange_step1, queueOutboundData, compute_E
    <3>3. CASE doKeyExchange_step2
      BY <1>1, <3>3 DEF doKeyExchange_step2, computeSessionID
    <3>4. CASE QueueNewKeys
      BY <3>4 DEF QueueNewKeys, queueOutboundData
    <3>5. CASE SetCipherOfSend \/ SetCipherOfReceive \/ HandleNewKeys \/ HandleOther
      BY <3>5 DEF SetCipherOfSend, SetCipherOfReceive, HandleNewKeys, HandleOther
    <3> QED BY <1>2, <3>1, <3>2, <3>3, <3>4, <3>5 DEF Transport
  <2> QED BY <1>1, <2>1, <2>2 DEF Made
<1>3. CASE UserQueues
  <2>1. made' = made + 1 /\ UNCHANGED <<crypto, srv>>
    BY <1>3 DEF UserQueues
  <2> QED BY <1>1, <2>1 DEF Made
<1>4. CASE SocketReceive \/ SocketSend \/ UNCHANGED vars
  <2>1. UNCHANGED <<made, crypto, srv>>
    BY <1>4 DEF SocketReceive, ReceiveKexInit, endKeyExchange, ReceiveOther, SocketSend, ReadMode,
         NextPacket, getNextPacket, Took, PacketOverruns, NoPacket, combineAndSendPackets, vars
  <2> QED BY <1>1, <2>1 DEF Made
<1>5. CASE ServerNegotiates
  <2>1. UNCHANGED <<made, crypto>>
    BY <1>5 DEF ServerNegotiates, ServerReads, ClientOnly
  <2>2. srv'.ic = crypto.ic
    BY <1>5, ServerNegotiatesCore
  <2> QED BY <1>1, <2>1, <2>2 DEF Made
<1>6. CASE ServerBegins \/ ServerSendsData \/ ServerRefuses \/ ServerReplies \/ ServerNewKeys
           \/ ServerReadsNewKeys \/ ServerReadsData
  <2>1. UNCHANGED <<made, crypto>>
    BY <1>6 DEF ServerBegins, ServerSendsData, ServerRefuses, ServerReplies, ServerNewKeys,
         ServerReadsNewKeys, ServerReadsData, ServerReads, ClientOnly
  <2>2. srv'.ic = srv.ic
    BY <1>1, <1>6 DEF ServerBegins, ServerSendsData, ServerRefuses, ServerReplies, ServerNewKeys,
         ServerReadsNewKeys, ServerReadsData, Server
  <2> QED BY <1>1, <2>1, <2>2 DEF Made
<1> QED BY <1>2, <1>3, <1>4, <1>5, <1>6 DEF Next, ServerAnswers

LEMMA ToServerNext ==
    ASSUME KeyInv, Types', Core', [Next]_vars
    PROVE  KeysToServer'
<1>1. Types /\ Core /\ Stage /\ Stage' /\ KeysToServer
  BY DEF KeyInv, Core
<1>2. CASE ServerBegins \/ ServerSendsData \/ ServerAnswers
  BY <1>1, <1>2, ServerToServer
<1>3. CASE Transport
  BY <1>1, <1>3, ReceiveToServer, CipherToServer DEF Transport
<1>4. CASE SocketReceive \/ UserQueues
  BY <1>1, <1>4, ReceiveToServer
<1>5. CASE SocketSend
  BY <1>1, <1>5, ReceiveToServer, NextPacketToServer, CombineToServer DEF SocketSend
<1>6. CASE UNCHANGED vars
  <2>1. UNCHANGED <<toServer, ssCipher, ssNewCipher, srv, mainQ, outboundQ, tPc>>
    BY <1>6 DEF vars, queueVars, sendVars, receiveVars, transportVars, newCiphers
  <2>2. NewQueued' <=> NewQueued
    BY <2>1 DEF NewQueued, HasNewKeys
  <2> QED BY <1>1, <2>1, <2>2, ToServerQuiet
<1> QED BY <1>2, <1>3, <1>4, <1>5, <1>6 DEF Next
LEMMA CameKept ==
    ASSUME Types,
           \/ inboundQ' = inboundQ
           \/ inboundQ # <<>> /\ inboundQ' = Tail(inboundQ)
           \/ \E x : x.type # "newkeys" /\ inboundQ' = Append(inboundQ, x)
    PROVE  NewCame' => NewCame
<1>1. inboundQ \in Seq(ServerPacket)
  BY DEF Types, QueueTypes
<1>2. (NewCame <=> New(inboundQ)) /\ (NewCame' <=> New(inboundQ'))
  BY DEF NewCame, New
<1>3. inboundQ # <<>> => (New(Tail(inboundQ)) => New(inboundQ))
  BY <1>1, NewTail
<1>4. \A x : New(Append(inboundQ, x)) <=> New(inboundQ) \/ x.type = "newkeys"
  BY <1>1, NewAppend
<1> QED BY <1>2, <1>3, <1>4

\* SocketRecieve does not change its cipher.
LEMMA QuietToClient ==
    ASSUME KeyInv,
           \/ ReceiveKexInit \/ ReceiveOther \/ HandleOther \/ UserQueues \/ SocketSend
           \/ ServerSendsData \/ ServerReadsData \/ UNCHANGED vars
           \/ endKeyExchange /\ UNCHANGED <<srCipher, srNewCipher, inboundQ, toClient>>
    PROVE  KeysToClient'
<1> USE DEF queueVars, sendVars, receiveVars, transportVars, newCiphers
<1>1. Types /\ Handling /\ KeysToClient
  BY DEF KeyInv
<1>2. /\ (Accepted' <=> Accepted) /\ SameServer /\ tPc' = tPc
      /\ ServerKeys("s2c")' = ServerKeys("s2c")
  BY QuietCore DEF SocketReceive, Lists
<1>3. Ready' <=> Ready
  BY <1>2 DEF Ready, SameServer
<1>4. UNCHANGED <<srCipher, srNewCipher, connected>>
  BY DEF ReceiveKexInit, beginKeyExchange, ReceiveOther, HandleOther, UserQueues, SocketSend, ReadMode,
         NextPacket, getNextPacket, Took, PacketOverruns, NoPacket, combineAndSendPackets, ServerSendsData,
         ServerReadsData, ServerReads, ClientOnly, vars, endKeyExchange
<1>5. CASE ReceiveKexInit \/ ReceiveOther
  <2>1. (UNCHANGED <<inboundQ, toClient>>)
        \/ (toClient # <<>> /\ Pass /\ Head(toClient).type # "newkeys")
    BY <1>1, <1>5 DEF ReceiveKexInit, beginKeyExchange, ReceiveOther, ReadsUnder, Handling
  <2>2. ClientPipe
    BY <2>1 DEF ClientPipe, Pass
  <2>3. NewCame' => NewCame
    BY <1>1, <2>1, CameKept DEF Pass
  <2> QED BY <1>1, <1>2, <1>3, <1>4, <2>2, <2>3, ToClientKept DEF SameServer
<1>6. CASE HandleOther
  <2>1. inboundQ # <<>> /\ inboundQ' = Tail(inboundQ) /\ UNCHANGED toClient
    BY <1>6 DEF HandleOther, Done, Handles
  <2>2. NewCame' => NewCame
    BY <1>1, <2>1, CameKept
  <2>3. ClientPipe
    BY <2>1 DEF ClientPipe
  <2> QED BY <1>1, <1>2, <1>3, <1>4, <2>2, <2>3, ToClientKept DEF SameServer
<1>7. CASE UserQueues \/ SocketSend \/ ServerReadsData \/ UNCHANGED vars
           \/ (endKeyExchange /\ UNCHANGED <<srCipher, srNewCipher, inboundQ, toClient>>)
  <2>1. UNCHANGED <<inboundQ, toClient>>
    BY <1>7 DEF UserQueues, SocketSend, ReadMode, NextPacket, getNextPacket, Took,
         PacketOverruns, NoPacket, combineAndSendPackets, ServerReadsData, ServerReads, ClientOnly, vars
  <2>2. ClientPipe /\ (NewCame' => NewCame)
    BY <2>1 DEF ClientPipe, NewCame
  <2> QED BY <1>1, <1>2, <1>3, <1>4, <2>2, ToClientKept DEF SameServer
<1>8. CASE ServerSendsData
  <2>1. UNCHANGED inboundQ
    BY <1>8 DEF ServerSendsData, ClientOnly
  <2>2. NewCame' => NewCame
    BY <2>1 DEF NewCame
  <2>3. ClientPipe
    <3> DEFINE p == [type |-> "data", keys |-> srv.snd]
    <3>1. p \in ServerPacket
      BY <1>1 DEF ServerPacket, Server, Types, ServerTypes
    <3>2. p.type # "newkeys" /\ p.keys = srv.snd
      OBVIOUS
    <3>3. Sends(p)
      BY <1>8 DEF ServerSendsData
    <3> HIDE DEF p
    <3> QED BY <3>1, <3>2, <3>3 DEF ClientPipe
  <2> QED BY <1>1, <1>2, <1>3, <1>4, <2>2, <2>3, ToClientKept DEF SameServer
<1> QED BY <1>5, <1>6, <1>7, <1>8

\* While Transport is in an exchange.
LEMMA TransportToClient ==
    ASSUME KeyInv, Types', Core',
           \/ negotiateEncryptions \/ doKeyExchange_step1 \/ doKeyExchange_step2
           \/ SetCipherOfSend \/ QueueNewKeys \/ HandleNewKeys
    PROVE  KeysToClient'
<1> USE DEF queueVars, sendVars, receiveVars, transportVars, newCiphers
<1>1. Types /\ Handling /\ KeysToClient /\ Core /\ Stage
  BY DEF KeyInv, Core
<1>2. UNCHANGED <<srCipher, srNewCipher, toClient, srv>>
  BY DEF negotiateEncryptions, doKeyExchange_step1, doKeyExchange_step2, SetCipherOfSend,
         QueueNewKeys, HandleNewKeys
<1>3. ServerKeys("s2c")' = ServerKeys("s2c") /\ ClientPipe
  BY <1>2 DEF ServerKeys, ClientPipe
<1>4. inboundQ' = inboundQ \/ (inboundQ # <<>> /\ inboundQ' = Tail(inboundQ))
  BY <1>1 DEF negotiateEncryptions, doKeyExchange_step1, doKeyExchange_step2, SetCipherOfSend,
              QueueNewKeys, HandleNewKeys, Done, Handles, Handling
<1>5. NewCame' => NewCame
  BY <1>1, <1>4, CameKept
<1>6. connected' => connected \/ NewCame
  <2>1. HandleNewKeys => NewCame
    <3>1. inboundQ # <<>> /\ inboundQ \in Seq(ServerPacket) =>
            1 \in DOMAIN inboundQ /\ Head(inboundQ) = inboundQ[1]
      OBVIOUS
    <3> QED BY <1>1, <3>1 DEF HandleNewKeys, Handles, NewCame, Types, QueueTypes
  <2>2. ~ HandleNewKeys => UNCHANGED connected
    BY DEF negotiateEncryptions, doKeyExchange_step1, doKeyExchange_step2, SetCipherOfSend,
           QueueNewKeys
  <2> QED BY <2>1, <2>2
<1>7. Ready' <=> Ready
  <2>1. CASE negotiateEncryptions
    <3>1. srv.phase # "reply"
      <4>1. inboundQ # <<>> /\ Head(inboundQ).type = "kexinit" /\ tPc = "idle"
        BY <2>1 DEF negotiateEncryptions, Handles
      <4>2. Head(inboundQ) \in ServerKex
        BY <1>1, <4>1, HeadTypes DEF ServerKex
      <4>3. Begun
        BY <1>1, <4>1, <4>2, StageOfHead
      <4> QED BY <4>3 DEF Begun
    <3> QED BY <1>2, <3>1 DEF Ready
  <2>2. CASE doKeyExchange_step1
    <3>1. srv.phase # "reply"
      BY <1>1, <2>2 DEF doKeyExchange_step1, Stage, Resting, Begun, Negotiating, Asked, Replied,
                        Refused, Accepted
    <3> QED BY <1>2, <3>1 DEF Ready
  <2>3. CASE doKeyExchange_step2 \/ SetCipherOfSend
    <3>1. Replied
      <4>1. CASE doKeyExchange_step2
        <5>1. inboundQ # <<>> /\ Head(inboundQ).type = "kexdh_reply"
          BY <4>1 DEF doKeyExchange_step2, Handles
        <5>2. Head(inboundQ) \in ServerKex
          BY <1>1, <5>1, HeadTypes DEF ServerKex
        <5> QED BY <1>1, <5>1, <5>2, StageOfHead
      <4>2. CASE SetCipherOfSend
        BY <1>1, <4>2, ReplyKeys DEF SetCipherOfSend
      <4> QED BY <2>3, <4>1, <4>2
    <3>2. CK' = CK
      BY <1>2, <2>3, ClientKept DEF doKeyExchange_step2, SetCipherOfSend
    <3>3. tPc # "newkeys" /\ tPc' # "newkeys"
      BY <2>3 DEF doKeyExchange_step2, SetCipherOfSend, Done
    <3>4. ~ Accepted /\ ~ Accepted'
      BY <1>2, <3>1, <3>2 DEF Replied, Accepted, NoClient
    <3> QED BY <1>2, <3>1, <3>3, <3>4 DEF Ready, Replied
  <2>4. CASE QueueNewKeys
    <3>1. Accepted'
      BY <2>4, QueueNewKeysCore
    <3> QED BY <2>4, <3>1 DEF Ready, QueueNewKeys
  <2>5. CASE HandleNewKeys
    <3>1. (Accepted' <=> Accepted) /\ tPc' = tPc
      BY <2>5, HandleNewKeysCore DEF HandleNewKeys, Done
    <3> QED BY <1>2, <3>1 DEF Ready
  <2> QED BY <2>1, <2>2, <2>3, <2>4, <2>5
<1> QED BY <1>1, <1>2, <1>3, <1>5, <1>6, <1>7, ToClientKept
\* One NEWKEYS of the server is under way at most, and in an answered exchange it is
\* the one of that exchange.
LEMMA ServerNewOnce ==
    ASSUME Types, Core
    PROVE  /\ \A i, j \in 1 .. Len(SK) : IsN(SK[i]) /\ IsN(SK[j]) => i = j
           /\ New(SK) => srv.snd.h = srv.h
           /\ Replied /\ srv.snd.h = srv.h => New(SK)
<1>0. \A n \in 0 .. 2 : \A i \in 1 .. n : i = 1 \/ (i = 2 /\ n = 2)
  OBVIOUS
<1>1. SK \in Seq(ServerKex)
  BY PipeTypes
<1>2. /\ DOMAIN SK = 1 .. Len(SK) /\ Len(SK) \in Nat
      /\ New(SK) <=> \E i \in 1 .. Len(SK) : IsN(SK[i])
  BY <1>1 DEF New, IsN
<1>3. Stage /\ (srv.phase # "reply" => srv.snd.h = srv.h)
  BY DEF Core, Older
<1>4. CASE Resting \/ Refused \/ Accepted
  <2>1. NoServer \/ OnlyN
    BY <1>4 DEF Resting, Refused, Accepted
  <2>2. \A i, j \in 1 .. Len(SK) : i = j
    BY <1>2, <2>1 DEF NoServer, OnlyN
  <2>3. New(SK) => srv.snd.h = srv.h
    <3>1. New(SK) => ~ NoServer
      BY <1>2 DEF NoServer
    <3> QED BY <1>3, <1>4, <3>1 DEF Resting, Refused, Accepted
  <2>4. Replied => FALSE
    BY <1>4, <2>1 DEF Resting, Refused, Accepted, Replied, IsR, NoServer, OnlyN, IsN, NoClient
  <2> QED BY <2>2, <2>3, <2>4
<1>5. CASE Begun \/ Negotiating \/ Asked
  <2>1. srv.phase # "reply"
    BY <1>5 DEF Begun, Negotiating, Asked
  <2>2. \A i \in 1 .. Len(SK) : IsN(SK[i]) => i = 1
    <3>1. Len(SK) \in 0 .. 2 /\ (Len(SK) = 2 => ~ IsN(SK[2]))
      BY <1>2, <1>5 DEF Begun, Negotiating, Asked, IsK, IsN, NoServer
    <3>2. \A i \in 1 .. Len(SK) : i = 1 \/ (i = 2 /\ Len(SK) = 2)
      BY <1>0, <3>1
    <3> QED BY <3>1, <3>2
  <2> QED BY <1>3, <2>1, <2>2 DEF Replied
<1>6. CASE Replied
  <2>1. Len(SK) \in 1 .. 2 /\ (Len(SK) = 2 <=> srv.snd.h = srv.h) /\ ~ IsN(SK[1])
    BY <1>6 DEF Replied, IsR, IsN
  <2>2. \A i \in 1 .. Len(SK) : i = 1 \/ (i = 2 /\ Len(SK) = 2)
    <3>1. Len(SK) \in 0 .. 2
      BY <2>1
    <3> QED BY <1>0, <3>1
  <2>3. srv.snd.h = srv.h => 2 \in 1 .. Len(SK) /\ IsN(SK[2])
    BY <1>6, <2>1 DEF Replied
  <2> QED BY <1>2, <2>1, <2>2, <2>3
<1> QED BY <1>3, <1>4, <1>5, <1>6 DEF Stage

LEMMA AnswerNotAccepted == Replied \/ Refused => ~ Accepted
  BY DEF Replied, Refused, Accepted, NoClient

LEMMA SetCipherToClient ==
    ASSUME KeyInv, SetCipherOfReceive
    PROVE  KeysToClient'
<1> DEFINE K == ServerKeys("s2c")
<1>1. Types /\ Core /\ KeysToClient
  BY DEF KeyInv, Core
<1>2. /\ UNCHANGED <<toClient, inboundQ, srCipher, connected, srv>>
      /\ tPc = "cipherSR" /\ tPc' = "newkeys" /\ srNewCipher' = getCipher("s2c")
  BY DEF SetCipherOfReceive, receiveVars
<1>3. Replied /\ getCipher("s2c") = K
  BY <1>1, <1>2, ReplyKeys DEF Lists
<1>4. ~ Ready
  BY <1>2, <1>3 DEF Ready, Accepted, Replied
<1>5. ~ NewCame
  BY <1>1, <1>4 DEF KeysToClient
<1>6. HasN <=> srv.snd.h = srv.h
  <2>1. New(SK) <=> HasN
    BY <1>1, <1>5, NewInSK
  <2> QED BY <1>1, <1>3, <2>1, ServerNewOnce
<1>7. HasN => srv.snd = K
  BY <1>1, <1>3, <1>6 DEF KeysToClient, Replied
<1>8. Ready'
  BY <1>2 DEF Ready
<1>9. K' = K /\ (HasN' <=> HasN) /\ (NewCame' <=> NewCame) /\ \A n : NewBefore(n)' <=> NewBefore(n)
  BY <1>2 DEF ServerKeys, HasN, NewBefore, NewCame
<1> HIDE DEF K
<1>10. srNewCipher' = IF Ready' /\ HasN' THEN srv'.snd
                      ELSE IF Ready' /\ srv'.snd.h # srv'.h THEN K' ELSE NoKeys
  BY <1>2, <1>3, <1>6, <1>7, <1>8, <1>9
<1> QED BY <1>1, <1>2, <1>8, <1>9, <1>10 DEF KeysToClient, K

\* NEWKEYS is read and the new cipher is there: it is what the next packet is made
\* with, and there is no other NEWKEYS behind it.
LEMMA SwitchToClient ==
    ASSUME KeyInv, endKeyExchange, srNewCipher # NoKeys
    PROVE  KeysToClient'
<1> DEFINE K == ServerKeys("s2c")  L == Len(toClient)
<1>1. Types /\ Core /\ KeysToClient /\ Handling
  BY DEF KeyInv, Core
<1>2. toClient # <<>> /\ Head(toClient).type = "newkeys"
  BY <1>1 DEF endKeyExchange, ReadsUnder, Handling
<1>3. /\ UNCHANGED <<srv, tPc, connected>> /\ srCipher' = srNewCipher /\ srNewCipher' = NoKeys /\ Pass
  BY DEF endKeyExchange, transportVars
<1>4. /\ toClient \in Seq(ServerPacket) /\ L \in Nat \ {0} /\ DOMAIN toClient = 1 .. L
      /\ toClient[1].type = "newkeys" /\ Len(toClient') = L - 1 /\ DOMAIN toClient' = 1 .. L - 1
      /\ \A i \in 1 .. L - 1 : toClient'[i] = toClient[i + 1]
  BY <1>1, <1>2, <1>3 DEF Types, QueueTypes, Pass
<1>5. HasN /\ \A n \in 1 .. L : NewBefore(n)
  <2>1. \A n \in 1 .. L : 1 \in 1 .. n
    BY <1>4
  <2>2. L \in 1 .. L
    BY <1>4
  <2> QED BY <1>4, <2>1, <2>2 DEF HasN, NewBefore
<1>6. Ready /\ srNewCipher = srv.snd
  BY <1>1, <1>5 DEF KeysToClient
<1>7. ~ HasN'
  <2> DEFINE a == Selection(inboundQ, ServerKex)  t == Selection(toClient, ServerKex)
             u == Selection(Tail(toClient), ServerKex)  x == Head(toClient)
  <2>1. x \in ServerKex /\ Tail(toClient) \in Seq(ServerPacket)
    BY <1>1, <1>2, HeadTypes DEF ServerKex
  <2>2. t = <<x>> \o u
    BY <1>2, <1>4, <2>1, SelectionHead
  <2>3. a \in Seq(ServerKex) /\ u \in Seq(ServerKex)
    <3>1. \A q \in Seq(ServerPacket) : Selection(q, ServerKex) \in Seq(ServerPacket \cap ServerKex)
      BY SelectionType
    <3>2. ServerPacket \cap ServerKex = ServerKex
      BY DEF ServerKex
    <3> QED BY <1>1, <2>1, <3>1, <3>2, PipeTypes
  <2>4. SK = a \o t
    BY DEF SK
  <2>5. New(u) <=> New(Tail(toClient))
    <3>1. \A y \in ServerPacket : y.type = "newkeys" => y \in ServerKex
      BY DEF ServerKex
    <3> QED BY <2>1, <3>1, NewSelected
  <2>6. HasN' <=> New(Tail(toClient))
    <3>1. toClient' = Tail(toClient)
      BY <1>3 DEF Pass
    <3> QED BY <1>4, <3>1 DEF HasN, NewBefore, New
  <2> HIDE DEF a, t, u, x
  <2>7. ASSUME New(u) PROVE FALSE
    <3>1. PICK k \in 1 .. Len(u) : u[k].type = "newkeys"
      BY <2>3, <2>7 DEF New
    <3>2. /\ t \in Seq(ServerKex) /\ Len(t) = 1 + Len(u) /\ Len(u) \in Nat /\ Len(a) \in Nat
          /\ t[1] = x /\ t[1 + k] = u[k]
      BY <2>1, <2>2, <2>3, <3>1
    <3>3. \A i \in 1 .. Len(t) : SK[Len(a) + i] = t[i]
      BY <2>3, <2>4, <3>2
    <3>4. Len(SK) = Len(a) + Len(t)
      <4>1. \A q, r \in Seq(ServerKex) : Len(q \o r) = Len(q) + Len(r)
        OBVIOUS
      <4> QED BY ONLY <2>3, <2>4, <3>2, <4>1
    <3>5. /\ 1 \in 1 .. Len(t) /\ 1 + k \in 1 .. Len(t)
          /\ Len(a) + 1 \in 1 .. Len(SK) /\ Len(a) + (1 + k) \in 1 .. Len(SK)
          /\ Len(a) + 1 # Len(a) + (1 + k)
      BY <3>1, <3>2, <3>4
    <3>6. IsN(SK[Len(a) + 1]) /\ IsN(SK[Len(a) + (1 + k)])
      BY <1>2, <3>1, <3>2, <3>3, <3>5 DEF IsN, x
    <3> QED BY <1>1, <3>5, <3>6, ServerNewOnce
  <2> QED BY <2>5, <2>6, <2>7
<1>8. srv.snd.h = srv.h
  BY <1>1, <1>5, NewInSK, ServerNewOnce
<1>9. SK' = SK
  BY <1>1, <1>2, <1>3, Passed
<1>10. CK' = CK
  <2>1. UNCHANGED <<mainQ, outboundQ, toServer>> /\ srv'.read = srv.read
    BY <1>3 DEF endKeyExchange, queueVars, sendVars
  <2> QED BY <2>1, ClientKept
<1>11. Ready'
  <2>1. UNCHANGED <<tPc, alg, crypto>> /\ SameServer
    BY <1>3 DEF endKeyExchange, transportVars, SameServer
  <2>2. Accepted' <=> Accepted
    BY <1>1, <1>9, <1>10, <2>1, CoreKept
  <2> QED BY <1>3, <1>6, <2>2 DEF Ready
<1>12. K' = K
  BY <1>3 DEF ServerKeys
<1>13. ASSUME NEW i \in DOMAIN toClient' PROVE toClient'[i].keys = srv.snd
  <2>1. i \in 1 .. L - 1 /\ i + 1 \in 1 .. L /\ i \in 1 .. L /\ (i + 1) - 1 = i
    BY <1>4
  <2>2. toClient[i + 1].keys = IF NewBefore((i + 1) - 1) THEN srv.snd ELSE srCipher
    BY <1>1, <1>4, <2>1 DEF KeysToClient
  <2>3. NewBefore((i + 1) - 1)
    BY <1>5, <2>1
  <2> QED BY <1>4, <2>1, <2>2, <2>3
<1> HIDE DEF K, L
<1>14. srv.phase = "reply" => srv.snd = K
  BY <1>1, <1>8 DEF KeysToClient, K
<1> QED BY <1>3, <1>6, <1>7, <1>8, <1>11, <1>12, <1>13, <1>14 DEF KeysToClient, K
LEMMA GotType ==
    ASSUME Types, srv.read < Len(toServer)
    PROVE  Got \in ClientPacket
<1>1. toServer \in Seq(SentPacket) /\ srv.read \in Nat
  BY DEF Types, QueueTypes, ServerTypes, Server
<1>2. srv.read + 1 \in 1 .. Len(toServer)
  BY <1>1
<1>3. toServer[srv.read + 1] \in SentPacket
  BY <1>1, <1>2
<1> QED BY <1>3 DEF Got, SentPacket

LEMMA ServerBeginsToClient ==
    ASSUME KeyInv, ServerBegins
    PROVE  KeysToClient'
<1>1. Types /\ Core /\ KeysToClient
  BY DEF KeyInv, Core
<1>2. /\ UNCHANGED <<inboundQ, srCipher, srNewCipher, connected>>
      /\ srv.phase = "idle" /\ srv'.phase = "kexinit" /\ srv'.snd = srv.snd /\ srv'.h = srv.h
  BY <1>1 DEF ServerBegins, ClientOnly, transportVars, newCiphers, Types, ServerTypes, Server
<1>3. ClientPipe
  <2>1. PICK offer \in ServerOffers : Sends([type |-> "kexinit", no |-> srv.begun + 1,
                                             offer |-> offer, keys |-> srv.snd])
    BY DEF ServerBegins
  <2> DEFINE p == [type |-> "kexinit", no |-> srv.begun + 1, offer |-> offer, keys |-> srv.snd]
  <2>2. offer \in Offers /\ srv.begun + 1 \in Nat /\ srv.snd \in Keys
    BY <1>1, SizesAssumption DEF Offers, Types, ServerTypes, Server
  <2>3. p \in ServerPacket /\ p.type # "newkeys" /\ p.keys = srv.snd /\ Sends(p)
    BY <2>1, <2>2 DEF ServerPacket
  <2> HIDE DEF p
  <2> QED BY <2>3 DEF ClientPipe
<1>4. srv.snd.h = srv.h
  BY <1>1, <1>2 DEF Core, Older
<1>5. Ready /\ Ready' /\ (NewCame' => NewCame)
  BY <1>2 DEF Ready, NewCame
<1> QED BY <1>1, <1>2, <1>3, <1>4, <1>5, ToClientKept

LEMMA ServerReadsToClient ==
    ASSUME KeyInv, Types', ServerNegotiates \/ ServerRefuses \/ ServerReadsNewKeys
    PROVE  KeysToClient'
<1>1. Types /\ Core /\ Stage /\ KeysToClient
  BY DEF KeyInv, Core
<1>2. /\ UNCHANGED <<toClient, inboundQ, srCipher, srNewCipher, connected, tPc>>
      /\ srv.read < Len(toServer) /\ srv'.snd = srv.snd /\ srv'.h = srv.h
      /\ srv'.session = srv.session /\ srv'.offer = srv.offer
      /\ srv'.phase = "reply" => srv.phase = "reply"
  BY <1>1 DEF ServerNegotiates, ServerRefuses, ServerReadsNewKeys, ServerReads, ClientOnly,
              transportVars, newCiphers, Types, ServerTypes, Server
<1>3. ServerKeys("s2c")' = ServerKeys("s2c") /\ ClientPipe /\ (NewCame' => NewCame)
  BY <1>2 DEF ServerKeys, ClientPipe, NewCame
<1>4. Ready /\ Ready'
  <2>1. CASE ServerNegotiates
    <3>1. Got.type = "kexinit"
      BY <2>1 DEF ServerNegotiates, ServerReads, Got
    <3>2. Got \in ClientKex
      <4>1. Got \in ClientPacket
        BY <1>1, <1>2, GotType
      <4> QED BY <3>1, <4>1 DEF ClientKex, KexTypes
    <3>3. Len(CK) \in Nat \ {0} /\ CK[1].type = "kexinit"
      BY <1>1, <1>2, <3>1, <3>2, GotFirst
    <3>4. srv.phase # "reply"
      BY <1>1, <3>3 DEF Stage, Resting, Begun, Negotiating, Asked, Replied, Refused, Accepted,
                        NoClient, IsN
    <3> QED BY <1>2, <3>4 DEF Ready
  <2>2. CASE ServerReadsNewKeys
    <3>1. Accepted /\ (Accepted' \/ srv'.phase = "idle")
      BY <1>1, <2>2, ServerReadsNewKeysIn, ServerReadsNewKeysCore
    <3> QED BY <3>1 DEF Ready
  <2>3. CASE ServerRefuses
    <3>1. srv.phase # "reply"
      BY <2>3, ServerRefusesCore DEF Asked
    <3> QED BY <1>2, <3>1 DEF Ready
  <2> QED BY <2>1, <2>2, <2>3
<1> QED BY <1>1, <1>2, <1>3, <1>4, ToClientKept

LEMMA ServerRepliesToClient ==
    ASSUME KeyInv, Types', ServerReplies
    PROVE  KeysToClient'
<1>1. Types /\ Core /\ KeysToClient /\ KeysOfPackets
  BY DEF KeyInv, Core, KeysToClient, KeysOfPackets
<1>2. /\ UNCHANGED <<inboundQ, srCipher, srNewCipher, connected, tPc>>
      /\ srv'.snd = srv.snd /\ srv'.rcv = srv.rcv /\ srv'.phase = "reply"
  BY <1>1 DEF ServerReplies, ServerReads, ClientOnly, transportVars, newCiphers, Types,
              ServerTypes, Server
<1>3. Asked /\ Replied' /\ Len(SK') = 1
  BY ServerRepliesCore
<1>4. srv.phase # "reply" /\ tPc = "idle" /\ NoServer
  BY <1>3 DEF Asked
<1>5. ~ HasN /\ ~ NewCame
  <2>1. ~ New(SK)
    <3>1. SK \in Seq(ServerKex)
      BY <1>1, PipeTypes
    <3> QED BY <1>4, <3>1 DEF NoServer, New
  <2> QED BY <1>1, <2>1, NewInSK
<1>6. srNewCipher = NoKeys
  BY <1>1, <1>4, <1>5 DEF KeysToClient, Core, Older
<1>7. srv'.snd.h # srv'.h
  BY <1>3 DEF Replied
<1>8. ~ Ready'
  <2>1. (Replied \/ Refused => ~ Accepted)'
    BY AnswerNotAccepted, PTL
  <2> QED BY <1>2, <1>3, <1>4, <2>1 DEF Ready
<1>9. ClientPipe
  <2>1. Got.no \in Nat
    <3>1. Got \in ClientPacket
      BY <1>1, GotType DEF ServerReplies, ServerReads
    <3> QED BY <3>1 DEF ClientPacket
  <2> DEFINE h == [ic |-> srv.ic, is |-> srv.begun, e |-> Got.no]
             p(f) == [type |-> "kexdh_reply", keys |-> srv.snd, fault |-> f, signed |-> h]
  <2>2. PICK fault \in Faults : Sends(p(fault))
    BY DEF ServerReplies, Faults
  <2>3. h \in Hashes /\ srv.snd \in Keys
    BY <1>1, <2>1 DEF Hashes, Types, ServerTypes, Server
  <2> HIDE DEF h
  <2>4. p(fault) \in ServerPacket /\ p(fault).type # "newkeys" /\ p(fault).keys = srv.snd
    BY <2>3 DEF ServerPacket
  <2> HIDE DEF p
  <2> QED BY <2>2, <2>4 DEF ClientPipe
<1>10. (HasN' <=> HasN) /\ KeysOfPackets'
  BY <1>1, <1>2, <1>9, ClientPipeKept DEF KeysToClient
<1>11. NewCame' <=> NewCame
  BY <1>2 DEF NewCame
<1> QED BY <1>1, <1>2, <1>5, <1>6, <1>7, <1>8, <1>10, <1>11 DEF KeysToClient, KeysOfPackets

LEMMA ServerNewKeysToClient ==
    ASSUME KeyInv, Types', ServerNewKeys
    PROVE  KeysToClient'
<1> DEFINE K == ServerKeys("s2c")  L == Len(toClient)
<1>1. Types /\ Core /\ KeysToClient
  BY DEF KeyInv, Core
<1>2. /\ UNCHANGED <<inboundQ, srCipher, srNewCipher, connected, tPc>>
      /\ srv.phase = "reply" /\ srv.snd.h # srv.h /\ srv'.snd = K /\ K.h = srv.h
      /\ srv'.h = srv.h /\ srv'.rcv = srv.rcv /\ srv'.session = srv.session
      /\ srv'.offer = srv.offer
      /\ srv'.phase = (IF srv.rcv.h = srv.h THEN "idle" ELSE "reply")
      /\ toClient' = Append(toClient, [type |-> "newkeys", keys |-> srv.snd])
  BY <1>1 DEF ServerNewKeys, Sends, ClientOnly, transportVars, newCiphers, Types, ServerTypes,
              Server, ServerKeys, KeyWith
<1>3. ~ HasN /\ ~ NewCame
  BY <1>1, <1>2, NewInSK, ServerNewOnce
<1>4. /\ srCipher = srv.snd /\ srNewCipher = (IF Ready THEN K ELSE NoKeys)
      /\ \A i \in DOMAIN toClient : toClient[i].keys = srCipher
  <2>1. \A i \in DOMAIN toClient : ~ NewBefore(i - 1)
    <3>1. toClient \in Seq(ServerPacket) /\ DOMAIN toClient = 1 .. L /\ L \in Nat
      BY <1>1 DEF Types, QueueTypes
    <3>2. \A i \in 1 .. L : 1 .. i - 1 \subseteq 1 .. L
      BY <3>1
    <3> QED BY <1>3, <3>1, <3>2 DEF HasN, NewBefore
  <2> QED BY <1>1, <1>2, <1>3, <2>1 DEF KeysToClient
<1>5. /\ L \in Nat /\ Len(toClient') = L + 1 /\ DOMAIN toClient' = 1 .. L + 1
      /\ DOMAIN toClient = 1 .. L
      /\ toClient'[L + 1] = [type |-> "newkeys", keys |-> srv.snd]
      /\ \A i \in 1 .. L : toClient'[i] = toClient[i]
  BY <1>1, <1>2 DEF Types, QueueTypes
<1>6. K' = K
  BY <1>2 DEF ServerKeys
<1>7. srv.snd.h.is < srv.h.is
  BY <1>1, <1>2 DEF Core, Older, Numbers
<1>8. Ready' <=> Ready
  <2>1. (Accepted => Accepted' \/ srv'.phase = "idle") /\ (Accepted' => Accepted)
    BY ServerNewKeysCore
  <2>2. srv'.phase = "idle" => Accepted
    <3>1. Replied \/ Refused \/ Accepted
      BY <1>1, <1>2 DEF Core, Stage, Resting, Begun, Negotiating, Asked
    <3> QED BY <1>2, <3>1 DEF Replied, Refused
  <2> QED BY <1>2, <2>1, <2>2 DEF Ready
<1>9. NewCame' <=> NewCame
  BY <1>2 DEF NewCame
<1> HIDE DEF K, L
<1>10. HasN'
  <2>1. L + 1 \in 1 .. L + 1
    BY <1>5
  <2> QED BY <1>5, <2>1 DEF HasN, NewBefore
<1>11. ASSUME NEW i \in DOMAIN toClient'
       PROVE  toClient'[i].keys = srCipher /\ ~ NewBefore(i - 1)'
  <2>1. i \in 1 .. L + 1 /\ (i # L + 1 => i \in 1 .. L) /\ \A j \in 1 .. i - 1 : j \in 1 .. L
    BY <1>5
  <2>2. toClient'[i].keys = srCipher
    BY <1>4, <1>5, <2>1
  <2>3. \A j \in 1 .. L : toClient'[j].type # "newkeys"
    BY <1>3, <1>5 DEF HasN, NewBefore, L
  <2> QED BY <2>1, <2>2, <2>3 DEF NewBefore
<1>12. srNewCipher' = IF Ready' THEN srv'.snd ELSE NoKeys
  BY <1>2, <1>4, <1>8
<1>13. srCipher'.h.is < srv'.snd.h.is
  BY <1>2, <1>4, <1>7
<1>14. ~ NewCame' /\ (connected' => srCipher' # NoKeys)
  BY <1>1, <1>2, <1>3, <1>9 DEF KeysToClient
<1>15. srv'.snd = K'
  BY <1>2, <1>6
<1>16. srv'.snd.h = srv'.h
  BY <1>2
<1> QED BY <1>2, <1>10, <1>11, <1>12, <1>13, <1>14, <1>15, <1>16 DEF KeysToClient, K

LEMMA ToClientNext ==
    ASSUME KeyInv, Types', Core', [Next]_vars
    PROVE  KeysToClient'
<1>1. CASE SocketReceive
  <2>1. CASE endKeyExchange /\ srNewCipher = NoKeys
    BY <2>1, QuietToClient DEF endKeyExchange
  <2>2. CASE endKeyExchange /\ srNewCipher # NoKeys
    BY <2>2, SwitchToClient
  <2> QED BY <1>1, <2>1, <2>2, QuietToClient DEF SocketReceive
<1>2. CASE Transport
  BY <1>2, TransportToClient, SetCipherToClient, QuietToClient DEF Transport
<1>3. CASE SocketSend \/ UserQueues \/ ServerSendsData \/ UNCHANGED vars
  BY <1>3, QuietToClient
<1>4. CASE ServerBegins \/ ServerAnswers
  BY <1>4, ServerBeginsToClient, ServerReadsToClient, ServerRepliesToClient,
     ServerNewKeysToClient, QuietToClient DEF ServerAnswers
<1> QED BY <1>1, <1>2, <1>3, <1>4 DEF Next

LEMMA KeyInvNext == KeyInv /\ [Next]_vars => KeyInv'
<1> SUFFICES ASSUME KeyInv, [Next]_vars PROVE KeyInv'
  OBVIOUS
<1>1. Types' /\ Handling'
  BY TypesNext, HandlingNext DEF KeyInv
<1>2. Core'
  BY <1>1, CoreNext
<1>3. KeysToServer' /\ KeysToClient'
  BY <1>1, <1>2, ToServerNext, ToClientNext
<1>4. Made'
  BY <1>1, MadeNext
<1> QED BY <1>1, <1>2, <1>3, <1>4 DEF KeyInv, Core
-----------------------------------------------------------------------------
(* The invariant, and what follows from it. *)

LEMMA KeyInvInit == Init => KeyInv
<1> SUFFICES ASSUME Init PROVE KeyInv
  OBVIOUS
<1>1. Types
  BY InitTypes
<1>2. /\ mainQ = <<>> /\ outboundQ = <<>> /\ toServer = <<>> /\ inboundQ = <<>>
      /\ toClient = <<>> /\ tPc = "idle" /\ srPc = "read" /\ connected = FALSE
      /\ ssCipher = NoKeys /\ ssNewCipher = NoKeys
      /\ srCipher = NoKeys /\ srNewCipher = NoKeys
      /\ crypto.session = None /\ crypto.ic = 0 /\ made = 0 /\ srv.ic = 0
      /\ srv.phase = "idle" /\ srv.begun = 0 /\ srv.h = None /\ srv.session = None
      /\ srv.rcv = NoKeys /\ srv.snd = NoKeys /\ srv.bad = {} /\ srv.read = 0
  BY DEF Init
<1>3. \A S : Selection(<<>>, S) = <<>>
  BY SelectionEmpty
<1>4. Len(CK) = 0
  <2>1. Unread = <<>>
    <3>1. Unread \in Seq(ClientPacket) /\ Len(Unread) = 0
      BY <1>1, <1>2, PipeTypes
    <3> QED BY <3>1
  <2> QED BY <1>2, <1>3, <2>1 DEF CK, Leaving
<1>5. Len(SK) = 0
  BY <1>2, <1>3 DEF SK
<1>6. Stage
  BY <1>2, <1>4, <1>5 DEF Stage, Resting, NoClient, NoServer
<1>7. NoKeys.h = None /\ None.is = 0
  BY DEF NoKeys, None
<1>8. Numbers /\ SameSession /\ Older
  BY <1>2, <1>7 DEF Numbers, SameSession, Older, None
<1>9. SameExchange
  BY <1>2 DEF SameExchange, Negotiating, Asked
<1>10. ~ NewQueued /\ ~ NewUnread(0) /\ ~ HasN /\ ~ NewCame
  BY <1>2 DEF NewQueued, HasNewKeys, NewUnread, HasN, NewBefore, NewCame
<1>11. KeysToServer
  BY <1>2, <1>10 DEF KeysToServer
<1>12. KeysToClient
  <2>1. toClient = <<>> /\ DOMAIN toClient = {}
    BY <1>2
  <2>2. srNewCipher = NoKeys /\ srv.snd.h = srv.h /\ srCipher = srv.snd /\ srv.phase # "reply"
    BY <1>2, <1>7
  <2> QED BY <1>2, <1>10, <2>1, <2>2 DEF KeysToClient, Ready
<1>13. Handling
  BY <1>2 DEF Handling
<1>14. Made
  BY <1>2 DEF Made
<1> QED BY <1>1, <1>6, <1>8, <1>9, <1>11, <1>12, <1>13, <1>14 DEF KeyInv

LEMMA KeyInvAlways == Spec => []KeyInv
<1>1. KeyInv /\ [Next]_vars => KeyInv'
  BY KeyInvNext
<1> QED BY <1>1, KeyInvInit, PTL DEF Spec

LEMMA KeyInvTypes == KeyInv => TypeOK
<1> SUFFICES ASSUME KeyInv PROVE TypeOK
  OBVIOUS
<1>1. Types /\ Core /\ Stage /\ Handling /\ KeysToServer
  BY DEF KeyInv, Core
<1>2. HasNewKeys => ssNewCipher # NoKeys
  <2> SUFFICES ASSUME HasNewKeys PROVE ssNewCipher # NoKeys
    OBVIOUS
  <2>1. NewQueued
    BY DEF NewQueued
  <2>2. ssNewCipher.h = srv.h
    BY <1>1, <2>1 DEF KeysToServer, ServerKeys, KeyWith
  <2>3. srv.phase = "reply"
    BY <1>1, <2>1, NoNewKeys
  <2>4. srv.h.is > 0
    BY <1>1, <2>3 DEF Core, Numbers
  <2>5. NoKeys.h.is = 0
    BY DEF NoKeys, None
  <2> QED BY <2>2, <2>4, <2>5
<1>3. {ssCipher, ssNewCipher, srCipher, srNewCipher} \subseteq Keys
  BY <1>1 DEF Types, CipherTypes
<1>4. /\ rawBufLeft \in 0 .. RawBufOut /\ ssPc \in {"mode", "next", "send", "overrun"}
      /\ tPc \in {"idle", "step1", "cipherSS", "cipherSR", "newkeys"}
  BY <1>1 DEF Types, ThreadTypes
<1>5. tPc # "idle" => inboundQ # <<>>
  BY <1>1, <1>4 DEF Handling
<1> QED BY <1>2, <1>3, <1>4, <1>5 DEF TypeOK

LEMMA KeyInvSameKeys == KeyInv => SameKeys
<1> SUFFICES ASSUME KeyInv PROVE SameKeys
  OBVIOUS
<1>1. Types /\ KeysToServer /\ KeysToClient
  BY DEF KeyInv
<1>2. ASSUME toClient # <<>> PROVE Head(toClient).keys = srCipher
  <2>1. 1 \in DOMAIN toClient /\ Head(toClient) = toClient[1]
    BY <1>1, <1>2 DEF Types, QueueTypes
  <2>2. ~ NewBefore(1 - 1)
    BY DEF NewBefore
  <2> QED BY <1>1, <2>1, <2>2 DEF KeysToClient
<1>3. ASSUME srv.read < Len(toServer) PROVE toServer[srv.read + 1].keys = srv.rcv
  <2>1. srv.read + 1 \in srv.read + 1 .. Len(toServer)
    BY <1>1, <1>3 DEF Types, ServerTypes, Server, QueueTypes
  <2>2. ~ NewUnread((srv.read + 1) - 1)
    BY <1>1 DEF NewUnread, Types, ServerTypes, Server
  <2> QED BY <1>1, <2>1, <2>2 DEF KeysToServer
<1> QED BY <1>2, <1>3 DEF SameKeys

LEMMA KeyInvSignature == KeyInv => SignatureAccepted
<1> SUFFICES ASSUME KeyInv PROVE SignatureAccepted
  OBVIOUS
<1>1. Types /\ Core /\ Stage /\ KeysToServer /\ KeysToClient
  BY DEF KeyInv, Core
<1>2. connected => srCipher # NoKeys
  BY <1>1 DEF KeysToClient
<1>3. ASSUME srv.bad # {}
      PROVE  \A c \in {ssCipher, ssNewCipher, srCipher, srNewCipher} : c.h.is \notin srv.bad
  <2>1. srv.bad \subseteq {srv.begun} /\ srv.phase = "reply" /\ srv.begun > 0
        /\ srv.h.is = srv.begun /\ srv.begun \in Nat
    BY <1>1, <1>3 DEF Core, Numbers, Types, ServerTypes, Server
  <2>2. (Replied /\ tPc = "idle") \/ Refused
    BY <1>1, <1>3, <2>1 DEF Stage, Resting, Begun, Negotiating, Asked, Replied, Accepted
  <2>3. tPc = "idle" /\ srv.rcv.h # srv.h /\ ~ Accepted
    BY <2>2, AnswerNotAccepted DEF Refused, Replied
  <2>4. ~ NewUnread(Len(toServer)) /\ ~ NewQueued
    BY <1>1, <2>3, NewInCK, NewKeysAlone
  <2>5. NoKeys.h.is = 0
    BY DEF NoKeys, None
  <2>6. ssNewCipher = NoKeys /\ ssCipher = srv.rcv
    BY <1>1, <2>3, <2>4 DEF KeysToServer
  <2>7. srv.rcv.h.is < srv.begun
    BY <1>1, <2>3 DEF Core, Older
  <2>8. ~ Ready
    BY <2>1, <2>3 DEF Ready
  <2>9. srNewCipher = NoKeys /\ ~ NewCame
    BY <1>1, <2>8 DEF KeysToClient
  <2>10. srCipher.h.is < srv.begun
    <3>1. /\ srCipher \in Keys /\ srv.snd \in Keys
      BY <1>1 DEF Types, CipherTypes, ServerTypes, Server
    <3>2. srCipher.h.is \in Nat /\ srv.snd.h.is \in Nat
      BY <3>1 DEF Keys, Hashes
    <3>3. srv.snd.h.is <= srv.begun /\ (srv.snd.h # srv.h => srv.snd.h.is < srv.begun)
      BY <1>1, <2>1, <3>2 DEF Core, Older
    <3>4. CASE HasN
      <4>1. srCipher.h.is < srv.snd.h.is
        BY <1>1, <3>4 DEF KeysToClient
      <4> QED BY <2>1, <3>2, <3>3, <4>1
    <3>5. CASE ~ HasN
      <4>1. ~ New(SK)
        BY <1>1, <2>9, <3>5, NewInSK
      <4>2. srv.snd.h # srv.h
        <5>1. Refused /\ srv.snd.h = srv.h => New(SK)
          <6>1. SK \in Seq(ServerKex)
            BY <1>1, PipeTypes
          <6> QED BY <6>1 DEF Refused, OnlyN, IsN, New
        <5> QED BY <1>1, <2>2, <4>1, <5>1, ServerNewOnce
      <4>3. srCipher = srv.snd
        BY <1>1, <3>5 DEF KeysToClient
      <4> QED BY <3>3, <4>2, <4>3
    <3> QED BY <3>4, <3>5
  <2>11. ssCipher \in Keys /\ srv.rcv \in Keys
    BY <1>1 DEF Types, CipherTypes, ServerTypes, Server
  <2>12. \A n \in {ssCipher.h.is, ssNewCipher.h.is, srCipher.h.is, srNewCipher.h.is} : n # srv.begun
    BY <2>1, <2>5, <2>6, <2>7, <2>9, <2>10
  <2> QED BY <2>1, <2>12
<1> QED BY <1>2, <1>3 DEF SignatureAccepted

\* The types of the state, and what the handlers rely on: a cipher is replaced only by
\* one that is there, and the packet of a handler stays at the head of the queue.
THEOREM KeyExchangeTypes == Spec => []TypeOK
  BY KeyInvAlways, KeyInvTypes, PTL

\* Both sides change their keys at NEWKEYS, in each direction, to keys of the same
\* exchange and session: whoever reads next holds the keys of the packet.
THEOREM SameKeysAlways == Spec => []SameKeys
  BY KeyInvAlways, KeyInvSameKeys, PTL

\* No cipher comes of an exchange whose signature was refused, and connectUp does not
\* come back before one was accepted.
THEOREM SignatureAlways == Spec => []SignatureAccepted
  BY KeyInvAlways, KeyInvSignature, PTL

-----------------------------------------------------------------------------
(* Nothing but the exchange leaves: all the packets that left their queues. *)

Packets(s) == [i \in DOMAIN s |-> s[i].packet]
Taken == Packets(toServer) \o outboundQ

Closed(w, i, m) == \E j \in i .. m : w[j].type = "newkeys"
Quiet(w) ==
    \A i, m \in DOMAIN w :
        i < m /\ w[i].type = "kexinit" /\ ~ IsKex(w[m]) => Closed(w, i, m)
Open(w) == \E i \in DOMAIN w : w[i].type = "kexinit" /\ ~ Closed(w, i, Len(w))

Has(q, type) == \E i \in DOMAIN q : q[i].type = type

\* SocketSend is told of an exchange before anything else happens in it, and sees it
\* before it takes a packet after its own KEXINIT.
Told ==
    /\ Open(Taken) => keyXMode /\ (ssPc = "next" => bInKeyXMode)
    /\ Has(mainQ, "kexinit") \/ Has(inboundQ, "kexinit") \/ srPc = "enqueue" => keyXMode
QuietInv == Quiet(Taken) /\ Told

LEMMA LeftTypes ==
    Types => /\ Packets(toServer) \in Seq(ClientPacket) /\ outboundQ \in Seq(ClientPacket)
             /\ Taken \in Seq(ClientPacket) /\ Len(Packets(toServer)) = Len(toServer)
<1> SUFFICES ASSUME Types PROVE LeftTypes!2
  OBVIOUS
<1>1. toServer \in Seq(SentPacket) /\ outboundQ \in Seq(ClientPacket)
  BY DEF Types, QueueTypes
<1>2. Packets(toServer) \in Seq(ClientPacket) /\ Len(Packets(toServer)) = Len(toServer)
  <2>1. DOMAIN toServer = 1 .. Len(toServer) /\ Len(toServer) \in Nat
    BY <1>1
  <2>2. \A i \in 1 .. Len(toServer) : toServer[i].packet \in ClientPacket
    <3>1. \A i \in 1 .. Len(toServer) : toServer[i] \in SentPacket
      BY <1>1
    <3> QED BY <3>1 DEF SentPacket
  <2>3. Packets(toServer) = [i \in 1 .. Len(toServer) |-> toServer[i].packet]
    BY <2>1 DEF Packets
  <2> QED BY <2>1, <2>2, <2>3
<1> HIDE DEF Packets
<1> QED BY <1>1, <1>2 DEF Taken

LEMMA OpenAppend ==
    ASSUME NEW w \in Seq(ClientPacket), NEW x \in ClientPacket
    PROVE  /\ Quiet(w) /\ (IsKex(x) \/ ~ Open(w)) => Quiet(Append(w, x))
           /\ Open(Append(w, x)) => x.type # "newkeys" /\ (x.type = "kexinit" \/ Open(w))
<1> DEFINE v == Append(w, x)  n == Len(w)
<1>1. /\ n \in Nat /\ DOMAIN w = 1 .. n /\ DOMAIN v = 1 .. n + 1 /\ Len(v) = n + 1
      /\ v[n + 1] = x /\ \A i \in 1 .. n : v[i] = w[i]
  OBVIOUS
<1> HIDE DEF v, n
<1>2. ASSUME NEW i \in 1 .. n, NEW m \in 1 .. n PROVE Closed(v, i, m) <=> Closed(w, i, m)
  <2>1. \A j \in i .. m : j \in 1 .. n
    BY <1>1
  <2> QED BY <1>1, <2>1 DEF Closed
<1>3. ASSUME NEW i \in 1 .. n
      PROVE  Closed(v, i, n + 1) <=> Closed(w, i, n) \/ x.type = "newkeys"
  <2>1. /\ \A j \in i .. n : j \in i .. n + 1 /\ j \in 1 .. n
        /\ \A j \in i .. n + 1 : j = n + 1 \/ j \in i .. n
        /\ n + 1 \in i .. n + 1
    BY <1>1
  <2> QED BY <1>1, <2>1 DEF Closed
<1>4. ASSUME Quiet(w), IsKex(x) \/ ~ Open(w) PROVE Quiet(v)
  <2> SUFFICES ASSUME NEW i \in 1 .. n + 1, NEW m \in 1 .. n + 1,
                      i < m, v[i].type = "kexinit", ~ IsKex(v[m])
               PROVE  Closed(v, i, m)
    BY <1>1 DEF Quiet
  <2>1. i \in 1 .. n
    BY <1>1
  <2>2. CASE m \in 1 .. n
    BY <1>1, <1>2, <1>4, <2>1, <2>2 DEF Quiet
  <2>3. CASE m = n + 1
    <3>1. ~ Open(w)
      BY <1>1, <1>4, <2>3
    <3>2. Closed(w, i, n)
      BY <1>1, <2>1, <3>1 DEF Open, n
    <3> QED BY <1>3, <2>1, <2>3, <3>2
  <2> QED BY <1>1, <2>2, <2>3
<1>5. ASSUME Open(v) PROVE x.type # "newkeys" /\ (x.type = "kexinit" \/ Open(w))
  <2>1. PICK i \in 1 .. n + 1 : v[i].type = "kexinit" /\ ~ Closed(v, i, n + 1)
    BY <1>1, <1>5 DEF Open
  <2>2. n + 1 \in i .. n + 1
    BY <1>1, <2>1
  <2>3. x.type # "newkeys"
    BY <1>1, <2>1, <2>2 DEF Closed
  <2>4. CASE i = n + 1
    BY <1>1, <2>1, <2>3, <2>4
  <2>5. CASE i # n + 1
    <3>1. i \in 1 .. n
      BY <1>1, <2>1, <2>5
    <3>2. w[i].type = "kexinit" /\ ~ Closed(w, i, n)
      BY <1>1, <1>3, <2>1, <3>1
    <3> QED BY <1>1, <2>3, <3>1, <3>2 DEF Open, n
  <2> QED BY <2>4, <2>5
<1> QED BY <1>4, <1>5 DEF v

LEMMA HasAppend ==
    ASSUME NEW X, NEW q \in Seq(X), NEW x, NEW type
    PROVE  Has(Append(q, x), type) <=> Has(q, type) \/ x.type = type
<1>1. /\ DOMAIN Append(q, x) = 1 .. Len(q) + 1 /\ DOMAIN q = 1 .. Len(q) /\ Len(q) \in Nat
      /\ Append(q, x)[Len(q) + 1] = x /\ \A i \in 1 .. Len(q) : Append(q, x)[i] = q[i]
  OBVIOUS
<1>2. /\ \A i \in 1 .. Len(q) : i \in 1 .. Len(q) + 1
      /\ \A i \in 1 .. Len(q) + 1 : i = Len(q) + 1 \/ i \in 1 .. Len(q)
      /\ Len(q) + 1 \in 1 .. Len(q) + 1
  BY <1>1
<1>3. ASSUME Has(q, type) PROVE Has(Append(q, x), type)
  BY <1>1, <1>2, <1>3 DEF Has
<1>4. ASSUME x.type = type PROVE Has(Append(q, x), type)
  BY <1>1, <1>2, <1>4 DEF Has
<1>5. ASSUME Has(Append(q, x), type) PROVE Has(q, type) \/ x.type = type
  BY <1>1, <1>2, <1>5 DEF Has
<1> QED BY <1>3, <1>4, <1>5

LEMMA HasTail ==
    ASSUME NEW X, NEW q \in Seq(X), q # <<>>, NEW type
    PROVE  /\ Has(Tail(q), type) => Has(q, type)
           /\ Head(q).type = type => Has(q, type)
<1>1. /\ DOMAIN q = 1 .. Len(q) /\ Len(q) \in Nat \ {0} /\ DOMAIN Tail(q) = 1 .. Len(q) - 1
      /\ Head(q) = q[1] /\ \A i \in 1 .. Len(q) - 1 : Tail(q)[i] = q[i + 1]
  OBVIOUS
<1>2. \A i \in 1 .. Len(q) - 1 : i + 1 \in 1 .. Len(q)
  BY <1>1
<1> QED BY <1>1, <1>2 DEF Has

LEMMA HasRemoved ==
    ASSUME NEW X, NEW q \in Seq(X), NEW i \in DOMAIN q, NEW type
    PROVE  Has(RemoveIt(q, i), type) => Has(q, type)
<1> DEFINE a == SubSeq(q, 1, i - 1)  b == SubSeq(q, i + 1, Len(q))
<1>1. i \in 1 .. Len(q) /\ Len(q) \in Nat
  OBVIOUS
<1>2. a \in Seq(X) /\ Len(a) = i - 1 /\ \A j \in 1 .. i - 1 : a[j] = q[j]
  BY <1>1, SubSeqProperties
<1>3. b \in Seq(X) /\ Len(b) = Len(q) - i /\ \A j \in 1 .. Len(q) - i : b[j] = q[i + j]
  <2>1. CASE i < Len(q)
    <3>1. /\ Len(b) = (Len(q) - (i + 1)) + 1
          /\ \A j \in 1 .. (Len(q) - (i + 1)) + 1 : b[j] = q[(i + 1) + j - 1]
          /\ b \in Seq(X)
      BY <1>1, <2>1, SubSeqProperties
    <3>2. (Len(q) - (i + 1)) + 1 = Len(q) - i /\ \A j \in 1 .. Len(q) - i : (i + 1) + j - 1 = i + j
      BY <1>1
    <3> QED BY <3>1, <3>2
  <2>2. CASE i = Len(q)
    BY <1>1, <2>2
  <2> QED BY <1>1, <2>1, <2>2
<1> HIDE DEF a, b
<1>4. /\ DOMAIN (a \o b) = 1 .. Len(a) + Len(b)
      /\ \A j \in 1 .. Len(a) : (a \o b)[j] = a[j]
      /\ \A j \in 1 .. Len(b) : (a \o b)[Len(a) + j] = b[j]
  <2>1. a \in Seq(X) /\ b \in Seq(X)
    BY <1>2, <1>3
  <2> QED BY ONLY <2>1
<1>5. ASSUME NEW k \in 1 .. Len(a) + Len(b) PROVE \E m \in 1 .. Len(q) : (a \o b)[k] = q[m]
  <2>1. CASE k \in 1 .. Len(a)
    <3>1. k \in 1 .. i - 1 /\ k \in 1 .. Len(q)
      BY <1>1, <1>2, <2>1
    <3> QED BY <1>2, <1>4, <2>1, <3>1
  <2>2. CASE k \notin 1 .. Len(a)
    <3>1. /\ k - Len(a) \in 1 .. Len(b) /\ Len(a) + (k - Len(a)) = k
          /\ k - Len(a) \in 1 .. Len(q) - i /\ i + (k - Len(a)) \in 1 .. Len(q)
      <4>1. i \in Nat /\ 1 <= i /\ i <= Len(q)
        BY <1>1
      <4>2. k \in 1 .. (i - 1) + (Len(q) - i) /\ k \notin 1 .. i - 1
        BY ONLY <1>2, <1>3, <2>2, k \in 1 .. Len(a) + Len(b)
      <4>3. k \in Nat /\ i <= k /\ k + 1 <= Len(q)
        BY ONLY <1>1, <4>1, <4>2
      <4>4. /\ k - (i - 1) \in 1 .. Len(q) - i /\ (i - 1) + (k - (i - 1)) = k
            /\ i + (k - (i - 1)) \in 1 .. Len(q)
        BY ONLY <1>1, <4>1, <4>3
      <4> QED BY ONLY <1>2, <1>3, <4>4
    <3>2. (a \o b)[k] = b[k - Len(a)] /\ b[k - Len(a)] = q[i + (k - Len(a))]
      BY <1>3, <1>4, <3>1
    <3> QED BY <3>1, <3>2
  <2> QED BY <2>1, <2>2
<1>6. RemoveIt(q, i) = a \o b
  BY DEF RemoveIt, a, b
<1> QED BY <1>4, <1>5, <1>6 DEF Has
\* A step that takes no packet from the queues and sends none.
LEMMA QuietKept ==
    ASSUME QuietInv, UNCHANGED <<toServer, outboundQ>>, keyXMode => keyXMode',
           ssPc' = "next" => (ssPc = "next" /\ UNCHANGED bInKeyXMode) \/ bInKeyXMode' = keyXMode,
           Has(mainQ', "kexinit") \/ Has(inboundQ', "kexinit") \/ srPc' = "enqueue" => keyXMode'
    PROVE  QuietInv'
<1>1. Taken' = Taken
  BY DEF Taken, Packets
<1>2. Quiet(Taken)' /\ (Open(Taken)' <=> Open(Taken))
  BY <1>1 DEF QuietInv, Quiet, Open, Closed
<1>3. /\ Has(mainQ, "kexinit")' <=> Has(mainQ', "kexinit")
      /\ Has(inboundQ, "kexinit")' <=> Has(inboundQ', "kexinit")
  BY DEF Has
<1> HIDE DEF Taken, Quiet, Open, Has
<1>4. Told'
  BY <1>2, <1>3 DEF QuietInv, Told
<1> QED BY <1>2, <1>4 DEF QuietInv

LEMMA ReceiveQuiet ==
    ASSUME Types, Handling, QuietInv, SocketReceive
    PROVE  QuietInv'
<1> USE DEF queueVars, sendVars, receiveVars, transportVars, newCiphers
<1>1. inboundQ \in Seq(ServerPacket)
  BY DEF Types, QueueTypes
<1>2. UNCHANGED <<toServer, outboundQ, ssPc, bInKeyXMode, mainQ>> /\ (keyXMode => keyXMode')
  BY DEF SocketReceive, ReceiveKexInit, beginKeyExchange, endKeyExchange, ReceiveOther
<1>3. \/ UNCHANGED <<inboundQ, srPc, keyXMode>>
      \/ UNCHANGED inboundQ /\ srPc' = "endKeyExchange" /\ UNCHANGED keyXMode
      \/ keyXMode'
      \/ srPc = "enqueue" /\ UNCHANGED keyXMode
      \/ /\ UNCHANGED keyXMode /\ (srPc' = srPc \/ srPc' = "read") /\ Head(toClient).type # "kexinit"
         /\ inboundQ' = Append(inboundQ, Head(toClient))
  BY DEF SocketReceive, ReceiveKexInit, beginKeyExchange, endKeyExchange, ReceiveOther, ReadsUnder,
         Pass, Handling
<1>4. Has(inboundQ', "kexinit") /\ Head(toClient).type # "kexinit"
        /\ inboundQ' = Append(inboundQ, Head(toClient)) => Has(inboundQ, "kexinit")
  BY <1>1, HasAppend
<1>5. Has(mainQ, "kexinit") \/ Has(inboundQ, "kexinit") \/ srPc = "enqueue" => keyXMode
  BY DEF QuietInv, Told
<1>6. Has(mainQ', "kexinit") \/ Has(inboundQ', "kexinit") \/ srPc' = "enqueue" => keyXMode'
  BY <1>2, <1>3, <1>4, <1>5
<1> QED BY <1>2, <1>6, QuietKept

LEMMA TransportQuiet ==
    ASSUME Types, Handling, QuietInv, Transport
    PROVE  QuietInv'
<1> USE DEF queueVars, sendVars, receiveVars, transportVars, newCiphers
<1>1. mainQ \in Seq(ClientPacket) /\ inboundQ \in Seq(ServerPacket)
  BY DEF Types, QueueTypes
<1>2. UNCHANGED <<toServer, outboundQ, ssPc, bInKeyXMode, srPc, keyXMode>>
  BY DEF Transport, negotiateEncryptions, doKeyExchange_step1, doKeyExchange_step2, SetCipherOfSend,
         SetCipherOfReceive, QueueNewKeys, HandleNewKeys, HandleOther
<1>3. inboundQ' = inboundQ \/ (inboundQ # <<>> /\ inboundQ' = Tail(inboundQ))
  BY DEF Transport, negotiateEncryptions, doKeyExchange_step1, doKeyExchange_step2, SetCipherOfSend,
         SetCipherOfReceive, QueueNewKeys, HandleNewKeys, HandleOther, Done, Handles, Handling
<1>4. \/ mainQ' = mainQ
      \/ \E type \in {"kexdh_init", "newkeys"} : mainQ' = Append(mainQ, Packet(type))
      \/ Handles("kexinit")
  BY DEF Transport, negotiateEncryptions, doKeyExchange_step1, doKeyExchange_step2, SetCipherOfSend,
         SetCipherOfReceive, QueueNewKeys, HandleNewKeys, HandleOther, queueOutboundData
<1>5. Handles("kexinit") => Has(inboundQ, "kexinit")
  BY <1>1, HasTail DEF Handles
<1>6. Has(inboundQ', "kexinit") => Has(inboundQ, "kexinit")
  BY <1>1, <1>3, HasTail
<1>7. \A type \in {"kexdh_init", "newkeys"} :
         Has(Append(mainQ, Packet(type)), "kexinit") => Has(mainQ, "kexinit")
  <2>1. \A x : Has(Append(mainQ, x), "kexinit") <=> Has(mainQ, "kexinit") \/ x.type = "kexinit"
    BY <1>1, HasAppend
  <2>2. \A type \in {"kexdh_init", "newkeys"} : Packet(type).type # "kexinit"
    BY DEF Packet
  <2> QED BY <2>1, <2>2
<1>8. Has(mainQ, "kexinit") \/ Has(inboundQ, "kexinit") \/ srPc = "enqueue" => keyXMode
  BY DEF QuietInv, Told
<1>9. Has(mainQ', "kexinit") \/ Has(inboundQ', "kexinit") \/ srPc' = "enqueue" => keyXMode'
  BY <1>2, <1>4, <1>5, <1>6, <1>7, <1>8
<1> QED BY <1>2, <1>9, QuietKept

LEMMA UserQuiet ==
    ASSUME Types, QuietInv,
           UserQueues \/ ReadMode \/ PacketOverruns \/ NoPacket \/ ServerBegins \/ ServerSendsData
             \/ ServerAnswers \/ UNCHANGED vars
    PROVE  QuietInv'
<1> USE DEF queueVars, sendVars, receiveVars, transportVars, newCiphers
<1>1. mainQ \in Seq(ClientPacket)
  BY DEF Types, QueueTypes
<1>2. /\ UNCHANGED <<toServer, outboundQ, inboundQ, srPc, keyXMode>>
      /\ ssPc' = "next" => (ssPc = "next" /\ UNCHANGED bInKeyXMode) \/ bInKeyXMode' = keyXMode
  BY DEF UserQueues, ReadMode, PacketOverruns, NoPacket, ServerBegins, ServerSendsData,
         ServerAnswers, ServerNegotiates, ServerRefuses, ServerReplies, ServerNewKeys, ServerReadsNewKeys, ServerReadsData, ServerReads,
         ClientOnly, vars
<1>3. mainQ' = mainQ \/ mainQ' = Append(mainQ, Packet("data"))
  BY DEF UserQueues, ReadMode, PacketOverruns, NoPacket, ServerBegins, ServerSendsData,
         ServerAnswers, ServerNegotiates, ServerRefuses, ServerReplies, ServerNewKeys, ServerReadsNewKeys, ServerReadsData, ServerReads,
         ClientOnly, vars
<1>4. Has(mainQ', "kexinit") => Has(mainQ, "kexinit")
  <2>1. Packet("data").type # "kexinit"
    BY DEF Packet
  <2>2. Has(Append(mainQ, Packet("data")), "kexinit") => Has(mainQ, "kexinit")
    BY <1>1, <2>1, HasAppend
  <2> QED BY <1>3, <2>2
<1>5. Has(mainQ, "kexinit") \/ Has(inboundQ, "kexinit") \/ srPc = "enqueue" => keyXMode
  BY DEF QuietInv, Told
<1>6. Has(mainQ', "kexinit") \/ Has(inboundQ', "kexinit") \/ srPc' = "enqueue" => keyXMode'
  BY <1>2, <1>4, <1>5
<1> QED BY <1>2, <1>6, QuietKept

\* With NEWKEYS on its way nothing of the next exchange is.
LEMMA NewKeysEnds ==
    ASSUME Types, Handling, Stage, NewQueued
    PROVE  ~ Has(mainQ, "kexinit") /\ ~ Has(inboundQ, "kexinit") /\ srPc # "enqueue"
<1>1. Accepted /\ Len(CK) = 1 /\ IsN(CK[1])
  BY NewInCK, NewKeysAlone
<1>2. NoServer \/ OnlyN
  BY <1>1 DEF Accepted
<1>3. /\ mainQ \in Seq(ClientPacket) /\ inboundQ \in Seq(ServerPacket)
      /\ toClient \in Seq(ServerPacket)
  BY DEF Types, QueueTypes
<1>4. \A k \in 1 .. Len(CK) : CK[k].type = "newkeys"
  BY <1>1 DEF IsN
<1>5. \A k \in 1 .. Len(SK) : SK[k].type = "newkeys"
  BY <1>2 DEF IsN, NoServer, OnlyN
<1> DEFINE b == Selection(mainQ, ClientKex)  a == Selection(inboundQ, ServerKex)
           t == Selection(toClient, ServerKex)
<1>6. Leaving \in Seq(ClientKex) /\ b \in Seq(ClientKex) /\ a \in Seq(ServerKex) /\ t \in Seq(ServerKex)
  BY PipeTypes
<1>7. CK = Leaving \o b /\ SK = a \o t
  BY DEF CK, SK
<1>8. ASSUME Has(mainQ, "kexinit") PROVE FALSE
  <2>1. PICK i \in 1 .. Len(mainQ) : mainQ[i].type = "kexinit"
    BY <1>3, <1>8 DEF Has
  <2>2. mainQ[i] \in ClientKex /\ Holds(mainQ, mainQ[i])
    BY <1>3, <2>1 DEF ClientKex, KexTypes, Holds
  <2>3. Holds(b, mainQ[i])
    BY <1>3, <2>2, SelectionHolds
  <2>4. PICK k \in 1 .. Len(b) : b[k] = mainQ[i]
    BY <2>3 DEF Holds
  <2> HIDE DEF b
  <2>5. Len(Leaving) + k \in 1 .. Len(CK) /\ CK[Len(Leaving) + k] = b[k]
    BY <1>6, <1>7, <2>4
  <2> QED BY <1>4, <2>1, <2>4, <2>5
<1>9. ASSUME Has(inboundQ, "kexinit") PROVE FALSE
  <2>1. PICK i \in 1 .. Len(inboundQ) : inboundQ[i].type = "kexinit"
    BY <1>3, <1>9 DEF Has
  <2>2. inboundQ[i] \in ServerKex /\ Holds(inboundQ, inboundQ[i])
    BY <1>3, <2>1 DEF ServerKex, Holds
  <2>3. Holds(a, inboundQ[i])
    BY <1>3, <2>2, SelectionHolds
  <2>4. PICK k \in 1 .. Len(a) : a[k] = inboundQ[i]
    BY <2>3 DEF Holds
  <2> HIDE DEF a, t
  <2>5. k \in 1 .. Len(SK) /\ SK[k] = a[k]
    BY <1>6, <1>7, <2>4
  <2> QED BY <1>5, <2>1, <2>4, <2>5
<1>10. ASSUME srPc = "enqueue" PROVE FALSE
  <2>1. toClient # <<>> /\ Head(toClient).type = "kexinit"
    BY <1>10 DEF Handling
  <2>2. 1 \in 1 .. Len(toClient) /\ toClient[1].type = "kexinit" /\ toClient[1] \in ServerPacket
    BY <1>3, <2>1
  <2>3. toClient[1] \in ServerKex /\ Holds(toClient, toClient[1])
    BY <2>2 DEF ServerKex, Holds
  <2>4. Holds(t, toClient[1])
    BY <1>3, <2>3, SelectionHolds
  <2>5. PICK k \in 1 .. Len(t) : t[k] = toClient[1]
    BY <2>4 DEF Holds
  <2> HIDE DEF a, t
  <2>6. Len(a) + k \in 1 .. Len(SK) /\ SK[Len(a) + k] = t[k]
    BY <1>6, <1>7, <2>5
  <2> QED BY <1>5, <2>2, <2>5, <2>6
<1> QED BY <1>8, <1>9, <1>10
LEMMA NextPacketQuiet ==
    ASSUME Types, Handling, Stage, QuietInv, NextPacket
    PROVE  QuietInv'
<1>1. /\ mainQ \in Seq(ClientPacket) /\ channelQ \in Seq(DataPacket)
      /\ outboundQ \in Seq(ClientPacket) /\ Packets(toServer) \in Seq(ClientPacket)
      /\ Taken \in Seq(ClientPacket)
  BY LeftTypes DEF Types, QueueTypes
<1>2. ssPc = "next" /\ ssPc' = "mode" /\ UNCHANGED <<toServer, inboundQ, srPc>>
  BY DEF NextPacket, getNextPacket, Took, receiveVars
<1>3. PICK p \in ClientPacket :
        /\ outboundQ' = Append(outboundQ, p)
        /\ keyXMode' = (keyXMode /\ ~ (bInKeyXMode /\ p.type = "newkeys"))
        /\ IF bInKeyXMode THEN IsKex(p) /\ Has(mainQ, p.type)
           ELSE Has(mainQ, p.type) \/ p.type = "data"
        /\ Has(mainQ', "kexinit") => Has(mainQ, "kexinit")
  <2>1. CASE bInKeyXMode
    <3>1. PICK i \in DOMAIN mainQ :
            FirstKex(i) /\ mainQ' = RemoveIt(mainQ, i) /\ Took(mainQ[i])
      BY <2>1 DEF NextPacket, getNextPacket
    <3>2. mainQ[i] \in ClientPacket /\ IsKex(mainQ[i]) /\ Has(mainQ, mainQ[i].type)
      BY <1>1, <3>1 DEF FirstKex, Has
    <3>3. Has(mainQ', "kexinit") => Has(mainQ, "kexinit")
      BY <1>1, <3>1, HasRemoved
    <3> QED BY <2>1, <3>1, <3>2, <3>3 DEF Took
  <2>2. CASE ~ bInKeyXMode /\ mainQ # <<>> /\ mainQ' = Tail(mainQ) /\ Took(Head(mainQ))
    <3>1. Head(mainQ) \in ClientPacket
      BY <1>1, <2>2, QueueTypesKept
    <3>2. Has(mainQ, Head(mainQ).type) /\ (Has(mainQ', "kexinit") => Has(mainQ, "kexinit"))
      BY <1>1, <2>2, HasTail
    <3> QED BY <2>2, <3>1, <3>2 DEF Took
  <2>3. CASE ~ bInKeyXMode /\ channelQ # <<>> /\ UNCHANGED mainQ /\ Took(Head(channelQ))
    <3>1. Head(channelQ) \in DataPacket
      BY <1>1, <2>3, QueueTypesKept
    <3>2. Head(channelQ) \in ClientPacket /\ Head(channelQ).type = "data"
      BY <3>1 DEF DataPacket, ClientPacket
    <3>3. Has(mainQ', "kexinit") <=> Has(mainQ, "kexinit")
      BY <2>3
    <3> QED BY <2>3, <3>2, <3>3 DEF Took
  <2> QED BY <2>1, <2>2, <2>3 DEF NextPacket, getNextPacket
<1>4. Taken' = Append(Taken, p)
  <2>1. Packets(toServer)' = Packets(toServer)
    BY <1>2 DEF Packets
  <2> DEFINE a == Packets(toServer)
  <2> HIDE DEF a
  <2>2. a \o Append(outboundQ, p) = Append(a \o outboundQ, p)
    BY <1>1, ConcatAppend DEF a
  <2> QED BY <1>3, <2>1, <2>2 DEF Taken, a
<1>5. Told
  BY DEF QuietInv
<1>6. IsKex(p) \/ ~ Open(Taken)
  BY <1>2, <1>3, <1>5 DEF Told
<1>7. /\ Quiet(Append(Taken, p))
      /\ Open(Append(Taken, p)) => p.type # "newkeys" /\ (p.type = "kexinit" \/ Open(Taken))
  BY <1>1, <1>3, <1>6, OpenAppend DEF QuietInv
<1>8. Quiet(Taken)'
  BY <1>4, <1>7 DEF Quiet, Closed
<1>9. Open(Taken)' <=> Open(Append(Taken, p))
  BY <1>4 DEF Open, Closed
<1>10. Open(Taken)' => keyXMode'
  BY <1>3, <1>5, <1>7, <1>9 DEF Told
<1>11. Has(mainQ, "kexinit")' \/ Has(inboundQ, "kexinit")' \/ srPc' = "enqueue" => keyXMode'
  <2>1. Has(mainQ, "kexinit")' \/ Has(inboundQ, "kexinit")' \/ srPc' = "enqueue" =>
          Has(mainQ, "kexinit") \/ Has(inboundQ, "kexinit") \/ srPc = "enqueue"
    <3>1. Has(mainQ, "kexinit")' <=> Has(mainQ', "kexinit")
      BY DEF Has
    <3>2. Has(inboundQ, "kexinit")' <=> Has(inboundQ, "kexinit")
      BY <1>2 DEF Has
    <3> QED BY <1>2, <1>3, <3>1, <3>2
  <2>2. bInKeyXMode /\ p.type = "newkeys" => NewQueued
    BY <1>3 DEF NewQueued, Has
  <2>3. NewQueued => ~ (Has(mainQ, "kexinit") \/ Has(inboundQ, "kexinit") \/ srPc = "enqueue")
    BY NewKeysEnds
  <2> QED BY <1>3, <1>5, <2>1, <2>2, <2>3 DEF Told
<1>12. Told'
  BY <1>2, <1>10, <1>11 DEF Told
<1> QED BY <1>8, <1>12 DEF QuietInv

LEMMA CombineQuiet ==
    ASSUME Types, Types', QuietInv, combineAndSendPackets
    PROVE  QuietInv'
<1>1. /\ UNCHANGED <<mainQ, inboundQ, srPc, keyXMode>> /\ outboundQ' = <<>> /\ ssPc' = "mode"
  BY DEF combineAndSendPackets, queueVars, receiveVars
<1>2. Taken' = Taken
  <2> DEFINE L == Len(toServer)  n == Len(outboundQ)  s == Packets(toServer)
  <2>1. /\ L \in Nat /\ n \in Nat /\ Len(toServer') = L + n
        /\ \A i \in 1 .. L : toServer'[i] = toServer[i]
        /\ \A i \in 1 .. n : toServer'[L + i].packet = outboundQ[i]
    BY SentFacts
  <2>2. s \in Seq(ClientPacket) /\ Len(s) = L /\ outboundQ \in Seq(ClientPacket)
        /\ \A i \in 1 .. L : s[i] = toServer[i].packet
    BY LeftTypes DEF Packets, Types, QueueTypes
  <2> HIDE DEF s
  <2>3. /\ Taken \in Seq(ClientPacket) /\ Len(Taken) = L + n
        /\ \A i \in 1 .. L : Taken[i] = s[i]
        /\ \A i \in 1 .. n : Taken[L + i] = outboundQ[i]
    <3>1. Taken = s \o outboundQ
      BY DEF Taken, s
    <3>2. /\ s \o outboundQ \in Seq(ClientPacket) /\ Len(s \o outboundQ) = Len(s) + n
          /\ \A i \in 1 .. Len(s) : (s \o outboundQ)[i] = s[i]
          /\ \A i \in 1 .. n : (s \o outboundQ)[Len(s) + i] = outboundQ[i]
      BY ONLY <2>2
    <3> QED BY <2>2, <3>1, <3>2
  <2>4. toServer' \in Seq(SentPacket)
    BY DEF Types, QueueTypes
  <2>5. Packets(toServer)' = [i \in 1 .. L + n |-> toServer'[i].packet]
    <3>1. DOMAIN toServer' = 1 .. L + n
      BY <2>1, <2>4
    <3> QED BY <3>1 DEF Packets
  <2>6. ASSUME NEW i \in 1 .. L + n PROVE toServer'[i].packet = Taken[i]
    <3>1. CASE i \in 1 .. L
      BY <2>1, <2>2, <2>3, <3>1
    <3>2. CASE i \notin 1 .. L
      <4>1. i - L \in 1 .. n /\ L + (i - L) = i
        BY <2>1, <3>2
      <4>2. toServer'[L + (i - L)].packet = outboundQ[i - L] /\ Taken[L + (i - L)] = outboundQ[i - L]
        BY <2>1, <2>3, <4>1
      <4> QED BY <4>1, <4>2
    <3> QED BY <3>1, <3>2
  <2>7. Taken = [i \in 1 .. L + n |-> Taken[i]]
    BY <2>3
  <2> DEFINE w == Taken
  <2> HIDE DEF w
  <2>8. Packets(toServer)' = w
    BY <2>5, <2>6, <2>7 DEF w
  <2>9. w \in Seq(ClientPacket) => w \o <<>> = w
    OBVIOUS
  <2>10. Taken' = Packets(toServer)' \o outboundQ'
    BY DEF Taken
  <2> QED BY <1>1, <2>3, <2>8, <2>9, <2>10 DEF w
<1>3. Quiet(Taken)' /\ (Open(Taken)' <=> Open(Taken))
  BY <1>2 DEF QuietInv, Quiet, Open, Closed
<1>4. /\ Has(mainQ, "kexinit")' <=> Has(mainQ, "kexinit")
      /\ Has(inboundQ, "kexinit")' <=> Has(inboundQ, "kexinit")
  BY <1>1 DEF Has
<1>5. Told'
  BY <1>1, <1>3, <1>4 DEF QuietInv, Told
<1> QED BY <1>3, <1>5 DEF QuietInv

LEMMA QuietInvInit == Init => QuietInv
<1> SUFFICES ASSUME Init PROVE QuietInv
  OBVIOUS
<1>1. /\ mainQ = <<>> /\ inboundQ = <<>> /\ toServer = <<>> /\ outboundQ = <<>> /\ srPc = "read"
  BY DEF Init
<1>2. DOMAIN Taken = {}
  <2>1. Types
    BY InitTypes
  <2>2. Packets(toServer) \in Seq(ClientPacket) /\ Len(Packets(toServer)) = 0
    BY <1>1, <2>1, LeftTypes
  <2>3. Packets(toServer) = <<>>
    BY <2>2
  <2> QED BY <1>1, <2>3 DEF Taken
<1>3. Quiet(Taken) /\ ~ Open(Taken)
  BY <1>2 DEF Quiet, Open
<1>4. ~ Has(mainQ, "kexinit") /\ ~ Has(inboundQ, "kexinit")
  BY <1>1 DEF Has
<1> QED BY <1>1, <1>3, <1>4 DEF QuietInv, Told

LEMMA QuietInvNext == KeyInv /\ QuietInv /\ [Next]_vars => QuietInv'
<1> SUFFICES ASSUME KeyInv, QuietInv, [Next]_vars PROVE QuietInv'
  OBVIOUS
<1>1. Types /\ Handling /\ Stage /\ Types'
  BY TypesNext DEF KeyInv
<1>2. CASE SocketReceive \/ Transport
  BY <1>1, <1>2, ReceiveQuiet, TransportQuiet
<1>3. CASE SocketSend
  BY <1>1, <1>3, UserQuiet, NextPacketQuiet, CombineQuiet DEF SocketSend
<1>4. CASE UserQueues \/ ServerBegins \/ ServerSendsData \/ ServerAnswers \/ UNCHANGED vars
  BY <1>1, <1>4, UserQuiet
<1> QED BY <1>2, <1>3, <1>4 DEF Next

LEMMA QuietInvSays == Types /\ QuietInv => QuietExchange
<1> SUFFICES ASSUME Types, QuietInv,
                    NEW i \in DOMAIN toServer, NEW k \in DOMAIN toServer, i < k,
                    toServer[i].packet.type = "kexinit", ~ IsKex(toServer[k].packet)
             PROVE  \E j \in i .. k : toServer[j].packet.type = "newkeys"
  BY DEF QuietExchange
<1> DEFINE s == Packets(toServer)
<1>1. /\ s \in Seq(ClientPacket) /\ Len(s) = Len(toServer) /\ outboundQ \in Seq(ClientPacket)
      /\ toServer \in Seq(SentPacket)
  BY LeftTypes DEF Types, QueueTypes
<1>2. \A j \in 1 .. Len(toServer) : s[j] = toServer[j].packet
  BY <1>1 DEF Packets
<1> HIDE DEF s
<1>3. /\ DOMAIN (s \o outboundQ) = 1 .. Len(s) + Len(outboundQ)
      /\ \A j \in 1 .. Len(s) : (s \o outboundQ)[j] = s[j]
  BY ONLY <1>1
<1>4. /\ i \in 1 .. Len(toServer) /\ k \in 1 .. Len(toServer)
      /\ i \in 1 .. Len(s) + Len(outboundQ) /\ k \in 1 .. Len(s) + Len(outboundQ)
      /\ \A j \in i .. k : j \in 1 .. Len(toServer)
  <2>1. Len(toServer) \in Nat /\ Len(outboundQ) \in Nat /\ DOMAIN toServer = 1 .. Len(toServer)
    BY <1>1
  <2> QED BY <1>1, <2>1
<1>5. Taken[i] = toServer[i].packet /\ Taken[k] = toServer[k].packet
      /\ \A j \in i .. k : Taken[j] = toServer[j].packet
  BY <1>1, <1>2, <1>3, <1>4 DEF Taken, s
<1>6. i \in DOMAIN Taken /\ k \in DOMAIN Taken
  BY <1>3, <1>4 DEF Taken, s
<1>7. Closed(Taken, i, k)
  BY <1>5, <1>6 DEF QuietInv, Quiet
<1> QED BY <1>5, <1>7 DEF Closed

\* From the client's KEXINIT to its NEWKEYS nothing but the exchange leaves, however
\* stale the mode is that SocketSend reads.
THEOREM QuietAlways == Spec => []QuietExchange
<1>1. Spec => []KeyInv
  BY KeyInvAlways
<1>2. KeyInv => Types
  BY DEF KeyInv
<1> QED BY <1>1, <1>2, QuietInvInit, QuietInvNext, QuietInvSays, PTL DEF Spec

=============================================================================
