----------------------------- MODULE InboundProofs -----------------------------
(***************************************************************************)
(* Theorems about the receiving half: the queues of a channel (Inbound)    *)
(* for any number of readers and any sizes, with the type invariant, the   *)
(* order of the bytes, and that data never lies in a queue while everybody *)
(* who reads that stream sleeps; and the ring of SocketRecieve (Receive)   *)
(* for any sizes of ring, block, MAC and packets, with what the ring keeps *)
(* and which packets come out of it.                                       *)
(***************************************************************************)
EXTENDS Inbound, Receive, SelectionLemmas, FiniteSetTheorems

LEMMA ConstantsType ==
    /\ IsFiniteSet(Readers)
    /\ Word \in Nat \ {0} /\ MaxQueue \in Nat /\ MaxQueue < Word
    /\ SendSizes \subseteq Nat
    /\ 0 \in 0..(Word - 1) /\ MaxQueue \in 0..(Word - 1)
  BY InboundAssumption

LEMMA ModRange ==
    ASSUME NEW a \in Int
    PROVE  a % Word \in 0..(Word - 1)
  BY ConstantsType

LEMMA MinusType ==
    ASSUME NEW a \in Int, NEW b \in Int
    PROVE  Minus(a, b) \in 0..(Word - 1)
  BY ModRange DEF Minus

LEMMA HeadTail ==
    ASSUME NEW S, NEW s \in Seq(S), s # <<>>
    PROVE  /\ Head(s) \in S /\ Tail(s) \in Seq(S)
           /\ Len(s) \in Nat \ {0} /\ Len(Tail(s)) = Len(s) - 1
<1>1. Head(s) \in S /\ Tail(s) \in Seq(S) /\ Len(Tail(s)) = Len(s) - 1
  BY HeadTailProperties
<1> QED BY <1>1, EmptySeq

LEMMA AppendType ==
    ASSUME NEW S, NEW s \in Seq(S), NEW x \in S
    PROVE  /\ Append(s, x) \in Seq(S) /\ Len(Append(s, x)) = Len(s) + 1
           /\ Len(s) \in Nat /\ Append(s, x) # <<>>
           /\ s # <<>> => Head(Append(s, x)) = Head(s)
<1>1. /\ Append(s, x) \in Seq(S) /\ Append(s, x) # <<>>
      /\ Len(Append(s, x)) = Len(s) + 1
      /\ \A i \in 1..Len(s) : Append(s, x)[i] = s[i]
  BY AppendProperties
<1>2. Len(s) \in Nat
  BY LenProperties
<1>3. ASSUME s # <<>> PROVE Append(s, x)[1] = s[1]
  <2>1. Len(s) # 0
    BY <1>3, EmptySeq
  <2> QED BY <2>1, <1>1, <1>2
<1>4. Head(Append(s, x)) = Append(s, x)[1] /\ Head(s) = s[1]
  OBVIOUS
<1> QED BY <1>1, <1>2, <1>3, <1>4
-----------------------------------------------------------------------------
(* The type invariant holds together with what the program counters promise. *)

\* While Transport is between the load and the store, the packet is there.
TransportOK == tpc = "store" => wire # <<>> /\ Head(wire).s = "data"

\* A reader that waits, or has been woken, knows what it reads.
CallOK ==
    \A r \in Readers :
        rpc[r] \in {"wait", "woken"} => call[r] \in [s : Streams, mode : Modes]

TypeInv == TypeOK /\ TransportOK /\ CallOK

LEMMA InitType == Init => TypeInv
<1> SUFFICES ASSUME Init PROVE TypeInv
  OBVIOUS
<1>1. MaxQueue \in 0..(Word - 1) /\ 0 \in 0..(Word - 1)
  BY ConstantsType
<1>2. <<>> \in Seq(Packet) /\ <<>> \in Seq(0..(Word - 1))
  BY EmptySeq
<1>3. TypeOK
  <2>1. /\ wire \in Seq(Packet) /\ adjusts \in Seq(0..(Word - 1))
        /\ inQueue \in [Streams -> Seq(Packet)]
    BY <1>2 DEF Init
  <2>2. /\ peerWindow \in 0..(Word - 1) /\ windowLocal \in 0..(Word - 1)
        /\ tload \in 0..(Word - 1)
        /\ toAdd \in [Readers -> 0..(Word - 1)] /\ rload \in [Readers -> 0..(Word - 1)]
    BY <1>1 DEF Init
  <2>3. sent \in [Streams -> Nat] /\ taken \in [Streams -> Nat]
    BY DEF Init
  <2>4. /\ rpc \in [Readers -> {"idle", "wait", "woken", "adjust", "load", "store"}]
        /\ call \in [Readers -> [s : Streams, mode : Modes] \cup {NoCall}]
        /\ tpc \in {"idle", "store"} /\ dead \in BOOLEAN
    BY DEF Init
  <2> QED BY <2>1, <2>2, <2>3, <2>4 DEF TypeOK
<1> QED BY <1>3 DEF Init, TypeInv, TransportOK, CallOK

LEMMA PeerType ==
    ASSUME TypeInv, Peer
    PROVE  TypeInv'
<1>1. ASSUME NEW s \in Streams, NEW k \in SendSizes, PeerSends(s, k)
      PROVE  TypeInv'
  <2> DEFINE p == [s |-> s, off |-> sent[s], len |-> k]
  <2>1. p \in Packet /\ k \in Nat /\ sent[s] \in Nat
    BY ConstantsType DEF TypeInv, TypeOK, Packet
  <2>2. wire' = Append(wire, p)
    BY <1>1 DEF PeerSends
  <2>3. wire' \in Seq(Packet) /\ (wire # <<>> => wire' # <<>> /\ Head(wire') = Head(wire))
    BY <2>1, <2>2, AppendType DEF TypeInv, TypeOK
  <2>4. peerWindow' \in 0..(Word - 1) /\ sent' \in [Streams -> Nat]
    <3>1. peerWindow \in 0..(Word - 1) /\ sent \in [Streams -> Nat]
      BY DEF TypeInv, TypeOK
    <3>2. k <= peerWindow /\ peerWindow' = peerWindow - k
          /\ sent' = [sent EXCEPT ![s] = sent[s] + k]
      BY <1>1 DEF PeerSends
    <3>3. sent[s] + k \in Nat
      BY <2>1
    <3>4. sent' \in [Streams -> Nat]
      BY <3>1, <3>2, <3>3
    <3>5. peerWindow' \in 0..(Word - 1)
      BY <2>1, <3>1, <3>2, ConstantsType
    <3> QED BY <3>4, <3>5
  <2> HIDE DEF p
  <2> QED BY <1>1, <2>3, <2>4 DEF PeerSends, TypeInv, TypeOK, TransportOK, CallOK,
             transportVars, readerVars
<1>2. ASSUME PeerGetsAdjust
      PROVE  TypeInv'
  <2>1. Head(adjusts) \in 0..(Word - 1) /\ adjusts' \in Seq(0..(Word - 1))
    BY <1>2, HeadTail DEF PeerGetsAdjust, TypeInv, TypeOK
  <2>2. peerWindow + Head(adjusts) \in Int
    BY <2>1 DEF TypeInv, TypeOK
  <2>3. peerWindow' \in 0..(Word - 1)
    BY <1>2, <2>2, ModRange DEF PeerGetsAdjust
  <2> QED BY <1>2, <2>1, <2>3 DEF PeerGetsAdjust, TypeInv, TypeOK, TransportOK, CallOK,
             transportVars, readerVars
<1> QED BY <1>1, <1>2 DEF Peer

\* The condition variable: nobody waits, or one that waited has been woken.
LEMMA SignalCases ==
    ASSUME NEW s \in Streams, Signal(s), rpc \in [Readers -> STRING]
    PROVE  \/ Waiters(s) = {} /\ rpc' = rpc
           \/ \E r \in Waiters(s) : rpc' = [rpc EXCEPT ![r] = "woken"]
  BY DEF Signal

LEMMA SignalType ==
    ASSUME TypeInv, NEW s \in Streams, Signal(s), call' = call
    PROVE  /\ rpc' \in [Readers -> {"idle", "wait", "woken", "adjust", "load", "store"}]
           /\ CallOK'
<1>1. CASE rpc' = rpc
  BY <1>1 DEF TypeInv, TypeOK, CallOK
<1>2. CASE \E r \in Waiters(s) : rpc' = [rpc EXCEPT ![r] = "woken"]
  BY <1>2 DEF TypeInv, TypeOK, CallOK, Waiters
<1> QED BY <1>1, <1>2 DEF Signal

LEMMA EnqueueType ==
    ASSUME TypeInv, NEW p \in Packet, Enqueue(p)
    PROVE  /\ p.s \in Streams
           /\ inQueue' \in [Streams -> Seq(Packet)]
           /\ Len(inQueue'[p.s]) = Len(inQueue[p.s]) + 1
           /\ \A s \in Streams : s # p.s => inQueue'[s] = inQueue[s]
<1>1. p.s \in Streams
  BY DEF Packet
<1>2. inQueue' = [inQueue EXCEPT ![p.s] = Append(inQueue[p.s], p)]
  BY DEF Enqueue
<1>3. inQueue[p.s] \in Seq(Packet) /\ inQueue \in [Streams -> Seq(Packet)]
  BY <1>1 DEF TypeInv, TypeOK
<1>4. /\ Append(inQueue[p.s], p) \in Seq(Packet)
      /\ Len(Append(inQueue[p.s], p)) = Len(inQueue[p.s]) + 1
  BY <1>3, AppendType
<1> HIDE DEF Packet
<1> QED BY <1>1, <1>2, <1>3, <1>4

LEMMA TransportType ==
    ASSUME TypeInv, Transport
    PROVE  TypeInv'
<1>1. CASE TransportLoad
  BY <1>1 DEF TransportLoad, TypeInv, TypeOK, TransportOK, CallOK, peerVars, readerVars
<1>2. CASE TransportStore
  <2> DEFINE p == Head(wire)
  <2>1. p \in Packet /\ wire' \in Seq(Packet)
    BY <1>2, HeadTail DEF TransportStore, TypeInv, TypeOK, TransportOK
  <2>2. Enqueue(p) /\ Signal(p.s) /\ call' = call /\ windowLocal' = Minus(tload, p.len)
    BY <1>2 DEF TransportStore
  <2>3. p.s \in Streams /\ inQueue' \in [Streams -> Seq(Packet)]
    BY <2>1, <2>2, EnqueueType
  <2>4. /\ rpc' \in [Readers -> {"idle", "wait", "woken", "adjust", "load", "store"}]
        /\ CallOK'
    BY <2>2, <2>3, SignalType
  <2> HIDE DEF p
  <2>5. p.len \in Int /\ tload \in Int
    <3>1. p.len \in SendSizes /\ tload \in 0..(Word - 1)
      BY <2>1 DEF Packet, TypeInv, TypeOK
    <3>2. SendSizes \subseteq Nat
      BY ConstantsType
    <3>3. p.len \in Nat
      BY <3>1, <3>2
    <3>4. tload \in Int
      BY <3>1
    <3> QED BY <3>3, <3>4
  <2>6. windowLocal' \in 0..(Word - 1) /\ 0 \in 0..(Word - 1)
    <3>1. Minus(tload, p.len) \in 0..(Word - 1)
      BY <2>5, MinusType
    <3> QED BY <2>2, <3>1, ConstantsType
  <2> USE DEF p
  <2> QED BY <1>2, <2>1, <2>3, <2>4, <2>6 DEF TransportStore, TypeInv, TypeOK, TransportOK
<1>3. CASE QueueExtended
  <2> DEFINE p == Head(wire)
  <2>1. p \in Packet /\ wire' \in Seq(Packet) /\ p.s = "ext"
    BY <1>3, HeadTail DEF QueueExtended, TypeInv, TypeOK
  <2>2. Enqueue(p) /\ Signal(p.s) /\ call' = call
    BY <1>3, <2>1 DEF QueueExtended
  <2>3. p.s \in Streams /\ inQueue' \in [Streams -> Seq(Packet)]
    BY <2>1, <2>2, EnqueueType
  <2>4. /\ rpc' \in [Readers -> {"idle", "wait", "woken", "adjust", "load", "store"}]
        /\ CallOK'
    BY <2>2, <2>3, SignalType
  <2> HIDE DEF p
  <2> QED BY <1>3, <2>1, <2>3, <2>4 DEF QueueExtended, TypeInv, TypeOK, TransportOK,
             transportVars
<1> QED BY <1>1, <1>2, <1>3 DEF Transport

\* What a dequeue leaves.
LEMMA TakeType ==
    ASSUME TypeInv, NEW r \in Readers, NEW s \in Streams, Take(r, s)
    PROVE  /\ inQueue' \in [Streams -> Seq(Packet)]
           /\ taken' \in [Streams -> Nat]
           /\ toAdd' \in [Readers -> 0..(Word - 1)]
           /\ inQueue[s] = <<>> => inQueue' = inQueue
           /\ inQueue[s] # <<>> => Len(inQueue'[s]) = Len(inQueue[s]) - 1
           /\ \A t \in Streams : t # s => inQueue'[t] = inQueue[t]
<1>1. inQueue \in [Streams -> Seq(Packet)] /\ taken \in [Streams -> Nat]
  BY DEF TypeInv, TypeOK
<1>2. toAdd' \in [Readers -> 0..(Word - 1)]
  <2>1. MaxQueue \in Int /\ windowLocal \in Int
    BY ConstantsType DEF TypeInv, TypeOK
  <2>2. Minus(MaxQueue, windowLocal) \in 0..(Word - 1)
    BY <2>1, MinusType
  <2>3. WindowSizeToAdd \in 0..(Word - 1) /\ 0 \in 0..(Word - 1)
    BY <2>2, ConstantsType DEF WindowSizeToAdd
  <2> HIDE DEF WindowSizeToAdd
  <2> QED BY <2>3 DEF Take, TypeInv, TypeOK
<1>3. CASE inQueue[s] = <<>>
  <2>1. inQueue' = inQueue /\ taken' = taken
    BY <1>3 DEF Take
  <2> QED BY <1>1, <1>2, <1>3, <2>1
<1>4. CASE inQueue[s] # <<>>
  <2>1. /\ inQueue' = [inQueue EXCEPT ![s] = Tail(inQueue[s])]
        /\ taken' = [taken EXCEPT ![s] = taken[s] + Head(inQueue[s]).len]
    BY <1>4 DEF Take
  <2>2. Head(inQueue[s]) \in Packet /\ Tail(inQueue[s]) \in Seq(Packet)
          /\ Len(Tail(inQueue[s])) = Len(inQueue[s]) - 1
    BY <1>1, <1>4, HeadTail
  <2>3. Head(inQueue[s]).len \in Nat
    BY <2>2, ConstantsType DEF Packet
  <2>4. inQueue' \in [Streams -> Seq(Packet)] /\ inQueue'[s] = Tail(inQueue[s])
          /\ \A t \in Streams : t # s => inQueue'[t] = inQueue[t]
    BY <1>1, <2>1, <2>2
  <2>5. taken' \in [Streams -> Nat]
    BY <1>1, <2>1, <2>3
  <2> QED BY <1>2, <1>4, <2>2, <2>4, <2>5
<1> QED BY <1>3, <1>4

LEMMA TakeInv ==
    ASSUME TypeInv, NEW r \in Readers, NEW s \in Streams, Take(r, s)
    PROVE  TypeInv'
<1>1. /\ inQueue' \in [Streams -> Seq(Packet)]
      /\ taken' \in [Streams -> Nat]
      /\ toAdd' \in [Readers -> 0..(Word - 1)]
  BY TakeType
<1>2. /\ rpc' \in [Readers -> {"idle", "wait", "woken", "adjust", "load", "store"}]
      /\ call' \in [Readers -> [s : Streams, mode : Modes] \cup {NoCall}]
  BY DEF Take, TypeInv, TypeOK
<1>3. CallOK'
  BY DEF Take, TypeInv, TypeOK, CallOK
<1> QED BY <1>1, <1>2, <1>3, SMTT(20) DEF Take, TypeInv, TypeOK, TransportOK, peerVars,
           transportVars

LEMMA ReaderType ==
    ASSUME TypeInv, NEW r \in Readers, Call(r) \/ GoOn(r)
    PROVE  TypeInv'
<1>1. ASSUME NEW s \in Streams, NEW mode \in Modes, Read(r, s, mode)
      PROVE  TypeInv'
  BY <1>1, TakeInv DEF Read
<1>2. ASSUME NEW s \in Streams, NEW mode \in Modes, Block(r, s, mode)
      PROVE  TypeInv'
  BY <1>2 DEF Block, TypeInv, TypeOK, TransportOK, CallOK, peerVars, transportVars
<1>3. CASE TimeOut(r)
  BY <1>3 DEF TimeOut, TypeInv, TypeOK, TransportOK, CallOK, peerVars, transportVars
<1>4. CASE WakeUp(r)
  <2>1. call[r].s \in Streams
    BY <1>4 DEF WakeUp, TypeInv, CallOK
  <2> QED BY <1>4, <2>1, TakeInv DEF WakeUp
<1>5. CASE QueueAdjust(r)
  <2>1. toAdd[r] \in 0..(Word - 1) /\ adjusts \in Seq(0..(Word - 1))
    BY DEF TypeInv, TypeOK
  <2>2. adjusts' \in Seq(0..(Word - 1))
    BY <1>5, <2>1, AppendType DEF QueueAdjust
  <2> QED BY <1>5, <2>2 DEF QueueAdjust, TypeInv, TypeOK, TransportOK, CallOK,
             transportVars
<1>6. CASE LoadWindow(r)
  BY <1>6 DEF LoadWindow, TypeInv, TypeOK, TransportOK, CallOK, peerVars, transportVars
<1>7. CASE StoreWindow(r)
  <2>1. rload[r] + toAdd[r] \in Int
    BY DEF TypeInv, TypeOK
  <2>2. windowLocal' \in 0..(Word - 1) /\ 0 \in 0..(Word - 1)
    BY <1>7, <2>1, ModRange, ConstantsType DEF StoreWindow
  <2> QED BY <1>7, <2>2 DEF StoreWindow, TypeInv, TypeOK, TransportOK, CallOK, peerVars,
             transportVars
<1> QED BY <1>1, <1>2, <1>3, <1>4, <1>5, <1>6, <1>7 DEF Call, GoOn

LEMMA NextType == TypeInv /\ [Next]_vars => TypeInv'
<1> SUFFICES ASSUME TypeInv, [Next]_vars PROVE TypeInv'
  OBVIOUS
<1>1. CASE SocketDies
  BY <1>1 DEF SocketDies, TypeInv, TypeOK, TransportOK, CallOK, peerVars, transportVars,
              readerVars
<1>2. CASE UNCHANGED vars
  BY <1>2 DEF vars, TypeInv, TypeOK, TransportOK, CallOK, peerVars, transportVars,
              readerVars
<1> QED BY <1>1, <1>2, PeerType, TransportType, ReaderType DEF Next

THEOREM TypeInvariance == Spec => []TypeInv
  BY InitType, NextType, PTL DEF Spec

\* Whatever the readers, the peer and the timeouts do, the variables have their types:
\* no counter leaves the range of a uint32, also when the updates of the window race.
THEOREM TypeCorrect == Spec => []TypeOK
<1>1. TypeInv => TypeOK
  BY DEF TypeInv
<1> QED BY <1>1, TypeInvariance, PTL
-----------------------------------------------------------------------------
(* No data is left behind.  NoStrandedData is not inductive: with two packets *)
(* in the queue and one reader on its way, the next step may leave one packet *)
(* and nobody.  What is inductive counts: while somebody waits on a stream,   *)
(* its queue is no longer than the number of readers already woken for it.    *)

Woken(s) == {r \in Readers : rpc[r] = "woken" /\ call[r].s = s}

EnoughWoken ==
    \A s \in Streams : Waiters(s) # {} => Len(inQueue[s]) <= Cardinality(Woken(s))

LEMMA WokenFinite ==
    ASSUME NEW s
    PROVE  /\ IsFiniteSet(Woken(s)) /\ Cardinality(Woken(s)) \in Nat
           /\ IsFiniteSet(Woken(s)') /\ Cardinality(Woken(s)') \in Nat
<1>1. IsFiniteSet(Readers)
  BY ConstantsType
<1>2. Woken(s) \in SUBSET Readers /\ Woken(s)' \in SUBSET Readers
  BY DEF Woken
<1>3. IsFiniteSet(Woken(s)) /\ IsFiniteSet(Woken(s)')
  BY <1>1, <1>2, FS_Subset
<1> QED BY <1>3, FS_CardinalityType

LEMMA QueueLength ==
    ASSUME TypeInv, NEW s \in Streams
    PROVE  Len(inQueue[s]) \in Nat /\ (inQueue[s] = <<>> => Len(inQueue[s]) = 0)
<1>1. inQueue[s] \in Seq(Packet)
  BY DEF TypeInv, TypeOK
<1> QED BY <1>1, LenProperties, EmptySeq

\* A stream whose readers, waiting and woken, and whose queue a step leaves alone.
LEMMA SameStream ==
    ASSUME EnoughWoken, NEW s \in Streams, inQueue'[s] = inQueue[s],
           Waiters(s)' = Waiters(s), Woken(s)' = Woken(s)
    PROVE  Waiters(s)' # {} => Len(inQueue'[s]) <= Cardinality(Woken(s)')
  BY DEF EnoughWoken

\* One waiting reader is woken, by a signal or by its timeout.
LEMMA OneMoreWoken ==
    ASSUME TypeInv, NEW s \in Streams, NEW r \in Waiters(s), call' = call,
           rpc' = [rpc EXCEPT ![r] = "woken"]
    PROVE  /\ Cardinality(Woken(s)') = Cardinality(Woken(s)) + 1
           /\ \A t \in Streams : t # s =>
                 Waiters(t)' = Waiters(t) /\ Woken(t)' = Woken(t)
<1>1. r \in Readers /\ rpc[r] = "wait" /\ call[r].s = s
  BY DEF Waiters
<1>2. rpc \in [Readers -> {"idle", "wait", "woken", "adjust", "load", "store"}]
  BY DEF TypeInv, TypeOK
<1>3. Woken(s)' = Woken(s) \cup {r} /\ r \notin Woken(s)
  BY <1>1, <1>2 DEF Woken
<1>4. ASSUME NEW t \in Streams, t # s
      PROVE  Waiters(t)' = Waiters(t) /\ Woken(t)' = Woken(t)
  BY <1>1, <1>2, <1>4 DEF Waiters, Woken
<1>5. Cardinality(Woken(s) \cup {r}) = Cardinality(Woken(s)) + 1
  BY <1>3, WokenFinite, FS_AddElement
<1> QED BY <1>3, <1>4, <1>5

\* A packet comes with a signal.
LEMMA ArrivalEnough ==
    ASSUME TypeInv, EnoughWoken, NEW p \in Packet, Enqueue(p), Signal(p.s), call' = call
    PROVE  EnoughWoken'
<1>1. /\ p.s \in Streams
      /\ Len(inQueue'[p.s]) = Len(inQueue[p.s]) + 1
      /\ \A s \in Streams : s # p.s => inQueue'[s] = inQueue[s]
  BY EnqueueType
<1>2. CASE Waiters(p.s) = {} /\ rpc' = rpc
  <2>1. \A s \in Streams : Waiters(s)' = Waiters(s) /\ Woken(s)' = Woken(s)
    BY <1>2 DEF Waiters, Woken
  <2>2. ASSUME NEW s \in Streams, s # p.s
        PROVE  Waiters(s)' # {} => Len(inQueue'[s]) <= Cardinality(Woken(s)')
    BY <1>1, <2>1, <2>2, SameStream
  <2>3. Waiters(p.s)' = {}
    BY <1>1, <1>2, <2>1
  <2> QED BY <2>2, <2>3 DEF EnoughWoken
<1>3. ASSUME NEW r \in Waiters(p.s), rpc' = [rpc EXCEPT ![r] = "woken"]
      PROVE  EnoughWoken'
  <2>1. /\ Cardinality(Woken(p.s)') = Cardinality(Woken(p.s)) + 1
        /\ \A t \in Streams : t # p.s =>
              Waiters(t)' = Waiters(t) /\ Woken(t)' = Woken(t)
    BY <1>1, <1>3, OneMoreWoken
  <2>2. Len(inQueue[p.s]) <= Cardinality(Woken(p.s))
    BY <1>1 DEF EnoughWoken
  <2>3. Len(inQueue'[p.s]) <= Cardinality(Woken(p.s)')
    BY <1>1, <2>1, <2>2, WokenFinite, QueueLength
  <2>4. ASSUME NEW s \in Streams, s # p.s
        PROVE  Waiters(s)' # {} => Len(inQueue'[s]) <= Cardinality(Woken(s)')
    BY <1>1, <2>1, <2>4, SameStream
  <2> QED BY <2>3, <2>4 DEF EnoughWoken
<1> QED BY <1>2, <1>3 DEF Signal

\* Neither the peer nor a step outside the mutex of a stream disturbs the count.
LEMMA OthersEnough ==
    ASSUME EnoughWoken, inQueue' = inQueue,
           \A s \in Streams : Waiters(s)' = Waiters(s) /\ Woken(s)' = Woken(s)
    PROVE  EnoughWoken'
  BY DEF EnoughWoken

LEMMA TransportEnough ==
    ASSUME TypeInv, EnoughWoken, Transport
    PROVE  EnoughWoken'
<1>1. CASE TransportLoad
  <2>1. inQueue' = inQueue /\ rpc' = rpc /\ call' = call
    BY <1>1 DEF TransportLoad, readerVars
  <2> QED BY <2>1, OthersEnough DEF Waiters, Woken
<1>2. CASE TransportStore
  <2>1. Head(wire) \in Packet
    BY <1>2, HeadTail DEF TransportStore, TypeInv, TypeOK, TransportOK
  <2>2. Enqueue(Head(wire)) /\ Signal(Head(wire).s) /\ call' = call
    BY <1>2 DEF TransportStore
  <2> QED BY <2>1, <2>2, ArrivalEnough
<1>3. CASE QueueExtended
  <2>1. Head(wire) \in Packet
    BY <1>3, HeadTail DEF QueueExtended, TypeInv, TypeOK
  <2>2. Enqueue(Head(wire)) /\ Signal(Head(wire).s) /\ call' = call
    BY <1>3 DEF QueueExtended
  <2> QED BY <2>1, <2>2, ArrivalEnough
<1> QED BY <1>1, <1>2, <1>3 DEF Transport

\* A reader that was not waiting takes out at most one packet, and if it had been
\* woken there is one woken reader less.
LEMMA TakeEnough ==
    ASSUME TypeInv, EnoughWoken, NEW r \in Readers, NEW s \in Streams, Take(r, s),
           \/ rpc[r] = "idle"
           \/ rpc[r] = "woken" /\ call[r].s = s
    PROVE  EnoughWoken'
<1>1. /\ inQueue[s] = <<>> => inQueue' = inQueue
      /\ inQueue[s] # <<>> => Len(inQueue'[s]) = Len(inQueue[s]) - 1
      /\ \A t \in Streams : t # s => inQueue'[t] = inQueue[t]
  BY TakeType
<1>2. /\ rpc \in [Readers -> {"idle", "wait", "woken", "adjust", "load", "store"}]
      /\ rpc' = [rpc EXCEPT ![r] = rpc'[r]] /\ rpc'[r] \in {"idle", "adjust"}
      /\ call' = [call EXCEPT ![r] = NoCall]
      /\ call \in [Readers -> [s : Streams, mode : Modes] \cup {NoCall}]
  BY DEF Take, TypeInv, TypeOK
<1>3. \A t \in Streams : Waiters(t)' = Waiters(t)
  BY <1>2 DEF Waiters
<1>4. ASSUME NEW t \in Streams, t # s
      PROVE  Waiters(t)' # {} => Len(inQueue'[t]) <= Cardinality(Woken(t)')
  <2>1. Woken(t)' = Woken(t)
    BY <1>2, <1>4 DEF Woken
  <2> QED BY <1>1, <1>3, <1>4, <2>1, SameStream
<1>5. ASSUME Waiters(s) # {}
      PROVE  Len(inQueue'[s]) <= Cardinality(Woken(s)')
  <2>1. Len(inQueue[s]) <= Cardinality(Woken(s)) /\ Len(inQueue[s]) \in Nat
          /\ (inQueue[s] = <<>> => Len(inQueue[s]) = 0)
    BY <1>5, QueueLength DEF EnoughWoken
  <2>2. Woken(s)' = Woken(s) \ {r}
    BY <1>2 DEF Woken
  <2>3. /\ Cardinality(Woken(s)) \in Nat /\ Cardinality(Woken(s)') \in Nat
        /\ Cardinality(Woken(s)') >= Cardinality(Woken(s)) - 1
    <3>1. Cardinality(Woken(s) \ {r}) \in {Cardinality(Woken(s)), Cardinality(Woken(s)) - 1}
      BY WokenFinite, FS_RemoveElement
    <3>2. Cardinality(Woken(s)) \in Nat /\ Cardinality(Woken(s)') \in Nat
      BY WokenFinite
    <3>3. Cardinality(Woken(s)') \in {Cardinality(Woken(s)), Cardinality(Woken(s)) - 1}
      BY <2>2, <3>1
    <3> DEFINE before == Cardinality(Woken(s))
               after == Cardinality(Woken(s)')
    <3>4. before \in Nat /\ after \in {before, before - 1}
      BY <3>2, <3>3
    <3> HIDE DEF before, after
    <3>5. after >= before - 1
      BY <3>4
    <3> QED BY <3>2, <3>5 DEF before, after
  <2>4. CASE inQueue[s] = <<>>
    BY <1>1, <2>1, <2>3, <2>4
  <2>5. CASE inQueue[s] # <<>>
    BY <1>1, <2>1, <2>3, <2>5
  <2> QED BY <2>4, <2>5
<1> QED BY <1>3, <1>4, <1>5 DEF EnoughWoken

LEMMA ReaderEnough ==
    ASSUME TypeInv, EnoughWoken, NEW r \in Readers, Call(r) \/ GoOn(r)
    PROVE  EnoughWoken'
<1>1. ASSUME NEW s \in Streams, NEW mode \in Modes, Read(r, s, mode)
      PROVE  EnoughWoken'
  BY <1>1, TakeEnough DEF Read
<1>2. ASSUME NEW s \in Streams, NEW mode \in Modes, Block(r, s, mode)
      PROVE  EnoughWoken'
  <2>1. /\ rpc \in [Readers -> {"idle", "wait", "woken", "adjust", "load", "store"}]
        /\ call \in [Readers -> [s : Streams, mode : Modes] \cup {NoCall}]
        /\ rpc[r] = "idle" /\ inQueue[s] = <<>> /\ inQueue' = inQueue
        /\ rpc' = [rpc EXCEPT ![r] = "wait"]
        /\ call' = [call EXCEPT ![r] = [s |-> s, mode |-> mode]]
    BY <1>2 DEF Block, TypeInv, TypeOK
  <2>2. \A t \in Streams : Woken(t)' = Woken(t)
    BY <2>1 DEF Woken
  <2>3. \A t \in Streams : t # s => Waiters(t)' = Waiters(t)
    BY <2>1 DEF Waiters
  <2>4. Len(inQueue'[s]) <= Cardinality(Woken(s)')
    BY <2>1, QueueLength, WokenFinite
  <2>5. ASSUME NEW t \in Streams, t # s
        PROVE  Waiters(t)' # {} => Len(inQueue'[t]) <= Cardinality(Woken(t)')
    BY <2>1, <2>2, <2>3, <2>5, SameStream
  <2> QED BY <2>4, <2>5 DEF EnoughWoken
<1>3. CASE TimeOut(r)
  <2>0. PICK s \in Streams : s = call[r].s
    BY <1>3 DEF TimeOut, TypeInv, CallOK
  <2>1. /\ r \in Waiters(s) /\ inQueue' = inQueue /\ call' = call
        /\ rpc' = [rpc EXCEPT ![r] = "woken"]
    BY <1>3, <2>0 DEF TimeOut, Waiters
  <2>2. /\ Cardinality(Woken(s)') = Cardinality(Woken(s)) + 1
        /\ \A t \in Streams : t # s =>
              Waiters(t)' = Waiters(t) /\ Woken(t)' = Woken(t)
    BY <2>1, OneMoreWoken
  <2>3. Len(inQueue'[s]) <= Cardinality(Woken(s)')
    BY <2>1, <2>2, WokenFinite, QueueLength DEF EnoughWoken
  <2>4. ASSUME NEW t \in Streams, t # s
        PROVE  Waiters(t)' # {} => Len(inQueue'[t]) <= Cardinality(Woken(t)')
    BY <2>1, <2>2, <2>4, SameStream
  <2> QED BY <2>3, <2>4 DEF EnoughWoken
<1>4. CASE WakeUp(r)
  <2>1. call[r].s \in Streams /\ rpc[r] = "woken" /\ Take(r, call[r].s)
    BY <1>4 DEF WakeUp, TypeInv, CallOK
  <2> QED BY <2>1, TakeEnough
<1>5. CASE QueueAdjust(r) \/ LoadWindow(r) \/ StoreWindow(r)
  <2>1. /\ rpc \in [Readers -> {"idle", "wait", "woken", "adjust", "load", "store"}]
        /\ rpc[r] \in {"adjust", "load", "store"} /\ inQueue' = inQueue /\ call' = call
        /\ rpc' = [rpc EXCEPT ![r] = rpc'[r]] /\ rpc'[r] \in {"load", "store", "idle"}
    BY <1>5 DEF QueueAdjust, LoadWindow, StoreWindow, TypeInv, TypeOK
  <2>2. \A s \in Streams : Waiters(s)' = Waiters(s) /\ Woken(s)' = Woken(s)
    BY <2>1 DEF Waiters, Woken
  <2> QED BY <2>1, <2>2, OthersEnough
<1> QED BY <1>1, <1>2, <1>3, <1>4, <1>5 DEF Call, GoOn

LEMMA NextEnough == TypeInv /\ EnoughWoken /\ [Next]_vars => EnoughWoken'
<1> SUFFICES ASSUME TypeInv, EnoughWoken, [Next]_vars PROVE EnoughWoken'
  OBVIOUS
<1>1. CASE Peer \/ SocketDies \/ UNCHANGED vars
  <2>1. inQueue' = inQueue /\ rpc' = rpc /\ call' = call
    BY <1>1 DEF Peer, PeerSends, PeerGetsAdjust, SocketDies, vars, readerVars
  <2> QED BY <2>1, OthersEnough DEF Waiters, Woken
<1> QED BY <1>1, TransportEnough, ReaderEnough DEF Next

\* One signal per packet, timeouts, and any number of readers that poll, wait and take
\* packets from one another: data never lies in a queue while all who read it sleep.
THEOREM NothingStranded == Spec => []NoStrandedData
<1>1. Init => EnoughWoken
  BY DEF Init, EnoughWoken, Waiters
<1>2. TypeInv /\ EnoughWoken => NoStrandedData
  <2> SUFFICES ASSUME TypeInv, EnoughWoken, NEW s \in Streams,
                      inQueue[s] # <<>>, Waiters(s) # {}
               PROVE  \E r \in Readers : rpc[r] = "woken" /\ call[r].s = s
    BY DEF NoStrandedData
  <2>1. Len(inQueue[s]) \in Nat \ {0}
    <3>1. inQueue[s] \in Seq(Packet)
      BY DEF TypeInv, TypeOK
    <3> QED BY <3>1, EmptySeq
  <2>2. Cardinality(Woken(s)) # 0
    BY <2>1, WokenFinite DEF EnoughWoken
  <2>3. Woken(s) # {}
    BY <2>2, FS_EmptySet
  <2> QED BY <2>3 DEF Woken
<1> QED BY <1>1, <1>2, TypeInvariance, NextEnough, PTL DEF Spec
-----------------------------------------------------------------------------
(* Every byte once and in its place.                                       *)

Goes(packets, from, to) ==
    LET EndOf(i) == IF i = 0 THEN from ELSE packets[i].off + packets[i].len
    IN  /\ \A i \in DOMAIN packets : packets[i].off = EndOf(i - 1)
        /\ EndOf(Len(packets)) = to

LEMMA GoesAppend ==
    ASSUME NEW packets \in Seq(Packet), NEW from, NEW to, Goes(packets, from, to),
           NEW p \in Packet, p.off = to
    PROVE  Goes(Append(packets, p), from, to + p.len)
<1> DEFINE t == Append(packets, p)
           n == Len(packets)
<1>1. /\ n \in Nat /\ Len(t) = n + 1 /\ t[n + 1] = p
      /\ DOMAIN packets = 1 .. n /\ DOMAIN t = 1 .. n + 1
      /\ \A i \in 1 .. n : t[i] = packets[i]
  OBVIOUS
<1> HIDE DEF t, n
<1>2. ASSUME NEW i \in 1 .. n + 1
      PROVE  t[i].off = IF i - 1 = 0 THEN from ELSE t[i - 1].off + t[i - 1].len
  <2>1. CASE i = n + 1
    <3>1. i - 1 = n /\ t[i] = p
      BY <1>1, <2>1
    <3>2. to = IF n = 0 THEN from ELSE packets[n].off + packets[n].len
      BY <1>1 DEF Goes, n
    <3>3. n # 0 => t[n] = packets[n]
      BY <1>1
    <3> QED BY <3>1, <3>2, <3>3
  <2>2. CASE i # n + 1
    <3>1. i \in 1 .. n /\ (i - 1 # 0 => i - 1 \in 1 .. n)
      BY <1>1, <2>2
    <3>2. packets[i].off = IF i - 1 = 0 THEN from ELSE packets[i - 1].off + packets[i - 1].len
      BY <1>1, <3>1 DEF Goes
    <3> QED BY <1>1, <3>1, <3>2
  <2> QED BY <2>1, <2>2
<1>3. n + 1 # 0 /\ t[n + 1].off + t[n + 1].len = to + p.len
  BY <1>1
<1> QED BY <1>1, <1>2, <1>3 DEF Goes, t

LEMMA GoesTail ==
    ASSUME NEW packets \in Seq(Packet), NEW from, NEW to, Goes(packets, from, to),
           packets # <<>>
    PROVE  Goes(Tail(packets), from + Head(packets).len, to)
<1> DEFINE t == Tail(packets)
           n == Len(t)
<1>1. /\ n \in Nat /\ Len(packets) = n + 1 /\ Head(packets) = packets[1]
      /\ DOMAIN packets = 1 .. n + 1 /\ DOMAIN t = 1 .. n
      /\ \A i \in 1 .. n : t[i] = packets[i + 1]
  OBVIOUS
<1> HIDE DEF t, n
<1>2. packets[1].off = from
  <2>1. 1 \in 1 .. n + 1 /\ 1 - 1 = 0
    BY <1>1
  <2>2. 1 \in DOMAIN packets
    BY <1>1, <2>1
  <2> QED BY <2>1, <2>2 DEF Goes
<1>3. ASSUME NEW i \in 1 .. n
      PROVE  t[i].off = IF i - 1 = 0 THEN from + packets[1].len
                        ELSE t[i - 1].off + t[i - 1].len
  <2>1. i + 1 \in 1 .. n + 1 /\ (i + 1) - 1 = i /\ i # 0 /\ i \in Nat
    BY <1>1
  <2>2. packets[i + 1].off = packets[i].off + packets[i].len
    BY <1>1, <2>1 DEF Goes
  <2>3. CASE i = 1
    BY <1>1, <1>2, <2>2, <2>3
  <2>4. CASE i # 1
    <3>1. i - 1 \in 1 .. n /\ (i - 1) + 1 = i /\ i - 1 # 0
      BY <1>1, <2>4
    <3> QED BY <1>1, <2>2, <3>1
  <2> QED BY <2>3, <2>4
<1>4. to = packets[n + 1].off + packets[n + 1].len
  BY <1>1 DEF Goes
<1>5. to = IF n = 0 THEN from + packets[1].len ELSE t[n].off + t[n].len
  BY <1>1, <1>2, <1>4
<1> QED BY <1>1, <1>3, <1>5 DEF Goes, t, n

LEMMA InOrderGoes ==
    InOrder <=> \A s \in Streams : Goes(Coming(s), taken[s], sent[s])
  BY DEF InOrder, Goes

LEMMA ComingType ==
    ASSUME TypeInv, NEW s \in Streams
    PROVE  /\ inQueue[s] \in Seq(Packet) /\ wire \in Seq(Packet)
           /\ Selection(wire, Of(s)) \in Seq(Packet)
           /\ Coming(s) \in Seq(Packet)
<1>1. inQueue[s] \in Seq(Packet) /\ wire \in Seq(Packet)
  BY DEF TypeInv, TypeOK
<1>2. Selection(wire, Of(s)) \in Seq(Packet \cap Of(s))
  BY <1>1, SelectionType
<1>3. Selection(wire, Of(s)) \in Seq(Packet)
  BY <1>2
<1> QED BY <1>1, <1>3 DEF Coming

LEMMA OfStream ==
    ASSUME NEW p \in Packet, NEW s \in Streams
    PROVE  p \in Of(s) <=> p.s = s
  BY DEF Packet, Of

LEMMA InOrderSends ==
    ASSUME TypeInv, InOrder, NEW s \in Streams, NEW k \in SendSizes, PeerSends(s, k),
           NEW u \in Streams
    PROVE  Goes(Coming(u), taken[u], sent[u])'
<1> DEFINE p == [s |-> s, off |-> sent[s], len |-> k]
<1>0. Goes(Coming(u), taken[u], sent[u])
  BY InOrderGoes
<1>1. /\ p \in Packet /\ p.s = s /\ p.off = sent[s] /\ p.len = k /\ wire' = Append(wire, p)
      /\ sent' = [sent EXCEPT ![s] = sent[s] + k] /\ sent \in [Streams -> Nat]
      /\ UNCHANGED <<inQueue, taken>>
  BY DEF PeerSends, Packet, TypeInv, TypeOK, readerVars
<1> HIDE DEF p
<1>2. Selection(wire', Of(u)) =
        IF p \in Of(u) THEN Append(Selection(wire, Of(u)), p) ELSE Selection(wire, Of(u))
  BY <1>1, ComingType, SelectionAppend
<1>3. CASE u = s
  <2>1. Selection(wire', Of(u)) = Append(Selection(wire, Of(u)), p)
    BY <1>1, <1>2, <1>3, OfStream
  <2>2. Coming(u)' = Append(Coming(u), p)
    <3>1. \A a, b \in Seq(Packet) : a \o Append(b, p) = Append(a \o b, p)
      BY <1>1
    <3> QED BY <1>1, <2>1, <3>1, ComingType DEF Coming, Of
  <2>3. Goes(Append(Coming(u), p), taken[u], sent[u] + k)
    BY <1>0, <1>1, <1>3, ComingType, GoesAppend
  <2>4. sent'[u] = sent[u] + k
    BY <1>1, <1>3
  <2> HIDE DEF Goes
  <2> QED BY <1>1, <2>2, <2>3, <2>4
<1>4. CASE u # s
  <2>1. Coming(u)' = Coming(u) /\ sent'[u] = sent[u]
    BY <1>1, <1>2, <1>4, OfStream DEF Coming, Of
  <2> QED BY <1>0, <1>1, <2>1
<1> QED BY <1>3, <1>4

LEMMA AppendConcats ==
    ASSUME NEW S, NEW x \in S
    PROVE  \A a \in Seq(S) : \A b \in Seq(S) : Append(a, x) \o b = a \o (<<x>> \o b)
<1> TAKE a \in Seq(S)
<1> TAKE b \in Seq(S)
<1>1. <<x>> \in Seq(S)
  OBVIOUS
<1>2. Append(a, x) = a \o <<x>>
  BY AppendIsConcat
<1>3. (a \o <<x>>) \o b = a \o (<<x>> \o b)
  BY <1>1, ConcatAssociative
<1> QED BY <1>2, <1>3

LEMMA InOrderMoves ==
    ASSUME TypeInv, InOrder, wire # <<>>, Enqueue(Head(wire)), wire' = Tail(wire),
           UNCHANGED <<taken, sent>>, NEW u \in Streams
    PROVE  Goes(Coming(u), taken[u], sent[u])'
<1> DEFINE p == Head(wire)
<1>0. Goes(Coming(u), taken[u], sent[u])
  BY InOrderGoes
<1>1. p \in Packet /\ p.s \in Streams /\ Tail(wire) \in Seq(Packet)
      /\ inQueue' = [inQueue EXCEPT ![p.s] = Append(inQueue[p.s], p)]
      /\ inQueue \in [Streams -> Seq(Packet)]
  <2>1. wire \in Seq(Packet) /\ inQueue \in [Streams -> Seq(Packet)]
    BY DEF TypeInv, TypeOK
  <2>2. p \in Packet /\ Tail(wire) \in Seq(Packet)
    BY <2>1
  <2> HIDE DEF p
  <2>3. p.s \in Streams
    BY <2>2 DEF Packet
  <2> QED BY <2>1, <2>2, <2>3 DEF Enqueue, p
<1>2. /\ p \in Of(u) => Selection(wire, Of(u)) = <<p>> \o Selection(wire', Of(u))
      /\ p \notin Of(u) => Selection(wire, Of(u)) = Selection(wire', Of(u))
  BY ComingType, SelectionHead
<1>3. Selection(wire', Of(u)) \in Seq(Packet)
  <2>1. Selection(Tail(wire), Of(u)) \in Seq(Packet \cap Of(u))
    BY <1>1, SelectionType
  <2> QED BY <2>1
<1> HIDE DEF p
<1>4. CASE p.s = u
  <2>1. Selection(wire, Of(u)) = <<p>> \o Selection(wire', Of(u))
    BY <1>1, <1>2, <1>4, OfStream
  <2>2. \A a \in Seq(Packet) : \A b \in Seq(Packet) : Append(a, p) \o b = a \o (<<p>> \o b)
    <3>1. PICK x \in Packet : x = p
      BY <1>1
    <3>2. \A a \in Seq(Packet) : \A b \in Seq(Packet) : Append(a, x) \o b = a \o (<<x>> \o b)
      BY AppendConcats
    <3> QED BY <3>1, <3>2
  <2>3. inQueue'[u] = Append(inQueue[u], p) /\ inQueue[u] \in Seq(Packet)
    BY <1>1, <1>4
  <2>4. Coming(u)' = Coming(u)
    BY <1>3, <2>1, <2>2, <2>3 DEF Coming, Of
  <2> QED BY <1>0, <2>4
<1>5. CASE p.s # u
  <2>1. Selection(wire, Of(u)) = Selection(wire', Of(u)) /\ inQueue'[u] = inQueue[u]
    BY <1>1, <1>2, <1>5, OfStream
  <2>2. Coming(u)' = Coming(u)
    BY <2>1 DEF Coming, Of
  <2> QED BY <1>0, <2>2
<1> QED BY <1>4, <1>5

LEMMA InOrderTakes ==
    ASSUME TypeInv, InOrder, NEW r \in Readers, NEW s \in Streams, Take(r, s), NEW u \in Streams
    PROVE  Goes(Coming(u), taken[u], sent[u])'
<1>0. Goes(Coming(u), taken[u], sent[u])
  BY InOrderGoes
<1>1. UNCHANGED <<wire, sent>> /\ taken \in [Streams -> Nat]
      /\ inQueue \in [Streams -> Seq(Packet)]
  BY DEF Take, peerVars, TypeInv, TypeOK
<1>2. CASE inQueue[s] = <<>>
  <2>1. UNCHANGED <<inQueue, taken>>
    BY <1>2 DEF Take
  <2>2. Coming(u)' = Coming(u)
    BY <1>1, <2>1 DEF Coming, Of
  <2> QED BY <1>0, <1>1, <2>1, <2>2
<1>3. CASE inQueue[s] # <<>>
  <2>1. /\ inQueue' = [inQueue EXCEPT ![s] = Tail(inQueue[s])]
        /\ taken' = [taken EXCEPT ![s] = taken[s] + Head(inQueue[s]).len]
    BY <1>3 DEF Take
  <2>2. CASE u = s
    <3> DEFINE q == inQueue[s]
               w == Selection(wire, Of(s))
    <3>1. q \in Seq(Packet) /\ w \in Seq(Packet) /\ q # <<>>
      BY <1>3, ComingType
    <3> HIDE DEF q, w
    <3>2. q \o w # <<>> /\ Head(q \o w) = Head(q) /\ Tail(q \o w) = Tail(q) \o w
      BY <3>1
    <3>3. Coming(s) = q \o w /\ Coming(s)' = Tail(q) \o w
      BY <1>1, <2>1 DEF Coming, Of, q, w
    <3>4. Goes(Tail(Coming(s)), taken[s] + Head(Coming(s)).len, sent[s])
      BY <1>0, <2>2, <3>2, <3>3, ComingType, GoesTail
    <3>5. taken'[s] = taken[s] + Head(Coming(s)).len
      BY <1>1, <2>1, <3>2, <3>3 DEF q
    <3> QED BY <1>1, <2>2, <3>2, <3>3, <3>4, <3>5
  <2>3. CASE u # s
    <3>1. inQueue'[u] = inQueue[u] /\ taken'[u] = taken[u]
      BY <1>1, <2>1, <2>3
    <3>2. Coming(u)' = Coming(u)
      BY <1>1, <3>1 DEF Coming, Of
    <3> QED BY <1>0, <1>1, <3>1, <3>2
  <2> QED BY <2>2, <2>3
<1> QED BY <1>2, <1>3

LEMMA InOrderNext == TypeInv /\ InOrder /\ [Next]_vars => InOrder'
<1> SUFFICES ASSUME TypeInv, InOrder, [Next]_vars, NEW u \in Streams
             PROVE  Goes(Coming(u), taken[u], sent[u])'
  BY DEF InOrder, Goes
<1>1. CASE TransportStore \/ QueueExtended
  <2>1. wire # <<>> /\ Enqueue(Head(wire)) /\ wire' = Tail(wire) /\ UNCHANGED <<taken, sent>>
    BY <1>1 DEF TransportStore, QueueExtended, TypeInv, TransportOK
  <2> QED BY <2>1, InOrderMoves
<1>2. CASE \E r \in Readers, s \in Streams : Take(r, s)
  BY <1>2, InOrderTakes
<1>3. CASE \E s \in Streams, k \in SendSizes : PeerSends(s, k)
  BY <1>3, InOrderSends
<1>4. CASE UNCHANGED <<wire, sent, inQueue, taken>>
  <2>1. Coming(u)' = Coming(u)
    BY <1>4 DEF Coming, Of
  <2> QED BY <1>4, <2>1, InOrderGoes
<1>5. \/ TransportStore \/ QueueExtended
      \/ \E r \in Readers, s \in Streams : Take(r, s)
      \/ \E s \in Streams, k \in SendSizes : PeerSends(s, k)
      \/ UNCHANGED <<wire, sent, inQueue, taken>>
  <2>1. \A r \in Readers : WakeUp(r) => call[r].s \in Streams /\ Take(r, call[r].s)
    BY DEF WakeUp, TypeInv, CallOK
  <2> QED BY <2>1 DEF Next, Transport, Peer, TransportLoad, PeerGetsAdjust, SocketDies, Call,
                  GoOn, Read, Block, TimeOut, QueueAdjust, LoadWindow, StoreWindow, vars,
                  peerVars, readerVars
<1> QED BY <1>1, <1>2, <1>3, <1>4, <1>5

\* Whoever reads, and however reads, timeouts, signals and arrivals interleave, each
\* byte of a stream is read once and in its place (queueInboundData, getInboundData).
THEOREM InOrderAlways == Spec => []InOrder
<1>1. Init => InOrder
  <2> SUFFICES ASSUME Init, NEW s \in Streams PROVE Goes(Coming(s), taken[s], sent[s])
    BY InOrderGoes
  <2>1. Selection(wire, Of(s)) = <<>>
    BY SelectionEmpty DEF Init
  <2>2. Coming(s) = <<>> \o <<>> /\ taken[s] = sent[s]
    BY <2>1 DEF Init, Coming
  <2>3. Coming(s) = <<>>
    BY <2>2
  <2> QED BY <2>2, <2>3 DEF Goes
<1> QED BY <1>1, InOrderNext, TypeInvariance, PTL DEF Spec

-----------------------------------------------------------------------------
(* Receive: the packets of the server, the packet under way in the ring,   *)
(* and the cipher, in one invariant.                                       *)

Served == [type : {"kexinit", "reply", "newkeys", "data", "disconnect"}, from : Nat,
           len : PlainLens \cup Lens, keys : Nat, damaged : BOOLEAN]

\* The place of the first byte of packet k, sent or to be sent next.
Start(k) == IF k \in DOMAIN served THEN served[k].from ELSE Total

ServedOK ==
    /\ served \in Seq(Served) /\ Len(served) <= MaxPackets
    /\ Total \in Nat /\ arrived \in 0 .. Total
    /\ \A k \in DOMAIN served :
        /\ served[k].keys = Count("newkeys", 1 .. k - 1)
        /\ served[k].damaged => served[k].keys > 0
        /\ served[k].len >= BlockOf(served[k].keys)
        /\ Start(k + 1) = served[k].from + WireLen(served[k])
        /\ \A j \in 1 .. k - 1 : served[j].from < served[k].from
        /\ served[k].from < Total

Swapping == {"endKeyExchange", "waiting", "awake"}
underWay == Len(inbound) + 1

CiphersOK ==
    /\ cipher = Count("newkeys", 1 .. Len(inbound))
    /\ newCipher \in {0, cipher + 1}
    /\ pc = "awake" => newCipher # 0

PlaceOK ==
    /\ newPacket \in Seq(Nat)
    /\ newLen = 0 <=> newPacket = <<>>
    /\ pc \in {"fill", "check"} \cup Swapping => newLen # 0
    /\ pc \in {"read", "loop", "fill", "check"} =>
         /\ arrived - left = Start(underWay) + Len(newPacket)
         /\ sequenceNum = Len(inbound)
    /\ pc \in Swapping =>
         /\ arrived - left = Start(underWay + 1)
         /\ sequenceNum = underWay
         /\ served[underWay].type = "newkeys" /\ ~served[underWay].damaged

ReceiveInv == RingKept /\ Genuine /\ ServedOK /\ CiphersOK /\ PlaceOK

-----------------------------------------------------------------------------
(* The ring. *)

LEMMA ReceiveSizes ==
    /\ RawBufSize \in Nat \ {0} /\ MaxPackets \in Nat
    /\ PlainBlock \in 1 .. RawBufSize - 1 /\ CipherBlock \in 1 .. RawBufSize - 1
    /\ BlockOf(cipher) \in 1 .. RawBufSize - 1
    /\ \A m \in MacLens : m \in 0 .. RawBufSize - 1
    /\ \A n \in PlainLens : n \in Nat /\ n >= PlainBlock
    /\ \A n \in Lens : n \in Nat /\ n >= CipherBlock
    /\ DamagedLens \subseteq Nat \ {0}
<1>1. /\ RawBufSize \in Nat \ {0} /\ MaxPackets \in Nat
      /\ PlainBlock \in 1 .. RawBufSize - 1 /\ CipherBlock \in 1 .. RawBufSize - 1
      /\ \A m \in MacLens : m \in 0 .. RawBufSize - 1
  BY SizesAssumption
<1>2. BlockOf(cipher) \in 1 .. RawBufSize - 1
  BY <1>1 DEF BlockOf
<1> QED BY <1>1, <1>2, SizesAssumption

\* A place in a ring of size n, at most once around.
LEMMA Around ==
    ASSUME NEW n \in Nat \ {0}, NEW x \in 0 .. 2 * n - 1
    PROVE  x % n = IF x < n THEN x ELSE x - n
<1> DEFINE q == x \div n
           r == x % n
<1>1. x = n * q + r /\ q \in Int /\ r \in 0 .. n - 1
  BY SMT
<1> HIDE DEF q, r
<1>2. q <= -1 => n * q <= - n
  BY <1>1, SMT
<1>3. q >= 2 => n * q >= 2 * n
  BY <1>1, SMT
<1>4. q \in {0, 1}
  BY <1>1, <1>2, <1>3, SMT
<1>5. q = 0 => n * q = 0
  BY SMT
<1>6. q = 1 => n * q = n
  BY SMT
<1>7. r = IF x < n THEN x ELSE x - n
  BY <1>1, <1>4, <1>5, <1>6, SMT
<1> QED BY <1>7 DEF r

\* The ring f of size n holds, from place w on, l numbers that begin with c: first
\* those up to its end, then those from its start.
Holding(f, n, w, l, c) ==
    /\ \A x \in w .. n - 1 : x - w < l => f[x] = c + (x - w)
    /\ \A x \in 0 .. w - 1 : x + n - w < l => f[x] = c + (x + n - w)

LEMMA HoldingIs ==
    ASSUME NEW n \in Nat \ {0}, NEW f, NEW w \in 0 .. n - 1, NEW l \in 0 .. n, NEW c \in Int
    PROVE  (\A i \in 0 .. l - 1 : f[(w + i) % n] = c + i) <=> Holding(f, n, w, l, c)
<1>2. ASSUME NEW i \in 0 .. l - 1
      PROVE  (w + i) % n = IF w + i < n THEN w + i ELSE w + i - n
  <2>1. PICK x \in 0 .. 2 * n - 1 : x = w + i
    OBVIOUS
  <2>2. x % n = IF x < n THEN x ELSE x - n
    BY Around
  <2> QED BY <2>1, <2>2
<1>3. ASSUME \A i \in 0 .. l - 1 : f[(w + i) % n] = c + i
      PROVE  Holding(f, n, w, l, c)
  <2>1. ASSUME NEW x \in w .. n - 1, x - w < l PROVE f[x] = c + (x - w)
    <3>1. x - w \in 0 .. l - 1 /\ w + (x - w) = x /\ x < n
      BY <2>1
    <3>2. (w + (x - w)) % n = x
      BY <1>2, <3>1
    <3> QED BY <1>3, <3>1, <3>2
  <2>2. ASSUME NEW x \in 0 .. w - 1, x + n - w < l PROVE f[x] = c + (x + n - w)
    <3>1. x + n - w \in 0 .. l - 1 /\ w + (x + n - w) = x + n /\ ~(x + n < n)
      BY <2>2
    <3>2. (w + (x + n - w)) % n = x
      BY <1>2, <3>1
    <3> QED BY <1>3, <3>1, <3>2
  <2> QED BY <2>1, <2>2 DEF Holding
<1>4. ASSUME Holding(f, n, w, l, c), NEW i \in 0 .. l - 1
      PROVE  f[(w + i) % n] = c + i
  <2>1. CASE w + i < n
    <3>1. w + i \in w .. n - 1 /\ (w + i) - w = i
      BY <2>1
    <3> QED BY <1>2, <1>4, <2>1, <3>1 DEF Holding
  <2>2. CASE ~(w + i < n)
    <3>1. w + i - n \in 0 .. w - 1 /\ (w + i - n) + n - w = i
      BY <2>2
    <3> QED BY <1>2, <1>4, <2>2, <3>1 DEF Holding
  <2> QED BY <2>1, <2>2
<1> QED BY <1>3, <1>4

\* n numbers, one after the other.
Numbers(c, n) == [i \in 1 .. n |-> c + i - 1]

\* The numbers from c up to, and without, d.
Upto(c, d) == [i \in 1 .. d - c |-> c + i - 1]

LEMMA UptoJoin ==
    ASSUME NEW c \in Int, NEW d \in Int, NEW e \in Int, c <= d, d <= e
    PROVE  Upto(c, d) \o Upto(d, e) = Upto(c, e)
<1>1. Upto(c, d) \in Seq(Int) /\ Len(Upto(c, d)) = d - c
  BY DEF Upto
<1>2. Upto(d, e) \in Seq(Int) /\ Len(Upto(d, e)) = e - d
  BY DEF Upto
<1>3. Upto(c, e) \in Seq(Int) /\ Len(Upto(c, e)) = e - c
  BY DEF Upto
<1> DEFINE s == Upto(c, d) \o Upto(d, e)
<1>4. s \in Seq(Int) /\ Len(s) = e - c
  <2>1. \A a, b \in Seq(Int) : a \o b \in Seq(Int) /\ Len(a \o b) = Len(a) + Len(b)
    OBVIOUS
  <2>2. s \in Seq(Int) /\ Len(s) = Len(Upto(c, d)) + Len(Upto(d, e))
    BY <1>1, <1>2, <2>1, Zenon
  <2> HIDE DEF s
  <2> QED BY <1>1, <1>2, <2>2
<1>5. ASSUME NEW i \in 1 .. e - c PROVE s[i] = c + i - 1
  <2>1. CASE i <= d - c
    <3>1. \A a, b \in Seq(Int) : \A j \in 1 .. Len(a) : (a \o b)[j] = a[j]
      OBVIOUS
    <3>2. i \in 1 .. Len(Upto(c, d))
      BY <1>1, <2>1
    <3>3. s[i] = Upto(c, d)[i]
      BY <1>1, <1>2, <3>1, <3>2, Zenon
    <3> HIDE DEF s
    <3> QED BY <2>1, <3>3 DEF Upto
  <2>2. CASE i > d - c
    <3>1. s[i] = Upto(d, e)[i - (d - c)]
      BY <1>1, <1>2, <2>2, SMTT(30)
    <3>2. i - (d - c) \in 1 .. e - d
      BY <2>2
    <3> HIDE DEF s
    <3> QED BY <3>1, <3>2 DEF Upto
  <2> HIDE DEF s
  <2> QED BY <2>1, <2>2
<1> HIDE DEF s
<1>6. \A i \in 1 .. e - c : Upto(c, e)[i] = c + i - 1
  BY DEF Upto
<1>7. s = Upto(c, e)
  BY <1>3, <1>4, <1>5, <1>6, SeqEqual
<1> QED BY <1>7 DEF s

LEMMA NumbersType ==
    ASSUME NEW c \in Nat, NEW n \in Nat
    PROVE  Numbers(c, n) \in Seq(Nat) /\ Len(Numbers(c, n)) = n
  BY DEF Numbers

-----------------------------------------------------------------------------
(* What is cut out of the ring. *)

\* The ring holds the bytes that are left to process.
RingHolds == Holding(raw, RawBufSize, workIter, left, arrived - left)

LEMMA RingKeptIs ==
    ASSUME ReceiveTypes, arrived \in Nat
    PROVE  RingKept <=> RingHolds /\ (left > 0 => writeIter = (workIter + left) % RawBufSize)
<1>1. PICK n \in Nat \ {0} : n = RawBufSize
  BY ReceiveSizes
<1>2. PICK w \in 0 .. n - 1, l \in 0 .. n, c \in Int :
         w = workIter /\ l = left /\ c = arrived - left
  BY <1>1 DEF ReceiveTypes, Places
<1>3. (\A i \in 0 .. l - 1 : raw[(w + i) % n] = c + i) <=> Holding(raw, n, w, l, c)
  BY HoldingIs
<1> QED BY <1>1, <1>2, <1>3 DEF RingKept, RingHolds

\* Bytes in one piece are the numbers of what is left, from a place in it on.
LEMMA BytesBefore ==
    ASSUME NEW n \in Nat \ {0}, n = RawBufSize, NEW w \in 0 .. n - 1, NEW l \in 0 .. n,
           NEW c \in Int, Holding(raw, n, w, l, c),
           NEW x \in w .. n, NEW m \in Nat, x + m <= n, x + m - w <= l
    PROVE  Bytes(x, m) = Numbers(c + (x - w), m)
<1>1. ASSUME NEW i \in 1 .. m PROVE raw[x + i - 1] = c + (x - w) + i - 1
  <2>1. x + i - 1 \in w .. n - 1 /\ (x + i - 1) - w < l
    OBVIOUS
  <2>2. raw[x + i - 1] = c + ((x + i - 1) - w)
    BY <2>1 DEF Holding
  <2> QED BY <2>2
<1> QED BY <1>1 DEF Bytes, Numbers

LEMMA BytesBehind ==
    ASSUME NEW n \in Nat \ {0}, n = RawBufSize, NEW w \in 0 .. n - 1, NEW l \in 0 .. n,
           NEW c \in Int, Holding(raw, n, w, l, c),
           NEW x \in 0 .. w, NEW m \in Nat, x + m + n - w <= l
    PROVE  Bytes(x, m) = Numbers(c + (x + n - w), m)
<1>1. ASSUME NEW i \in 1 .. m PROVE raw[x + i - 1] = c + (x + n - w) + i - 1
  <2>1. x + i - 1 \in 0 .. w - 1 /\ (x + i - 1) + n - w < l
    OBVIOUS
  <2>2. raw[x + i - 1] = c + ((x + i - 1) + n - w)
    BY <2>1 DEF Holding
  <2> QED BY <2>2
<1> QED BY <1>1 DEF Bytes, Numbers

\* The copy gives the next m bytes and leaves the iterator behind them.
LEMMA CopyRaw ==
    ASSUME NEW n \in Nat \ {0}, n = RawBufSize, NEW w \in 0 .. n - 1, w = workIter,
           NEW l \in 0 .. n, NEW c \in Int, Holding(raw, n, w, l, c), NEW m \in 0 .. l
    PROVE  /\ copyRaw(m).text = Numbers(c, m)
           /\ copyRaw(m).iter = IF w + m < n THEN w + m ELSE w + m - n
<1>1. CASE w + m > n
  <2> DEFINE e == n - w
  <2>1. e \in Nat /\ m - e \in Nat /\ w + e <= n /\ w + e - w <= l /\ c + (w - w) = c
        /\ 0 + (m - e) + n - w <= l /\ c + (0 + n - w) = c + e /\ e + (m - e) = m
    BY <1>1
  <2>2. Bytes(w, e) = Numbers(c, e)
    <3>1. w \in w .. n
      OBVIOUS
    <3> HIDE DEF e
    <3> QED BY <2>1, <3>1, BytesBefore
  <2>3. Bytes(0, m - e) = Numbers(c + e, m - e)
    <3>1. 0 \in 0 .. w
      OBVIOUS
    <3>2. PICK k \in Nat : k = m - e
      BY <2>1
    <3> HIDE DEF e
    <3>3. Bytes(0, k) = Numbers(c + (0 + n - w), k)
      BY <2>1, <3>1, <3>2, BytesBehind
    <3> QED BY <2>1, <3>2, <3>3
  <2>4. Numbers(c, e) \o Numbers(c + e, m - e) = Numbers(c, m)
    <3> HIDE DEF e
    <3>1. PICK d \in Int, t \in Int : d = c + e /\ t = c + m /\ c <= d /\ d <= t
      BY <2>1
    <3>2. /\ Numbers(c, e) = Upto(c, d) /\ Numbers(c + e, m - e) = Upto(d, t)
          /\ Numbers(c, m) = Upto(c, t)
      BY <2>1, <3>1 DEF Numbers, Upto
    <3>3. Upto(c, d) \o Upto(d, t) = Upto(c, t)
      BY <3>1, UptoJoin
    <3> QED BY <3>2, <3>3
  <2>5. copyRaw(m).text = Bytes(w, e) \o Bytes(0, m - e) /\ copyRaw(m).iter = m - e
    BY <1>1 DEF copyRaw
  <2>6. m - e = IF w + m < n THEN w + m ELSE w + m - n
    BY <1>1
  <2> HIDE DEF e
  <2>7. copyRaw(m).text = Numbers(c, m)
    BY <2>2, <2>3, <2>4, <2>5
  <2> QED BY <2>5, <2>6, <2>7
<1>2. CASE ~(w + m > n)
  <2>1. copyRaw(m).text = Bytes(w, m) /\ copyRaw(m).iter = Advance(w, m)
    BY <1>2 DEF copyRaw
  <2>2. Bytes(w, m) = Numbers(c + (w - w), m)
    <3>1. w \in w .. n /\ m \in Nat /\ w + m <= n /\ w + m - w <= l
      BY <1>2
    <3> QED BY <3>1, BytesBefore
  <2>3. c + (w - w) = c
    OBVIOUS
  <2> QED BY <1>2, <2>1, <2>2, <2>3 DEF Advance
<1> QED BY <1>1, <1>2

LEMMA Quotient ==
    ASSUME NEW t \in Nat, NEW b \in Nat \ {0}
    PROVE  \E q \in Nat, r \in 0 .. b - 1 : t = q * b + r /\ t \div b = q
<1> DEFINE q == t \div b
           r == t % b
<1>1. t = b * q + r /\ q \in Int /\ r \in 0 .. b - 1
  BY SMT
<1> HIDE DEF q, r
<1>2. q <= -1 => b * q <= - b
  BY <1>1, SMT
<1>3. q \in Nat
  BY <1>1, <1>2, SMT
<1>4. b * q = q * b
  BY <1>1, SMT
<1>5. t = q * b + r
  BY <1>1, <1>4
<1> QED BY <1>1, <1>3, <1>5 DEF q

\* So does decrypt, of whole blocks: up to the end of the ring, across it, and behind it.
LEMMA Decrypt ==
    ASSUME NEW n \in Nat \ {0}, n = RawBufSize, NEW w \in 0 .. n - 1, w = workIter,
           NEW l \in 0 .. n, NEW c \in Int, Holding(raw, n, w, l, c),
           NEW b \in 1 .. n - 1, b = BlockOf(cipher), NEW j \in Nat, j * b <= l
    PROVE  /\ decrypt(j * b).text = Numbers(c, j * b)
           /\ decrypt(j * b).iter = IF w + j * b < n THEN w + j * b ELSE w + j * b - n
<1>0. PICK m \in 0 .. l : m = j * b
  <2>1. j * b \in Nat
    BY SMT
  <2> QED BY <2>1
<1>1. PICK q \in Nat, r \in 0 .. b - 1 : n - w = q * b + r /\ (n - w) \div b = q
  <2>1. n - w \in Nat /\ b \in Nat \ {0}
    OBVIOUS
  <2>2. PICK t \in Nat : t = n - w
    BY <2>1
  <2>3. \E q \in Nat, r \in 0 .. b - 1 : t = q * b + r /\ t \div b = q
    BY <2>1, Quotient
  <2> QED BY <2>2, <2>3
<1>2. PICK u \in Nat : u = q * b
  <2>1. q * b \in Nat
    BY SMT
  <2> QED BY <2>1
<1>3. n - w = u + r /\ w + u \in w .. n
  BY <1>1, <1>2
<1>4. CASE ~(w + m > n)
  <2>1. /\ decrypt(m).text = Bytes(w, 0) \o <<>> \o Bytes(w, m)
        /\ decrypt(m).iter = IF m = 0 THEN w ELSE Advance(w, m)
    <3>1. m - 0 - 0 = m /\ w + 0 = w
      OBVIOUS
    <3>2. ~(w + m > n)
      BY <1>4
    <3> QED BY <3>1, <3>2 DEF decrypt
  <2>2. Bytes(w, m) = Numbers(c, m)
    <3>1. w \in w .. n /\ m \in Nat /\ w + m <= n /\ w + m - w <= l /\ c + (w - w) = c
      BY <1>4
    <3>2. Bytes(w, m) = Numbers(c + (w - w), m)
      BY <3>1, BytesBefore
    <3> QED BY <3>1, <3>2
  <2>3. Bytes(w, 0) = <<>>
    BY DEF Bytes
  <2>4. Numbers(c, m) \in Seq(Int)
    BY DEF Numbers
  <2>5. \A s \in Seq(Int) : <<>> \o <<>> \o s = s
    OBVIOUS
  <2>6. decrypt(m).text = Numbers(c, m)
    BY <2>1, <2>2, <2>3, <2>4, <2>5
  <2>7. (IF m = 0 THEN w ELSE Advance(w, m)) = IF w + m < n THEN w + m ELSE w + m - n
    BY <1>4 DEF Advance
  <2> QED BY <1>0, <2>1, <2>6, <2>7
<1>5. CASE w + m > n /\ r = 0
  <2>1. /\ decrypt(m).text = Bytes(w, u) \o <<>> \o Bytes(0, m - u)
        /\ decrypt(m).iter = IF m - u = 0 THEN 0 ELSE Advance(0, m - u)
    <3>1. ((n - w) \div b) * b = u
      BY <1>1, <1>2
    <3>2. (n - w) - u = 0 /\ ~((n - w) - u > 0) /\ m - u - 0 = m - u /\ b # 0
      BY <1>3, <1>5, SMT
    <3> QED BY <1>5, <3>1, <3>2 DEF decrypt
  <2>2. Bytes(w, u) = Numbers(c, u)
    <3>1. w \in w .. n /\ w + u <= n /\ w + u - w <= l /\ c + (w - w) = c
      BY <1>3, <1>5
    <3>2. Bytes(w, u) = Numbers(c + (w - w), u)
      BY <3>1, BytesBefore
    <3> QED BY <3>1, <3>2
  <2>3. PICK k \in Nat : k = m - u /\ k > 0 /\ k < n /\ u + k = m
    BY <1>3, <1>5
  <2>4. Bytes(0, k) = Numbers(c + u, k)
    <3>1. 0 \in 0 .. w /\ 0 + k + n - w <= l /\ c + (0 + n - w) = c + u
      BY <1>3, <1>5, <2>3
    <3>2. Bytes(0, k) = Numbers(c + (0 + n - w), k)
      BY <3>1, BytesBehind
    <3> QED BY <3>1, <3>2
  <2>5. Numbers(c, u) \in Seq(Int) /\ Numbers(c + u, k) \in Seq(Int)
    BY DEF Numbers
  <2>6. \A s \in Seq(Int), t \in Seq(Int) : s \o <<>> \o t = s \o t
    OBVIOUS
  <2>7. Numbers(c, u) \o Numbers(c + u, k) = Numbers(c, m)
    <3>1. PICK d \in Int, t \in Int : d = c + u /\ t = c + m /\ c <= d /\ d <= t
      BY <2>3
    <3>2. /\ Numbers(c, u) = Upto(c, d) /\ Numbers(c + u, k) = Upto(d, t)
          /\ Numbers(c, m) = Upto(c, t)
      BY <2>3, <3>1 DEF Numbers, Upto
    <3>3. Upto(c, d) \o Upto(d, t) = Upto(c, t)
      BY <3>1, UptoJoin
    <3> QED BY <3>2, <3>3
  <2>8. decrypt(m).text = Numbers(c, m)
    <3>1. m - u = k
      BY <2>3
    <3>2. decrypt(m).text = Numbers(c, u) \o <<>> \o Numbers(c + u, k)
      BY <2>1, <2>2, <2>4, <3>1
    <3> QED BY <2>5, <2>6, <2>7, <3>2
  <2>9. (IF k = 0 THEN 0 ELSE Advance(0, k)) = k /\ ~(w + m < n) /\ w + m - n = k
    BY <1>3, <1>5, <2>3 DEF Advance
  <2> QED BY <1>0, <2>1, <2>3, <2>8, <2>9
<1>6. CASE w + m > n /\ r > 0
  <2>1. PICK k \in Nat : m = u + b + k
    <3>1. j * b > q * b
      BY <1>0, <1>2, <1>3, <1>6
    <3>2. j > q
      <4>1. j <= q => j * b <= q * b
        BY SMT
      <4>2. j * b \in Int /\ q * b \in Int
        BY <1>0, <1>2
      <4> QED BY <3>1, <4>1, <4>2
    <3>3. PICK i \in Nat : j = q + 1 + i
      <4>1. j - q - 1 \in Nat /\ j = q + 1 + (j - q - 1)
        BY <3>2
      <4> QED BY <4>1
    <3>4. (q + 1 + i) * b = q * b + b + i * b /\ i * b \in Nat
      BY SMT
    <3> QED BY <1>0, <1>2, <3>3, <3>4
  <2>2. /\ decrypt(m).text = Bytes(w, u) \o (Bytes(w + u, r) \o Bytes(0, b - r))
                               \o Bytes(b - r, k)
        /\ decrypt(m).iter = IF k = 0 THEN b - r ELSE Advance(b - r, k)
    <3>1. ((n - w) \div b) * b = u
      BY <1>1, <1>2
    <3>2. (n - w) - u = r /\ r > 0 /\ m - u - b = k /\ b # 0
      BY <1>3, <1>6, <2>1
    <3> QED BY <1>6, <3>1, <3>2 DEF decrypt
  <2>3. Bytes(w, u) = Numbers(c, u)
    <3>1. w \in w .. n /\ w + u <= n /\ w + u - w <= l /\ c + (w - w) = c
      BY <1>3, <1>6
    <3>2. Bytes(w, u) = Numbers(c + (w - w), u)
      BY <3>1, BytesBefore
    <3> QED BY <3>1, <3>2
  <2>4. Bytes(w + u, r) = Numbers(c + u, r)
    <3>1. w + u \in w .. n /\ r \in Nat /\ (w + u) + r <= n /\ (w + u) + r - w <= l
            /\ c + ((w + u) - w) = c + u
      BY <1>3, <1>6
    <3>2. PICK x \in w .. n : x = w + u
      BY <3>1
    <3>3. Bytes(x, r) = Numbers(c + (x - w), r)
      BY <3>1, <3>2, BytesBefore
    <3> QED BY <3>1, <3>2, <3>3
  <2>5. PICK e \in Nat : e = b - r /\ e <= w /\ e + k <= w /\ u + r = n - w
    BY <1>3, <1>6, <2>1
  <2>6. Bytes(0, e) = Numbers(c + (u + r), e)
    <3>1. 0 \in 0 .. w /\ 0 + e + n - w <= l /\ c + (0 + n - w) = c + (u + r)
      BY <1>3, <1>6, <2>1, <2>5
    <3>2. Bytes(0, e) = Numbers(c + (0 + n - w), e)
      BY <3>1, BytesBehind
    <3> QED BY <3>1, <3>2
  <2>7. Bytes(e, k) = Numbers(c + (u + b), k)
    <3>1. e \in 0 .. w /\ e + n - w = u + b
      <4>1. e \in 0 .. w
        BY <2>5, SMT
      <4>2. e + (n - w) = u + b
        <5>1. e = b - r /\ n - w = u + r
          BY <2>5
        <5> QED BY <5>1, SMT
      <4>3. e + n - w = e + (n - w)
        BY SMT
      <4> QED BY <4>1, <4>2, <4>3
    <3>3. e + k + n - w <= l /\ c + (e + n - w) = c + (u + b)
      <4>1. e + k + n - w = (e + n - w) + k
        BY SMT
      <4>2. (e + n - w) + k = m
        BY <2>1, <3>1
      <4>3. c + (e + n - w) = c + (u + b)
        BY <3>1
      <4>4. m <= l
        OBVIOUS
      <4> QED BY <4>1, <4>2, <4>3, <4>4
    <3>2. Bytes(e, k) = Numbers(c + (e + n - w), k)
      BY <3>1, <3>3, BytesBehind
    <3> QED BY <3>2, <3>3
  <2>8. r + e = b /\ r \in Nat
    BY <2>5
  <2>9. decrypt(m).text = Numbers(c, u)
            \o (Numbers(c + u, r) \o Numbers(c + (u + r), e)) \o Numbers(c + (u + b), k)
    BY <2>2, <2>3, <2>4, <2>5, <2>6, <2>7
  <2>10. decrypt(m).text = Numbers(c, m)
    <3>1. PICK x \in Int, y \in Int, z \in Int, t \in Int :
            x = c + u /\ y = c + (u + r) /\ z = c + (u + b) /\ t = c + m
      BY <2>1
    <3>2. /\ x - c = u /\ y - x = r /\ z - y = e /\ t - z = k
          /\ c <= x /\ x <= y /\ y <= z /\ z <= t
      BY <2>1, <2>8, <3>1
    <3>3. Upto(c, x) \o (Upto(x, y) \o Upto(y, z)) \o Upto(z, t) = Upto(c, t)
      <4>1. x <= z /\ c <= z
        BY <3>2
      <4>2. Upto(x, y) \o Upto(y, z) = Upto(x, z)
        BY <3>2, UptoJoin
      <4>3. Upto(c, x) \o Upto(x, z) = Upto(c, z)
        BY <3>2, <4>1, UptoJoin
      <4>4. Upto(c, z) \o Upto(z, t) = Upto(c, t)
        BY <3>2, <4>1, UptoJoin
      <4> QED BY <4>2, <4>3, <4>4
    <3>4. /\ Numbers(c, u) = Upto(c, x) /\ Numbers(c + u, r) = Upto(x, y)
          /\ Numbers(c + (u + r), e) = Upto(y, z) /\ Numbers(c + (u + b), k) = Upto(z, t)
      BY <3>1, <3>2 DEF Numbers, Upto
    <3>5. Numbers(c, m) = Upto(c, t)
      BY <2>1, <3>1 DEF Numbers, Upto
    <3> QED BY <2>9, <3>3, <3>4, <3>5
  <2>11. (IF k = 0 THEN e ELSE Advance(e, k)) = e + k
    BY <1>6, <2>1, <2>5 DEF Advance
  <2>12. ~(w + m < n) /\ w + m - n = e + k
    BY <1>3, <1>6, <2>1, <2>5
  <2> QED BY <1>0, <2>2, <2>5, <2>10, <2>11, <2>12
<1> QED BY <1>1, <1>4, <1>5, <1>6

\* Whichever way, m bytes are cut out of the front of what is left.
LEMMA CutOutIs ==
    ASSUME NEW n \in Nat \ {0}, n = RawBufSize, NEW w \in 0 .. n - 1, w = workIter,
           NEW l \in 0 .. n, NEW c \in Int, Holding(raw, n, w, l, c), NEW m \in 0 .. l,
           cipher = 0 \/ \E j \in Nat : m = j * CipherBlock
    PROVE  /\ CutOut(m).text = Numbers(c, m)
           /\ CutOut(m).iter = IF w + m < n THEN w + m ELSE w + m - n
<1>1. CASE cipher = 0
  BY <1>1, CopyRaw DEF CutOut
<1>2. CASE cipher # 0
  <2>1. PICK b \in 1 .. n - 1 : b = BlockOf(cipher) /\ b = CipherBlock
    BY <1>2, ReceiveSizes DEF BlockOf
  <2>2. PICK j \in Nat : m = j * b
    BY <1>2, <2>1
  <2>3. j * b <= l
    BY <2>2
  <2>4. /\ decrypt(j * b).text = Numbers(c, j * b)
        /\ decrypt(j * b).iter = IF w + j * b < n THEN w + j * b ELSE w + j * b - n
    BY <2>1, <2>3, Decrypt
  <2> QED BY <1>2, <2>2, <2>4 DEF CutOut
<1> QED BY <1>1, <1>2

-----------------------------------------------------------------------------
(* What is left after a cut and after a read. *)

Wrapped(x, n) == IF x < n THEN x ELSE x - n

LEMMA WrappedIn ==
    ASSUME NEW n \in Nat \ {0}, NEW w \in 0 .. n - 1, NEW m \in 0 .. n
    PROVE  Wrapped(w + m, n) \in 0 .. n - 1
  BY DEF Wrapped

LEMMA HoldingCut ==
    ASSUME NEW n \in Nat \ {0}, NEW f, NEW w \in 0 .. n - 1, NEW l \in 0 .. n, NEW c \in Int,
           NEW m \in 0 .. l, Holding(f, n, w, l, c)
    PROVE  Holding(f, n, Wrapped(w + m, n), l - m, c + m)
<1>1. CASE w + m < n
  <2>1. PICK v \in 0 .. n - 1 : v = w + m /\ v = Wrapped(w + m, n)
    BY <1>1 DEF Wrapped
  <2>2. ASSUME NEW x \in v .. n - 1, x - v < l - m PROVE f[x] = (c + m) + (x - v)
    <3>1. x \in w .. n - 1 /\ x - w < l /\ c + (x - w) = (c + m) + (x - v)
      BY <2>1, <2>2
    <3> QED BY <3>1 DEF Holding
  <2>3. ASSUME NEW x \in 0 .. v - 1, x + n - v < l - m PROVE f[x] = (c + m) + (x + n - v)
    <3>1. x \in 0 .. w - 1 /\ x + n - w < l /\ c + (x + n - w) = (c + m) + (x + n - v)
      BY <2>1, <2>3
    <3> QED BY <3>1 DEF Holding
  <2>4. Holding(f, n, v, l - m, c + m)
    BY <2>2, <2>3 DEF Holding
  <2> QED BY <2>1, <2>4
<1>2. CASE ~(w + m < n)
  <2>1. PICK v \in 0 .. n - 1 : v = w + m - n /\ v = Wrapped(w + m, n)
    BY <1>2 DEF Wrapped
  <2>2. ASSUME NEW x \in v .. n - 1, x - v < l - m PROVE f[x] = (c + m) + (x - v)
    <3>1. x \in 0 .. w - 1 /\ x + n - w < l /\ c + (x + n - w) = (c + m) + (x - v)
      BY <2>1, <2>2
    <3> QED BY <3>1 DEF Holding
  <2>3. ASSUME NEW x \in 0 .. v - 1, x + n - v < l - m PROVE f[x] = (c + m) + (x + n - v)
    <3>1. FALSE
      BY <2>1, <2>3
    <3> QED BY <3>1
  <2>4. Holding(f, n, v, l - m, c + m)
    BY <2>2, <2>3 DEF Holding
  <2> QED BY <2>1, <2>4
<1> QED BY <1>1, <1>2

LEMMA HoldingRead ==
    ASSUME NEW n \in Nat \ {0}, NEW f, NEW g, NEW w \in 0 .. n - 1, NEW l \in 0 .. n,
           NEW c \in Int, Holding(f, n, w, l, c),
           NEW t \in 0 .. n - 1, t = Wrapped(w + l, n), NEW k \in 1 .. n - l, t + k <= n,
           \A x \in 0 .. n - 1 : g[x] = IF x \in t .. t + k - 1 THEN c + l + (x - t) ELSE f[x]
    PROVE  Holding(g, n, w, l + k, c)
<1>1. CASE w + l < n
  <2>1. t = w + l
    BY <1>1 DEF Wrapped
  <2>2. ASSUME NEW x \in w .. n - 1, x - w < l + k PROVE g[x] = c + (x - w)
    <3>1. CASE x - w < l
      <4>1. x \in 0 .. n - 1 /\ x \notin t .. t + k - 1
        BY <2>1, <3>1
      <4>2. g[x] = f[x]
        BY <4>1
      <4> QED BY <3>1, <4>2 DEF Holding
    <3>2. CASE ~(x - w < l)
      <4>1. x \in 0 .. n - 1 /\ x \in t .. t + k - 1 /\ c + l + (x - t) = c + (x - w)
        BY <2>1, <2>2, <3>2
      <4>2. g[x] = c + l + (x - t)
        BY <4>1
      <4> QED BY <4>1, <4>2
    <3> QED BY <3>1, <3>2
  <2>3. ASSUME NEW x \in 0 .. w - 1, x + n - w < l + k PROVE g[x] = c + (x + n - w)
    <3>1. FALSE
      BY <2>1, <2>3
    <3> QED BY <3>1
  <2> QED BY <2>2, <2>3 DEF Holding
<1>2. CASE ~(w + l < n)
  <2>1. t = w + l - n
    BY <1>2 DEF Wrapped
  <2>2. ASSUME NEW x \in w .. n - 1, x - w < l + k PROVE g[x] = c + (x - w)
    <3>1. x \in 0 .. n - 1 /\ x \notin t .. t + k - 1 /\ x - w < l
      BY <1>2, <2>1
    <3>2. g[x] = f[x]
      BY <3>1
    <3> QED BY <3>1, <3>2 DEF Holding
  <2>3. ASSUME NEW x \in 0 .. w - 1, x + n - w < l + k PROVE g[x] = c + (x + n - w)
    <3>1. CASE x + n - w < l
      <4>1. x \in 0 .. n - 1 /\ x \notin t .. t + k - 1
        BY <2>1, <3>1
      <4>2. g[x] = f[x]
        BY <4>1
      <4> QED BY <3>1, <4>2 DEF Holding
    <3>2. CASE ~(x + n - w < l)
      <4>1. x \in 0 .. n - 1 /\ x \in t .. t + k - 1 /\ c + l + (x - t) = c + (x + n - w)
        BY <2>1, <2>3, <3>2
      <4>2. g[x] = c + l + (x - t)
        BY <4>1
      <4> QED BY <4>1, <4>2
    <3> QED BY <3>1, <3>2
  <2> QED BY <2>2, <2>3 DEF Holding
<1> QED BY <1>1, <1>2

\* The ring after m bytes were cut out.
LEMMA RingCut ==
    ASSUME ReceiveInv, NEW m \in 0 .. left, UNCHANGED <<raw, writeIter, arrived>>,
           left' = left - m, workIter' = Wrapped(workIter + m, RawBufSize), ReceiveTypes'
    PROVE  RingKept'
<1>1. PICK n \in Nat \ {0} : n = RawBufSize
  BY ReceiveSizes
<1>2. ReceiveTypes /\ arrived \in Nat
  BY DEF ReceiveInv, RingKept, ServedOK
<1>3. PICK w \in 0 .. n - 1, l \in 0 .. n, c \in Int :
         w = workIter /\ l = left /\ c = arrived - left
  BY <1>1, <1>2 DEF ReceiveTypes, Places
<1>4. Holding(raw, n, w, l, c) /\ (l > 0 => writeIter = (w + l) % n)
  BY <1>1, <1>2, <1>3, RingKeptIs DEF ReceiveInv, RingHolds
<1>10. m \in 0 .. l
  BY <1>3
<1>5. PICK v \in 0 .. n - 1 : v = Wrapped(w + m, n)
  <2>1. m \in 0 .. n
    BY <1>10, SMT
  <2>2. Wrapped(w + m, n) \in 0 .. n - 1
    BY <2>1, WrappedIn
  <2> QED BY <2>2
<1>6. Holding(raw, n, v, l - m, c + m)
  BY <1>4, <1>5, <1>10, HoldingCut
<1>7. workIter' = v /\ left' = l - m /\ arrived' - left' = c + m
  BY <1>1, <1>2, <1>3, <1>5, <1>10
<1>8. ASSUME l - m > 0 PROVE writeIter = (v + (l - m)) % n
  <2>1. PICK x \in 0 .. 2 * n - 1 : x = w + l
    OBVIOUS
  <2>2. PICK y \in 0 .. 2 * n - 1 : y = v + (l - m)
    BY <1>10
  <2>3. x % n = (IF x < n THEN x ELSE x - n) /\ y % n = (IF y < n THEN y ELSE y - n)
    BY Around
  <2>4. (IF x < n THEN x ELSE x - n) = (IF y < n THEN y ELSE y - n)
    BY <1>5, <1>8, <1>10, <2>1, <2>2 DEF Wrapped
  <2>5. writeIter = x % n
    <3>1. l > 0
      BY <1>8, <1>10
    <3> QED BY <1>4, <2>1, <3>1
  <2> QED BY <2>2, <2>3, <2>4, <2>5
<1>9. PICK k \in 0 .. n, d \in Int : k = l - m /\ d = c + m
  BY <1>10
<1>11. Holding(raw, n, v, k, d)
  BY <1>6, <1>9
<1>12. \A i \in 0 .. k - 1 : raw[(v + i) % n] = d + i
  BY <1>11, HoldingIs
<1> QED BY <1>1, <1>7, <1>8, <1>9, <1>12 DEF RingKept

\* A read puts k bytes behind those that are left, or at the start of an empty ring.
LEMMA RingRead ==
    ASSUME ReceiveInv, Recv, ReceiveTypes'
    PROVE  RingKept'
<1>1. PICK n \in Nat \ {0} : n = RawBufSize
  BY ReceiveSizes
<1>2. ReceiveTypes /\ arrived \in Nat
  BY DEF ReceiveInv, RingKept, ServedOK
<1>3. PICK o \in 0 .. n - 1, l \in 0 .. n, c \in Int :
         o = workIter /\ l = left /\ c = arrived - left
  BY <1>1, <1>2 DEF ReceiveTypes, Places
<1>4. Holding(raw, n, o, l, c) /\ (l > 0 => writeIter = (o + l) % n)
  BY <1>1, <1>2, <1>3, RingKeptIs DEF ReceiveInv, RingHolds
<1>5. PICK w \in 0 .. n - 1 : w = IF l = 0 THEN 0 ELSE o
  BY <1>1
<1>6. Holding(raw, n, w, l, c)
  <2>1. CASE l = 0
    BY <2>1 DEF Holding
  <2>2. CASE l # 0
    BY <1>4, <1>5, <2>2
  <2> QED BY <2>1, <2>2
<1>7. PICK t \in 0 .. n - 1 : t = Wrapped(w + l, n)
  <2>1. Wrapped(w + l, n) \in 0 .. n - 1
    BY WrappedIn
  <2> QED BY <2>1
<1>8. t = IF l = 0 THEN 0 ELSE writeIter
  <2>1. CASE l = 0
    BY <1>5, <1>7, <2>1 DEF Wrapped
  <2>2. CASE l # 0
    <3>1. PICK x \in 0 .. 2 * n - 1 : x = w + l
      OBVIOUS
    <3>2. x % n = IF x < n THEN x ELSE x - n
      BY Around
    <3>3. w = o /\ l > 0 /\ l # 0
      BY <1>5, <2>2
    <3> QED BY <1>4, <1>7, <3>1, <3>2, <3>3 DEF Wrapped
  <2> QED BY <2>1, <2>2
<1>9. PICK k \in 1 .. maxRead :
        /\ raw' = [i \in Places |->
                    IF i \in t .. t + k - 1 THEN arrived + (i - t) ELSE raw[i]]
        /\ writeIter' = (t + k) % n /\ workIter' = w
        /\ left' = left + k /\ arrived' = arrived + k
  <2>1. \A e \in {l, left} : StartsOver <=> e = 0
    BY <1>3 DEF StartsOver
  <2>2. t = IF StartsOver THEN 0 ELSE writeIter
    BY <1>8, <2>1
  <2>3. w = IF StartsOver THEN 0 ELSE workIter
    BY <1>3, <1>5, <2>1
  <2> QED BY <1>1, <2>2, <2>3 DEF Recv
<1>10. k \in 1 .. n - l /\ t + k <= n
  <2>1. CASE l = 0
    <3>1. maxRead = n /\ t = 0
      BY <1>1, <1>3, <1>8, <2>1 DEF maxRead, StartsOver, spaceInRawBuf
    <3>2. k \in 1 .. n
      BY <3>1
    <3> QED BY <2>1, <3>1, <3>2
  <2>2. CASE l # 0
    <3>1. maxRead = IF t + (n - l) >= n THEN n - t ELSE n - l
      BY <1>1, <1>3, <1>8, <2>2 DEF maxRead, StartsOver, spaceInRawBuf
    <3>2. PICK x \in Nat : x = maxRead /\ x <= n - l /\ t + x <= n
      BY <1>7, <3>1 DEF Wrapped
    <3>3. k \in 1 .. x
      BY <3>2
    <3> QED BY <3>2, <3>3
  <2> QED BY <2>1, <2>2
<1>11. Holding(raw', n, w, l + k, c)
  <2>1. arrived = c + l
    BY <1>2, <1>3
  <2>2. \A x \in 0 .. n - 1 :
          raw'[x] = IF x \in t .. t + k - 1 THEN c + l + (x - t) ELSE raw[x]
    BY <1>1, <1>9, <2>1 DEF Places
  <2>3. PICK g : g = raw'
    OBVIOUS
  <2>4. k \in 1 .. n - l /\ t + k <= n
    BY <1>10
  <2>5. Holding(g, n, w, l + k, c)
    BY <1>6, <1>7, <2>2, <2>3, <2>4, HoldingRead
  <2> QED BY <2>3, <2>5
<1>12. PICK j \in 0 .. n : j = l + k /\ j > 0
  BY <1>10
<1>13. \A i \in 0 .. j - 1 : raw'[(w + i) % n] = c + i
  <2>1. PICK g : g = raw'
    OBVIOUS
  <2>2. Holding(g, n, w, j, c)
    BY <1>11, <1>12, <2>1
  <2>3. \A i \in 0 .. j - 1 : g[(w + i) % n] = c + i
    BY <2>2, HoldingIs
  <2> QED BY <2>1, <2>3
<1>14. (t + k) % n = (w + j) % n
  <2>1. PICK x \in 0 .. 2 * n - 1 : x = t + k
    BY <1>10
  <2>2. PICK y \in 0 .. 2 * n - 1 : y = w + j
    BY <1>12
  <2>3. x % n = (IF x < n THEN x ELSE x - n) /\ y % n = (IF y < n THEN y ELSE y - n)
    BY Around
  <2>4. (IF x < n THEN x ELSE x - n) = (IF y < n THEN y ELSE y - n)
    BY <1>7, <1>10, <1>12, <2>1, <2>2 DEF Wrapped
  <2> QED BY <2>1, <2>2, <2>3, <2>4
<1>15. left' = j /\ arrived' - left' = c
  BY <1>2, <1>3, <1>9, <1>12
<1> QED BY <1>1, <1>9, <1>13, <1>14, <1>15 DEF RingKept

-----------------------------------------------------------------------------
(* The packets of the server. *)

LEMMA ServedDomain ==
    ASSUME ServedOK
    PROVE  DOMAIN served = 1 .. Len(served) /\ Len(served) \in Nat
  BY DEF ServedOK

\* How many of the first packets are of a type.
LEMMA CountFirst ==
    ASSUME ServedOK, NEW type, NEW m \in Nat
    PROVE  /\ Count(type, 1 .. m) \in 0 .. m
           /\ Count(type, 1 .. m + 1) =
                Count(type, 1 .. m) + (IF served[m + 1].type = type THEN 1 ELSE 0)
<1> DEFINE S(j) == {k \in 1 .. j : served[k].type = type}
<1>1. IsFiniteSet(1 .. m) /\ Cardinality(1 .. m) = m
  BY FS_Interval
<1>2. S(m) \subseteq 1 .. m
  OBVIOUS
<1>3. IsFiniteSet(S(m)) /\ Cardinality(S(m)) \in 0 .. m
  <2>1. IsFiniteSet(S(m)) /\ Cardinality(S(m)) <= Cardinality(1 .. m)
    BY <1>1, <1>2, FS_Subset
  <2>2. Cardinality(S(m)) \in Nat
    BY <2>1, FS_CardinalityType
  <2> QED BY <1>1, <2>1, <2>2
<1>4. Count(type, 1 .. m) = Cardinality(S(m))
      /\ Count(type, 1 .. m + 1) = Cardinality(S(m + 1))
  BY DEF Count
<1>5. 1 .. m + 1 = (1 .. m) \cup {m + 1} /\ m + 1 \notin 1 .. m
  OBVIOUS
<1>6. CASE served[m + 1].type = type
  <2>1. S(m + 1) = S(m) \cup {m + 1} /\ m + 1 \notin S(m)
    BY <1>5, <1>6
  <2>2. Cardinality(S(m) \cup {m + 1}) = Cardinality(S(m)) + 1
    <3> HIDE DEF S
    <3> QED BY <1>3, <2>1, FS_AddElement
  <2> QED BY <1>3, <1>4, <1>6, <2>1, <2>2
<1>7. CASE served[m + 1].type # type
  <2>1. S(m + 1) = S(m)
    BY <1>5, <1>7
  <2> HIDE DEF S
  <2> QED BY <1>3, <1>4, <1>7, <2>1
<1> QED BY <1>6, <1>7

LEMMA ServedAt ==
    ASSUME ServedOK, NEW k \in DOMAIN served
    PROVE  /\ served[k].from \in Nat /\ served[k].len \in PlainLens \cup Lens
           /\ served[k].len \in Nat /\ served[k].keys \in Nat /\ served[k].damaged \in BOOLEAN
           /\ k \in Nat \ {0}
<1>1. served \in Seq(Served)
  BY DEF ServedOK
<1>2. served[k] \in Served /\ k \in Nat \ {0}
  BY <1>1
<1>3. PlainLens \cup Lens \subseteq Nat
  BY ReceiveSizes
<1> QED BY <1>2, <1>3 DEF Served

LEMMA PacketAtIs ==
    ASSUME ServedOK, NEW k \in DOMAIN served
    PROVE  PacketAt(served[k].from) = k
<1>1. \A j \in DOMAIN served : served[j].from = served[k].from => j = k
  <2>1. ASSUME NEW j \in DOMAIN served, j # k PROVE served[j].from # served[k].from
    <3>1. j \in 1 .. Len(served) /\ k \in 1 .. Len(served)
      BY ServedDomain
    <3>2. served[j].from \in Nat /\ served[k].from \in Nat
      BY ServedAt
    <3>3. j \in 1 .. k - 1 \/ k \in 1 .. j - 1
      BY <2>1, <3>1
    <3>4. served[j].from < served[k].from \/ served[k].from < served[j].from
      BY <2>1, <3>3 DEF ServedOK
    <3> QED BY <3>2, <3>4
  <2> QED BY <2>1
<1> QED BY <1>1 DEF PacketAt

LEMMA SizesOf ==
    ASSUME ReceiveTypes, NEW k \in Nat
    PROVE  MacOf(k) \in Nat /\ BlockOf(k) \in Nat \ {0} /\ macLen \in Nat
  BY ReceiveSizes DEF ReceiveTypes, MacOf, BlockOf

LEMMA InboundFirst ==
    ASSUME ReceiveInv
    PROVE  /\ inbound \in Seq(Nat) /\ Len(inbound) \in Nat
           /\ Len(inbound) <= Len(served) /\ Len(served) <= MaxPackets
           /\ Len(served) \in Nat /\ underWay = Len(inbound) + 1
           /\ {inbound[i] : i \in DOMAIN inbound} \ {0} = 1 .. Len(inbound)
           /\ newLen # 0 => underWay \in DOMAIN served
<1>1. inbound \in Seq(Nat) /\ Len(inbound) \in Nat /\ DOMAIN inbound = 1 .. Len(inbound)
  BY DEF ReceiveInv, RingKept, ReceiveTypes
<1>2. Len(served) <= MaxPackets /\ Len(served) \in Nat /\ DOMAIN served = 1 .. Len(served)
  BY ServedDomain DEF ReceiveInv, ServedOK
<1>3. \A i \in 1 .. Len(inbound) : inbound[i] = i /\ i \in 1 .. Len(served)
  BY <1>1, <1>2 DEF ReceiveInv, Genuine
<1>4. Len(inbound) <= Len(served)
  BY <1>1, <1>2, <1>3
<1>5. {inbound[i] : i \in DOMAIN inbound} \ {0} = 1 .. Len(inbound)
  <2>1. ASSUME NEW x PROVE x \in {inbound[i] : i \in 1 .. Len(inbound)} <=> x \in 1 .. Len(inbound)
    BY <1>3
  <2> QED BY <1>1, <2>1
<1>6. newLen # 0 => underWay \in DOMAIN served
  BY DEF ReceiveInv, Genuine, PacketsInStep, underWay
<1> QED BY <1>1, <1>2, <1>4, <1>5, <1>6 DEF underWay

\* The packet under construction is recognised as the next one.
LEMMA UnderWayIs ==
    ASSUME ReceiveInv, newLen # 0
    PROVE  /\ underWay \in DOMAIN served
           /\ newPacket \in Seq(Nat) /\ Len(newPacket) \in Nat \ {0}
           /\ newPacket = Numbers(served[underWay].from, Len(newPacket))
           /\ Head(newPacket) = served[underWay].from
           /\ PacketAt(Head(newPacket)) = underWay
           /\ served[underWay].keys = cipher
           /\ ~served[underWay].damaged => newLen = served[underWay].len
           /\ newLen \in Nat /\ (pc # "undefined" => Len(newPacket) <= newLen)
<1>1. /\ underWay \in DOMAIN served /\ served[underWay].keys = cipher
      /\ ~served[underWay].damaged => newLen = served[underWay].len
      /\ newPacket = [i \in DOMAIN newPacket |-> served[underWay].from + i - 1]
  BY DEF ReceiveInv, Genuine, PacketsInStep, underWay
<1>2. newPacket \in Seq(Nat) /\ newPacket # <<>>
  BY DEF ReceiveInv, PlaceOK
<1>3. Len(newPacket) \in Nat \ {0} /\ DOMAIN newPacket = 1 .. Len(newPacket)
      /\ Head(newPacket) = newPacket[1]
  BY <1>2
<1>4. ServedOK
  BY DEF ReceiveInv
<1>5. served[underWay].from \in Nat
  BY <1>1, <1>4, ServedAt
<1>6. newPacket[1] = served[underWay].from + 1 - 1
  BY <1>1, <1>3
<1>7. Head(newPacket) = served[underWay].from
  BY <1>3, <1>5, <1>6
<1>8. newPacket = Numbers(served[underWay].from, Len(newPacket))
  BY <1>1, <1>3 DEF Numbers
<1>9. newLen \in Nat /\ (pc # "undefined" => Len(newPacket) <= newLen)
  BY ReceiveSizes DEF ReceiveInv, RingKept, ReceiveTypes
<1> QED BY <1>1, <1>2, <1>3, <1>4, <1>7, <1>8, <1>9, PacketAtIs

\* Where packets begin and end.
LEMMA StartIs ==
    ASSUME ServedOK, ReceiveTypes
    PROVE  /\ \A k \in DOMAIN served :
                /\ Start(k) = served[k].from
                /\ Start(k + 1) = served[k].from + served[k].len + MacOf(served[k].keys)
                /\ Start(k) < Total
           /\ \A k \in Nat : Start(k) \in Nat
           /\ Start(Len(served) + 1) = Total
<1>1. ASSUME NEW k \in DOMAIN served
      PROVE  /\ Start(k) = served[k].from
             /\ Start(k + 1) = served[k].from + served[k].len + MacOf(served[k].keys)
             /\ Start(k) < Total
  <2>1. Start(k) = served[k].from /\ Start(k + 1) = served[k].from + WireLen(served[k])
        /\ served[k].from < Total
    BY DEF Start, ServedOK
  <2>2. MacOf(served[k].keys) \in Nat /\ served[k].len \in Nat /\ served[k].from \in Nat
    BY ServedAt, SizesOf
  <2> QED BY <2>1, <2>2 DEF WireLen
<1>2. ASSUME NEW k \in Nat PROVE Start(k) \in Nat
  BY ServedAt DEF Start, ServedOK
<1>3. Len(served) + 1 \notin DOMAIN served
  BY ServedDomain
<1> QED BY <1>1, <1>2, <1>3 DEF Start

-----------------------------------------------------------------------------
(* Each step keeps the invariant. *)

LEMMA ServedSame ==
    ASSUME ServedOK, UNCHANGED <<served, arrived, macLen>>
    PROVE  ServedOK'
  BY DEF ServedOK, Start, Total, WireLen, MacOf, BlockOf, Count

LEMMA ServedRead ==
    ASSUME ServedOK, UNCHANGED <<served, macLen>>, arrived' \in 0 .. Total
    PROVE  ServedOK'
  BY DEF ServedOK, Start, Total, WireLen, MacOf, BlockOf, Count

LEMMA RecvKeeps ==
    ASSUME ReceiveInv, Recv
    PROVE  ReceiveInv'
<1> USE DEF ReceiveInv
<1>1. pc = "read" /\ pc' = "loop" /\ UNCHANGED <<packetVars, queueVars, cipherVars, served>>
  BY DEF Recv
<1>2. PICK k \in 1 .. maxRead :
        /\ arrived + k <= Total
        /\ writeIter' = ((IF StartsOver THEN 0 ELSE writeIter) + k) % RawBufSize
        /\ workIter' = IF StartsOver THEN 0 ELSE workIter
        /\ left' = left + k /\ arrived' = arrived + k
        /\ raw' = [i \in Places |->
                    IF i \in (IF StartsOver THEN 0 ELSE writeIter)
                             .. (IF StartsOver THEN 0 ELSE writeIter) + k - 1
                    THEN arrived + (i - (IF StartsOver THEN 0 ELSE writeIter)) ELSE raw[i]]
  BY DEF Recv
<1>3. ReceiveTypes /\ arrived \in Nat /\ RawBufSize \in Nat \ {0} /\ Total \in Nat
  BY ReceiveSizes DEF RingKept, ServedOK
<1>4. left \in 0 .. RawBufSize /\ writeIter \in 0 .. RawBufSize - 1
      /\ workIter \in 0 .. RawBufSize - 1
  BY <1>3 DEF ReceiveTypes, Places
<1>5. maxRead \in Int /\ maxRead <= RawBufSize - left
  BY <1>3, <1>4 DEF maxRead, StartsOver, spaceInRawBuf
<1>6. k \in Nat /\ left + k <= RawBufSize
  BY <1>3, <1>4, <1>5
<1>7. ReceiveTypes'
  <2>1. PICK t \in 0 .. RawBufSize - 1 : t = IF StartsOver THEN 0 ELSE writeIter
    BY <1>3, <1>4
  <2>2. raw' \in [Places -> Nat]
    <3>1. ASSUME NEW i \in Places, i \in t .. t + k - 1 PROVE arrived + (i - t) \in Nat
      BY <1>3, <1>6, <3>1 DEF Places
    <3>2. raw \in [Places -> Nat]
      BY <1>3 DEF ReceiveTypes
    <3>3. raw' = [i \in Places |-> IF i \in t .. t + k - 1 THEN arrived + (i - t) ELSE raw[i]]
      BY <1>2, <2>1
    <3> QED BY <3>1, <3>2, <3>3
  <2>3. writeIter' \in Places
    <3>1. PICK x \in Nat : x = t + k
      BY <1>3, <1>6
    <3>2. writeIter' = x % RawBufSize
      BY <1>2, <2>1, <3>1
    <3>3. x % RawBufSize \in 0 .. RawBufSize - 1
      BY <1>3, SMT
    <3> QED BY <3>2, <3>3 DEF Places
  <2>4. workIter' \in Places /\ left' \in 0 .. RawBufSize
    BY <1>2, <1>3, <1>4, <1>6 DEF Places
  <2> QED BY <1>1, <1>3, <2>2, <2>3, <2>4 DEF ReceiveTypes, packetVars, queueVars, cipherVars
<1>8. RingKept'
  BY <1>7, RingRead
<1>9. Genuine'
  BY <1>1 DEF Genuine, PacketsInStep, packetVars, queueVars, cipherVars
<1>10. ServedOK'
  <2>1. arrived' \in 0 .. Total
    BY <1>2, <1>3, <1>6
  <2> QED BY <1>1, <2>1, ServedRead DEF cipherVars
<1>11. CiphersOK'
  BY <1>1 DEF CiphersOK, packetVars, queueVars, cipherVars, Count
<1>12. PlaceOK'
  <2>1. arrived' - left' = arrived - left
    BY <1>2, <1>3, <1>4, <1>6
  <2>2. Start(underWay)' = Start(underWay)
    BY <1>1 DEF Start, Total, underWay, queueVars, cipherVars, WireLen, MacOf
  <2> QED BY <1>1, <2>1, <2>2 DEF PlaceOK, packetVars, queueVars, Swapping, underWay
<1> QED BY <1>8, <1>9, <1>10, <1>11, <1>12

\* The steps that leave the ring alone.
LEMMA RingSame ==
    ASSUME RingKept, ReceiveTypes', UNCHANGED <<ringVars, arrived>>
    PROVE  RingKept'
  BY DEF RingKept, ringVars

LEMMA QuietKeeps ==
    ASSUME ReceiveInv, LoopEnds \/ LoopGoesOn \/ CheckFails \/ RecvEnds
    PROVE  ReceiveInv'
<1>1. /\ pc' \in {"read", "loop", "fill", "ended"} /\ UNCHANGED ringVars
      /\ UNCHANGED <<packetVars, queueVars, cipherVars, serverVars>>
  BY DEF LoopEnds, LoopGoesOn, CheckFails, RecvEnds
<1>2. pc' = "fill" => newLen # 0
  BY DEF LoopEnds, LoopGoesOn, CheckFails, RecvEnds
<1>3. pc \in {"read", "loop", "fill", "check"}
  BY DEF LoopEnds, LoopGoesOn, CheckFails, RecvEnds
<1>4. RingKept /\ Genuine /\ ServedOK /\ CiphersOK /\ PlaceOK /\ ReceiveTypes
  BY DEF ReceiveInv, RingKept
<1>5. ReceiveTypes'
  BY <1>1, <1>3, <1>4 DEF ReceiveTypes, ringVars, packetVars, queueVars, cipherVars
<1>6. RingKept'
  BY <1>1, <1>4, <1>5, RingSame DEF serverVars
<1>7. Genuine'
  BY <1>1, <1>4 DEF Genuine, PacketsInStep, packetVars, queueVars, cipherVars, serverVars
<1>8. ServedOK'
  BY <1>1, <1>4, ServedSame DEF cipherVars, serverVars
<1>9. CiphersOK'
  BY <1>1, <1>4 DEF CiphersOK, queueVars, cipherVars, serverVars, Count
<1>10. Start(underWay)' = Start(underWay)
  BY <1>1 DEF Start, Total, underWay, queueVars, cipherVars, serverVars, WireLen, MacOf
<1>11. PlaceOK'
  BY <1>1, <1>2, <1>3, <1>4, <1>10 DEF PlaceOK, packetVars, queueVars, serverVars, ringVars,
                                           Swapping, underWay
<1> QED BY <1>6, <1>7, <1>8, <1>9, <1>11 DEF ReceiveInv

LEMMA CutText ==
    ASSUME ReceiveInv, NEW m \in 0 .. left, cipher = 0 \/ \E j \in Nat : m = j * CipherBlock
    PROVE  /\ CutOut(m).text = Numbers(arrived - left, m)
           /\ CutOut(m).iter = Wrapped(workIter + m, RawBufSize)
<1>1. PICK n \in Nat \ {0} : n = RawBufSize
  BY ReceiveSizes
<1>2. ReceiveTypes /\ arrived \in Nat
  BY DEF ReceiveInv, RingKept, ServedOK
<1>3. PICK w \in 0 .. n - 1, l \in 0 .. n, c \in Int :
         w = workIter /\ l = left /\ c = arrived - left
  BY <1>1, <1>2 DEF ReceiveTypes, Places
<1>4. Holding(raw, n, w, l, c)
  BY <1>1, <1>2, <1>3, RingKeptIs DEF ReceiveInv, RingHolds
<1>5. PICK k \in 0 .. l : k = m
  BY <1>3
<1>6. cipher = 0 \/ \E j \in Nat : k = j * CipherBlock
  BY <1>5
<1>7. CutOut(k).text = Numbers(c, k) /\ CutOut(k).iter = IF w + k < n THEN w + k ELSE w + k - n
  BY <1>1, <1>3, <1>4, <1>6, CutOutIs
<1> QED BY <1>1, <1>3, <1>5, <1>7 DEF Wrapped

LEMMA MacText ==
    ASSUME ReceiveInv, NEW m \in 0 .. left
    PROVE  copyRaw(m).iter = Wrapped(workIter + m, RawBufSize)
<1>1. PICK n \in Nat \ {0} : n = RawBufSize
  BY ReceiveSizes
<1>2. ReceiveTypes /\ arrived \in Nat
  BY DEF ReceiveInv, RingKept, ServedOK
<1>3. PICK w \in 0 .. n - 1, l \in 0 .. n, c \in Int :
         w = workIter /\ l = left /\ c = arrived - left
  BY <1>1, <1>2 DEF ReceiveTypes, Places
<1>4. Holding(raw, n, w, l, c)
  BY <1>1, <1>2, <1>3, RingKeptIs DEF ReceiveInv, RingHolds
<1>5. PICK k \in 0 .. l : k = m
  BY <1>3
<1>7. copyRaw(k).iter = IF w + k < n THEN w + k ELSE w + k - n
  BY <1>1, <1>3, <1>4, CopyRaw
<1> QED BY <1>1, <1>3, <1>5, <1>7 DEF Wrapped

\* What a cut does to the iterator and to what is left.
LEMMA CutShape ==
    ASSUME ReceiveInv, NEW m \in 0 .. left
    PROVE  /\ Wrapped(workIter + m, RawBufSize) \in Places
           /\ left - m \in 0 .. RawBufSize /\ m \in Nat
           /\ arrived - (left - m) = (arrived - left) + m
<1>1. ReceiveTypes /\ arrived \in Nat /\ RawBufSize \in Nat \ {0}
  BY ReceiveSizes DEF ReceiveInv, RingKept, ServedOK
<1>2. workIter \in 0 .. RawBufSize - 1 /\ left \in 0 .. RawBufSize
  BY <1>1 DEF ReceiveTypes, Places
<1>3. m \in 0 .. RawBufSize
  BY <1>1, <1>2
<1>4. Wrapped(workIter + m, RawBufSize) \in Places
  BY <1>1, <1>2, <1>3, WrappedIn DEF Places
<1> QED BY <1>1, <1>2, <1>3, <1>4

\* A new packet is one of the server: the one under way.
LEMMA CreateKeeps ==
    ASSUME ReceiveInv, createNewReadPacket
    PROVE  ReceiveInv'
<1>1. PICK b \in Nat \ {0} : b = BlockOf(cipher)
  <2>1. BlockOf(cipher) \in Nat \ {0}
    BY ReceiveSizes
  <2> QED BY <2>1
<1>2. /\ pc = "loop" /\ left >= b /\ newLen = 0
      /\ newPacket' = CutOut(b).text /\ newLen' \in LengthsRead(CutOut(b).text)
      /\ workIter' = CutOut(b).iter /\ left' = left - b
      /\ pc' \in {"read", "fill", "undefined"} /\ (newLen' < b => pc' = "undefined")
      /\ UNCHANGED <<raw, writeIter, queueVars, cipherVars, serverVars>>
  BY <1>1 DEF createNewReadPacket
<1>3. RingKept /\ Genuine /\ ServedOK /\ CiphersOK /\ PlaceOK /\ ReceiveTypes
  BY DEF ReceiveInv, RingKept
<1>4. left \in Nat /\ b \in 0 .. left
  <2>1. left \in Nat
    BY <1>3 DEF ReceiveTypes
  <2> QED BY <1>2, <2>1
<1>5. cipher = 0 \/ \E j \in Nat : b = j * CipherBlock
  <2>1. cipher # 0 => b = 1 * CipherBlock
    BY <1>1, ReceiveSizes DEF BlockOf
  <2> QED BY <2>1
<1>6. /\ CutOut(b).text = Numbers(arrived - left, b)
      /\ CutOut(b).iter = Wrapped(workIter + b, RawBufSize)
  BY <1>4, <1>5, CutText
<1>7. /\ Wrapped(workIter + b, RawBufSize) \in Places
      /\ left - b \in 0 .. RawBufSize
      /\ arrived - (left - b) = (arrived - left) + b
  BY <1>4, CutShape
<1>8. newPacket = <<>> /\ arrived - left = Start(underWay) /\ sequenceNum = Len(inbound)
  <2>1. newPacket = <<>> /\ arrived - left = Start(underWay) + Len(newPacket)
        /\ sequenceNum = Len(inbound)
    BY <1>2, <1>3 DEF PlaceOK
  <2>2. Start(underWay) \in Nat
    BY <1>3, InboundFirst, StartIs
  <2> QED BY <2>1, <2>2
<1>9. underWay \in DOMAIN served
  <2>1. underWay \notin DOMAIN served => Start(underWay) = Total
    BY DEF Start
  <2>2. Total \in Nat /\ arrived \in 0 .. Total
    BY <1>3 DEF ServedOK
  <2> QED BY <1>2, <1>4, <1>8, <2>1, <2>2
<1>10. PICK c \in Nat : c = served[underWay].from /\ c = arrived - left
  BY <1>3, <1>8, <1>9, StartIs, ServedAt
<1>11. newPacket' = Numbers(c, b) /\ newPacket' \in Seq(Nat) /\ Len(newPacket') = b
       /\ Head(newPacket') = c
  <2>1. newPacket' = Numbers(c, b)
    BY <1>2, <1>6, <1>10
  <2>2. Numbers(c, b) \in Seq(Nat) /\ Len(Numbers(c, b)) = b /\ Numbers(c, b)[1] = c + 1 - 1
    BY NumbersType DEF Numbers
  <2>3. Head(Numbers(c, b)) = Numbers(c, b)[1]
    OBVIOUS
  <2> QED BY <2>1, <2>2, <2>3
<1>12. served[underWay].keys = cipher
  <2>1. served[underWay].keys = Count("newkeys", 1 .. underWay - 1)
    BY <1>3, <1>9 DEF ServedOK
  <2>2. underWay - 1 = Len(inbound)
    BY InboundFirst
  <2> QED BY <1>3, <2>1, <2>2 DEF CiphersOK
<1>13. /\ newLen' \in PlainLens \cup Lens \cup DamagedLens /\ newLen' \in Nat \ {0}
       /\ ~served[underWay].damaged => newLen' = served[underWay].len
  <2>1. newLen' \in LengthsRead(newPacket') /\ PacketAt(Head(newPacket')) = underWay
    BY <1>2, <1>3, <1>9, <1>10, <1>11, PacketAtIs
  <2>2. underWay # 0
    BY InboundFirst
  <2>3. newLen' \in IF ~served[underWay].damaged THEN {served[underWay].len}
                    ELSE DamagedLens
    BY <1>12, <2>1, <2>2 DEF LengthsRead
  <2>4. CASE ~served[underWay].damaged
    <3>1. newLen' = served[underWay].len
      BY <2>3, <2>4
    <3>2. served[underWay].len \in PlainLens \cup Lens /\ served[underWay].len >= b
      BY <1>1, <1>3, <1>9, <1>12, ServedAt DEF ServedOK
    <3> QED BY <2>4, <3>1, <3>2, ReceiveSizes
  <2>5. CASE served[underWay].damaged
    <3>1. newLen' \in DamagedLens
      BY <2>3, <2>5
    <3> QED BY <2>5, <3>1, ReceiveSizes
  <2> QED BY <2>4, <2>5
<1>14. ReceiveTypes'
  <2>1. workIter' \in Places /\ left' \in 0 .. RawBufSize
    BY <1>2, <1>6, <1>7
  <2>2. /\ newLen' \in {0} \cup PlainLens \cup Lens \cup DamagedLens
        /\ pc' # "undefined" => Len(newPacket') <= newLen'
    BY <1>1, <1>2, <1>11, <1>13
  <2> QED BY <1>2, <1>3, <2>1, <2>2 DEF ReceiveTypes, queueVars, cipherVars
<1>15. RingKept'
  BY <1>2, <1>4, <1>6, <1>14, RingCut DEF serverVars
<1>16. Genuine'
  <2>1. PacketsInStep'
    <3>1. newPacket' = [i \in DOMAIN newPacket' |-> c + i - 1]
      BY <1>11 DEF Numbers
    <3>2. served' = served /\ inbound' = inbound /\ cipher' = cipher
      BY <1>2 DEF queueVars, cipherVars, serverVars
    <3> QED BY <1>9, <1>10, <1>12, <1>13, <3>1, <3>2 DEF PacketsInStep, underWay
  <2> QED BY <1>2, <1>3, <2>1 DEF Genuine, queueVars, serverVars
<1>17. ServedOK'
  BY <1>2, <1>3, ServedSame DEF cipherVars, serverVars
<1>18. CiphersOK'
  BY <1>2, <1>3 DEF CiphersOK, queueVars, cipherVars, serverVars, Count
<1>19. PlaceOK'
  <2>1. Start(underWay)' = Start(underWay)
    BY <1>2 DEF Start, Total, underWay, queueVars, cipherVars, serverVars, WireLen, MacOf
  <2>2. arrived' - left' = Start(underWay)' + Len(newPacket')
    BY <1>2, <1>7, <1>8, <1>11, <2>1 DEF serverVars
  <2>3. newPacket' # <<>> /\ newLen' # 0
    BY <1>11, <1>13
  <2> QED BY <1>2, <1>8, <1>11, <2>2, <2>3 DEF PlaceOK, queueVars, Swapping
<1> QED BY <1>15, <1>16, <1>17, <1>18, <1>19 DEF ReceiveInv

\* As much is added to the packet as the ring has, in whole blocks under a cipher.
LEMMA FillLenIs ==
    ASSUME ReceiveInv, newLen # 0, pc = "fill"
    PROVE  /\ fillLen \in 0 .. left /\ Len(newPacket) + fillLen <= newLen
           /\ cipher = 0 \/ \E j \in Nat : fillLen = j * CipherBlock
<1>1. PICK a \in Nat : a = newLen - Len(newPacket)
  <2>1. newLen - Len(newPacket) \in Nat
    BY UnderWayIs
  <2> QED BY <2>1
<1>2. left \in Nat
  BY DEF ReceiveInv, RingKept, ReceiveTypes
<1>3. PICK e \in Nat : e <= a /\ e <= left /\ e = IF a < left THEN a ELSE left
  BY <1>2
<1>4. fillLen = IF cipher = 0 THEN e ELSE (e \div CipherBlock) * CipherBlock
  BY <1>1, <1>3 DEF fillLen
<1>5. Len(newPacket) \in Nat /\ newLen \in Nat /\ Len(newPacket) + a = newLen
  BY <1>1, UnderWayIs
<1>6. CASE cipher = 0
  <2>1. fillLen = e
    BY <1>4, <1>6
  <2> QED BY <1>2, <1>3, <1>5, <1>6, <2>1
<1>7. CASE cipher # 0
  <2>1. PICK b \in Nat \ {0} : b = CipherBlock
    BY ReceiveSizes
  <2>2. PICK q \in Nat, r \in 0 .. b - 1 : e = q * b + r /\ e \div b = q
    BY Quotient
  <2>3. PICK x \in Nat : x = q * b
    <3>1. q * b \in Nat
      BY <2>1, SMT
    <3> QED BY <3>1
  <2>4. fillLen = x /\ x <= e
    BY <1>4, <1>7, <2>1, <2>2, <2>3
  <2>5. fillLen \in 0 .. left /\ Len(newPacket) + fillLen <= newLen
    BY <1>2, <1>3, <1>5, <2>3, <2>4
  <2> QED BY <2>1, <2>3, <2>4, <2>5
<1> QED BY <1>6, <1>7

LEMMA FillKeeps ==
    ASSUME ReceiveInv, fillNewPacket
    PROVE  ReceiveInv'
<1>1. pc = "fill" /\ pc' = "check"
      /\ UNCHANGED <<raw, writeIter, newLen, queueVars, cipherVars, serverVars>>
  BY DEF fillNewPacket
<1>2. RingKept /\ Genuine /\ ServedOK /\ CiphersOK /\ PlaceOK /\ ReceiveTypes
  BY DEF ReceiveInv, RingKept
<1>3. newLen # 0
  BY <1>1, <1>2 DEF PlaceOK
<1>4. CASE newPacketIsFull
  <2>1. UNCHANGED <<newPacket, workIter, left>>
    BY <1>4 DEF fillNewPacket
  <2>2. ReceiveTypes'
    BY <1>1, <1>2, <2>1 DEF ReceiveTypes, queueVars, cipherVars
  <2>3. RingKept'
    BY <1>1, <1>2, <2>1, <2>2, RingSame DEF serverVars, ringVars
  <2>4. Genuine'
    BY <1>1, <1>2, <2>1 DEF Genuine, PacketsInStep, queueVars, cipherVars, serverVars
  <2>5. ServedOK' /\ CiphersOK'
    BY <1>1, <1>2, ServedSame DEF cipherVars, serverVars, CiphersOK, queueVars, Count
  <2>6. Start(underWay)' = Start(underWay)
    BY <1>1 DEF Start, Total, underWay, queueVars, cipherVars, serverVars, WireLen, MacOf
  <2>7. PlaceOK'
    BY <1>1, <1>2, <1>3, <2>1, <2>6 DEF PlaceOK, queueVars, serverVars, Swapping
  <2> QED BY <2>3, <2>4, <2>5, <2>7 DEF ReceiveInv
<1>5. CASE ~newPacketIsFull
  <2>1. PICK m \in Nat : m = fillLen /\ m \in 0 .. left
    BY <1>1, <1>3, FillLenIs
  <2>2. /\ newPacket' = newPacket \o CutOut(m).text
        /\ workIter' = CutOut(m).iter /\ left' = left - m
    BY <1>5, <2>1 DEF fillNewPacket
  <2>3. cipher = 0 \/ \E j \in Nat : m = j * CipherBlock
    BY <1>1, <1>3, <2>1, FillLenIs
  <2>4. /\ CutOut(m).text = Numbers(arrived - left, m)
        /\ CutOut(m).iter = Wrapped(workIter + m, RawBufSize)
    BY <2>1, <2>3, CutText
  <2>5. /\ Wrapped(workIter + m, RawBufSize) \in Places
        /\ left - m \in 0 .. RawBufSize
        /\ arrived - (left - m) = (arrived - left) + m
    BY <2>1, CutShape
  <2>6. PICK c \in Nat, n \in Nat \ {0} :
          /\ c = served[underWay].from /\ n = Len(newPacket) /\ c = Start(underWay)
          /\ arrived - left = c + n
    <3>1. underWay \in DOMAIN served /\ Len(newPacket) \in Nat \ {0}
      BY <1>3, UnderWayIs
    <3>2. served[underWay].from \in Nat /\ Start(underWay) = served[underWay].from
      BY <1>2, <3>1, ServedAt, StartIs
    <3>3. arrived - left = Start(underWay) + Len(newPacket)
      BY <1>1, <1>2 DEF PlaceOK
    <3> QED BY <3>1, <3>2, <3>3
  <2>7. newPacket' = Numbers(c, n + m)
    <3>1. newPacket = Numbers(c, n)
      BY <1>3, <2>6, UnderWayIs
    <3>2. Numbers(c, n) \o Numbers(c + n, m) = Numbers(c, n + m)
      <4>1. c \in Int /\ n \in Nat /\ m \in Nat
        BY <2>1
      <4>2. PICK d \in Int, t \in Int : d = c + n /\ t = c + (n + m) /\ c <= d /\ d <= t
        BY <4>1
      <4>3. /\ Numbers(c, n) = Upto(c, d) /\ Numbers(c + n, m) = Upto(d, t)
            /\ Numbers(c, n + m) = Upto(c, t)
        BY <4>1, <4>2 DEF Numbers, Upto
      <4>4. Upto(c, d) \o Upto(d, t) = Upto(c, t)
        BY <4>1, <4>2, UptoJoin
      <4> QED BY <4>3, <4>4
    <3> QED BY <2>2, <2>4, <2>6, <3>1, <3>2
  <2>8. newPacket' \in Seq(Nat) /\ Len(newPacket') = n + m
    BY <2>7, NumbersType
  <2>9. n + m <= newLen
    BY <1>1, <1>3, <2>1, <2>6, FillLenIs
  <2>10. ReceiveTypes'
    <3>1. workIter' \in Places /\ left' \in 0 .. RawBufSize /\ Len(newPacket') <= newLen
      BY <2>2, <2>4, <2>5, <2>8, <2>9
    <3> QED BY <1>1, <1>2, <3>1 DEF ReceiveTypes, queueVars, cipherVars
  <2>11. RingKept'
    BY <1>1, <2>1, <2>2, <2>4, <2>10, RingCut DEF serverVars
  <2>12. Genuine'
    <3>1. newPacket' = [i \in DOMAIN newPacket' |-> c + i - 1]
      BY <2>7 DEF Numbers
    <3>2. newLen' = newLen /\ served' = served /\ inbound' = inbound /\ cipher' = cipher
      BY <1>1 DEF queueVars, cipherVars, serverVars
    <3>3. PacketsInStep'
      <4>1. /\ underWay \in DOMAIN served /\ served[underWay].keys = cipher
            /\ ~served[underWay].damaged => newLen = served[underWay].len
        BY <1>3, UnderWayIs
      <4> QED BY <2>6, <3>1, <3>2, <4>1 DEF PacketsInStep, underWay
    <3> QED BY <1>2, <3>2, <3>3 DEF Genuine
  <2>13. ServedOK' /\ CiphersOK'
    BY <1>1, <1>2, ServedSame DEF cipherVars, serverVars, CiphersOK, queueVars, Count
  <2>14. PlaceOK'
    <3>1. Start(underWay)' = Start(underWay)
      BY <1>1 DEF Start, Total, underWay, queueVars, cipherVars, serverVars, WireLen, MacOf
    <3>2. arrived' - left' = Start(underWay)' + Len(newPacket')
      BY <1>1, <2>2, <2>5, <2>6, <2>8, <3>1 DEF serverVars
    <3>3. newPacket' # <<>> /\ newLen' # 0
      BY <1>1, <1>3, <2>8
    <3>4. sequenceNum = Len(inbound)
      BY <1>1, <1>2 DEF PlaceOK
    <3> QED BY <1>1, <2>8, <3>2, <3>3, <3>4 DEF PlaceOK, queueVars, Swapping
  <2> QED BY <2>11, <2>12, <2>13, <2>14 DEF ReceiveInv
<1> QED BY <1>4, <1>5

\* A full packet: its MAC is taken from the ring as well.
LEMMA MacTaken ==
    ASSUME ReceiveInv, Complete, TakeMac
    PROVE  \E m \in 0 .. left :
             /\ m = MacOf(cipher) /\ left' = left - m
             /\ workIter' = Wrapped(workIter + m, RawBufSize)
             /\ workIter' \in Places /\ left' \in 0 .. RawBufSize
             /\ arrived - left' = (arrived - left) + m
<1>1. ReceiveTypes /\ cipher \in Nat /\ left \in Nat
  BY DEF ReceiveInv, RingKept, ReceiveTypes
<1>2. PICK m \in 0 .. left : m = MacOf(cipher)
  <2>1. MacOf(cipher) \in Nat /\ left >= MacOf(cipher)
    BY <1>1, SizesOf DEF Complete
  <2> QED BY <1>1, <2>1
<1>3. left' = left - m
  BY <1>2 DEF TakeMac
<1>4. workIter' = Wrapped(workIter + m, RawBufSize)
  <2>1. CASE cipher = 0
    <3>1. m = 0 /\ workIter' = workIter
      BY <1>2, <2>1 DEF MacOf, TakeMac
    <3>2. workIter \in 0 .. RawBufSize - 1 /\ RawBufSize \in Nat
      BY <1>1, ReceiveSizes DEF ReceiveTypes, Places
    <3> QED BY <3>1, <3>2 DEF Wrapped
  <2>2. CASE cipher # 0
    <3>1. m = macLen /\ workIter' = copyRaw(macLen).iter
      BY <1>2, <2>2 DEF MacOf, TakeMac
    <3> QED BY <3>1, MacText
  <2> QED BY <2>1, <2>2
<1>5. /\ Wrapped(workIter + m, RawBufSize) \in Places
      /\ left - m \in 0 .. RawBufSize
      /\ arrived - (left - m) = (arrived - left) + m
  BY CutShape
<1> QED BY <1>2, <1>3, <1>4, <1>5

\* A full packet that is verified is the whole of the packet under way, undamaged.
LEMMA VerifiedIs ==
    ASSUME ReceiveInv, Complete, verifyNewPacketMAC
    PROVE  /\ newLen # 0 /\ underWay \in DOMAIN served /\ PacketAt(Head(newPacket)) = underWay
           /\ ~served[underWay].damaged
           /\ (arrived - left) + MacOf(cipher) = Start(underWay + 1)
           /\ sequenceNum = Len(inbound) /\ sequenceNum + 1 = underWay
           /\ underWay \in 1 .. MaxPackets
<1>1. pc = "check" /\ Len(newPacket) = newLen
  BY DEF Complete, newPacketIsFull
<1>2. newLen # 0 /\ arrived - left = Start(underWay) + Len(newPacket)
      /\ sequenceNum = Len(inbound)
  BY <1>1 DEF ReceiveInv, PlaceOK
<1>3. ServedOK /\ ReceiveTypes
  BY DEF ReceiveInv, RingKept
<1>4. /\ underWay \in DOMAIN served /\ PacketAt(Head(newPacket)) = underWay
      /\ served[underWay].keys = cipher
      /\ ~served[underWay].damaged => newLen = served[underWay].len
  BY <1>2, UnderWayIs
<1>5. ~served[underWay].damaged
  <2>1. CASE cipher = 0
    BY <1>3, <1>4, <2>1 DEF ServedOK
  <2>2. CASE cipher # 0
    BY <1>4, <2>2 DEF verifyNewPacketMAC
  <2> QED BY <2>1, <2>2
<1>6. (arrived - left) + MacOf(cipher) = Start(underWay + 1)
  <2>1. Start(underWay) = served[underWay].from
        /\ Start(underWay + 1) = served[underWay].from + served[underWay].len + MacOf(cipher)
    BY <1>3, <1>4, StartIs
  <2> QED BY <1>1, <1>2, <1>4, <1>5, <2>1
<1>7. sequenceNum + 1 = underWay /\ underWay \in 1 .. MaxPackets
  <2>1. underWay = Len(inbound) + 1 /\ Len(inbound) \in Nat /\ Len(served) <= MaxPackets
        /\ Len(served) \in Nat
    BY InboundFirst
  <2>2. underWay \in 1 .. Len(served)
    BY <1>3, <1>4, ServedDomain
  <2>3. MaxPackets \in Nat
    BY ReceiveSizes
  <2> QED BY <1>2, <2>1, <2>2, <2>3
<1> QED BY <1>2, <1>4, <1>5, <1>6, <1>7

\* One more packet in the queue of Transport.
LEMMA DeliverKeeps ==
    ASSUME ReceiveInv, newLen # 0, ~served[underWay].damaged, Deliver, newLen' = 0,
           UNCHANGED served
    PROVE  /\ Genuine' /\ inbound' \in Seq(Nat) /\ Len(inbound') = Len(inbound) + 1
<1>1. /\ underWay \in DOMAIN served /\ PacketAt(Head(newPacket)) = underWay
      /\ underWay = Len(inbound) + 1 /\ inbound \in Seq(Nat) /\ Len(inbound) \in Nat
  BY UnderWayIs, InboundFirst
<1>2. PICK k \in Nat : k = underWay /\ k = Len(inbound) + 1
  BY <1>1
<1>3. inbound' = Append(inbound, k)
  BY <1>1, <1>2 DEF Deliver
<1>4. inbound' \in Seq(Nat) /\ Len(inbound') = k
  BY <1>1, <1>2, <1>3
<1>5. \A i \in 1 .. Len(inbound) : inbound'[i] = inbound[i]
  BY <1>1, <1>3
<1>6. inbound'[k] = k
  BY <1>1, <1>2, <1>3
<1>7. ASSUME NEW i \in DOMAIN inbound'
      PROVE  inbound'[i] = i /\ i \in DOMAIN served /\ ~served[i].damaged
  <2>1. i \in 1 .. k
    BY <1>4
  <2>2. CASE i = k
    BY <1>1, <1>2, <1>6, <2>2
  <2>3. CASE i # k
    <3>1. i \in 1 .. Len(inbound)
      BY <1>1, <1>2, <2>1, <2>3
    <3>2. i \in DOMAIN inbound
      BY <1>1, <3>1
    <3> QED BY <1>5, <3>1, <3>2 DEF ReceiveInv, Genuine
  <2> QED BY <2>2, <2>3
<1>8. Genuine'
  BY <1>7 DEF Genuine, PacketsInStep
<1> QED BY <1>2, <1>4, <1>8

\* Where a packet begins depends on what was sent before it.
LEMMA StartSame ==
    ASSUME NEW k, UNCHANGED <<served, macLen>>
    PROVE  Start(k)' = Start(k)
  BY DEF Start, Total, WireLen, MacOf

LEMMA AcceptKeeps ==
    ASSUME ReceiveInv, PacketAccepted
    PROVE  ReceiveInv'
<1>1. /\ Complete /\ verifyNewPacketMAC /\ TakeMac /\ sequenceNum' = sequenceNum + 1
      /\ UNCHANGED <<raw, writeIter, cipherVars, serverVars>>
  BY DEF PacketAccepted
<1>2. RingKept /\ Genuine /\ ServedOK /\ CiphersOK /\ PlaceOK /\ ReceiveTypes
  BY DEF ReceiveInv, RingKept
<1>3. /\ newLen # 0 /\ underWay \in DOMAIN served /\ PacketAt(Head(newPacket)) = underWay
      /\ ~served[underWay].damaged
      /\ (arrived - left) + MacOf(cipher) = Start(underWay + 1)
      /\ sequenceNum = Len(inbound) /\ sequenceNum + 1 = underWay
      /\ underWay \in 1 .. MaxPackets
  BY <1>1, VerifiedIs
<1>4. PICK m \in 0 .. left :
        /\ m = MacOf(cipher) /\ left' = left - m
        /\ workIter' = Wrapped(workIter + m, RawBufSize)
        /\ workIter' \in Places /\ left' \in 0 .. RawBufSize
        /\ arrived - left' = (arrived - left) + m
  BY <1>1, MacTaken
<1>5. arrived' - left' = Start(underWay + 1) /\ Start(underWay + 1) \in Nat
  <2>1. Start(underWay + 1) \in Nat
    BY <1>2, <1>3, StartIs
  <2> QED BY <1>1, <1>3, <1>4, <2>1 DEF serverVars
<1>6. underWay # 0
  BY <1>3
<1>7. ServedOK'
  BY <1>1, <1>2, ServedSame DEF cipherVars, serverVars
<1>8. CASE served[underWay].type = "newkeys"
  <2>1. pc' = "endKeyExchange" /\ UNCHANGED <<inbound, packetVars>>
    BY <1>3, <1>6, <1>8 DEF PacketAccepted
  <2>2. ReceiveTypes'
    <3>1. sequenceNum' \in 0 .. MaxPackets
      BY <1>1, <1>3
    <3>2. pc = "check"
      BY <1>1 DEF Complete
    <3> QED BY <1>1, <1>2, <1>4, <2>1, <3>1, <3>2 DEF ReceiveTypes, packetVars, cipherVars
  <2>3. RingKept'
    BY <1>1, <1>4, <2>2, RingCut DEF serverVars
  <2>4. Genuine'
    BY <1>1, <1>2, <2>1 DEF Genuine, PacketsInStep, packetVars, cipherVars, serverVars
  <2>5. CiphersOK'
    BY <1>1, <1>2, <2>1 DEF CiphersOK, cipherVars, serverVars, Count
  <2>6. PlaceOK'
    <3>1. Start(underWay + 1)' = Start(underWay + 1)
      BY <1>1, <2>1 DEF Start, Total, WireLen, MacOf, underWay, serverVars, cipherVars
    <3>2. underWay' = underWay /\ served' = served
      BY <1>1, <2>1 DEF underWay, serverVars
    <3>3. newPacket \in Seq(Nat) /\ (newLen = 0 <=> newPacket = <<>>)
      BY <1>2 DEF PlaceOK
    <3> QED BY <1>1, <1>3, <1>5, <1>8, <2>1, <3>1, <3>2, <3>3 DEF PlaceOK, packetVars, Swapping
  <2> QED BY <1>7, <2>3, <2>4, <2>5, <2>6 DEF ReceiveInv
<1>9. CASE served[underWay].type # "newkeys"
  <2>1. Deliver /\ newPacket' = <<>> /\ newLen' = 0 /\ pc' \in {"ended", "loop"}
    BY <1>3, <1>9 DEF PacketAccepted
  <2>2. Genuine' /\ inbound' \in Seq(Nat) /\ Len(inbound') = Len(inbound) + 1
    BY <1>1, <1>3, <2>1, DeliverKeeps DEF serverVars
  <2>3. ReceiveTypes'
    <3>1. sequenceNum' \in 0 .. MaxPackets
      BY <1>1, <1>3
    <3>2. Len(newPacket') <= newLen'
      BY <2>1
    <3> QED BY <1>1, <1>2, <1>4, <2>1, <2>2, <3>1, <3>2 DEF ReceiveTypes, cipherVars
  <2>4. RingKept'
    BY <1>1, <1>4, <2>3, RingCut DEF serverVars
  <2>5. CiphersOK'
    <3>1. Len(inbound) \in Nat /\ underWay = Len(inbound) + 1
      BY InboundFirst
    <3>2. Count("newkeys", 1 .. Len(inbound) + 1) = Count("newkeys", 1 .. Len(inbound)) + 0
      BY <1>2, <1>9, <3>1, CountFirst
    <3>3. cipher = Count("newkeys", 1 .. Len(inbound)) /\ cipher \in Nat
      BY <1>2 DEF CiphersOK, ReceiveTypes
    <3>4. cipher = Count("newkeys", 1 .. Len(inbound) + 1)
      BY <3>2, <3>3
    <3>5. Count("newkeys", 1 .. Len(inbound))' = Count("newkeys", 1 .. Len(inbound) + 1)
      BY <1>1, <2>2 DEF Count, serverVars
    <3>6. cipher' = cipher /\ newCipher' = newCipher /\ pc' # "awake"
      BY <1>1, <2>1 DEF cipherVars
    <3> QED BY <1>2, <3>4, <3>5, <3>6 DEF CiphersOK
  <2>6. PlaceOK'
    <3>1. underWay' = underWay + 1
      BY <2>2 DEF underWay
    <3>2. Start(underWay)' = Start(underWay + 1)
      <4>1. PICK k : k = underWay + 1
        OBVIOUS
      <4>2. Start(k)' = Start(k)
        BY <1>1, StartSame DEF serverVars, cipherVars
      <4>3. Start(underWay)' = Start(k)'
        BY <3>1, <4>1 DEF Start
      <4> QED BY <4>1, <4>2, <4>3
    <3>3. arrived' - left' = Start(underWay)' + 0 /\ Len(newPacket') = 0
      BY <1>5, <2>1, <3>2
    <3>4. newPacket' \in Seq(Nat) /\ sequenceNum' = Len(inbound')
      BY <1>1, <1>3, <2>1, <2>2
    <3> QED BY <2>1, <3>3, <3>4 DEF PlaceOK, Swapping
  <2> QED BY <1>7, <2>2, <2>4, <2>5, <2>6 DEF ReceiveInv
<1> QED BY <1>8, <1>9

\* A packet that is refused, or cannot be inflated, ends the thread.
LEMMA RefuseKeeps ==
    ASSUME ReceiveInv, PacketRefused \/ UncompressFails
    PROVE  ReceiveInv'
<1>1. /\ Complete /\ TakeMac /\ pc' \in {"ended", "undefined"}
      /\ UNCHANGED <<raw, writeIter, packetVars, inbound, cipherVars, serverVars>>
  BY DEF PacketRefused, UncompressFails, queueVars
<1>2. RingKept /\ Genuine /\ ServedOK /\ CiphersOK /\ PlaceOK /\ ReceiveTypes
  BY DEF ReceiveInv, RingKept
<1>3. sequenceNum' \in 0 .. MaxPackets
  <2>1. CASE PacketRefused
    BY <1>2, <2>1 DEF PacketRefused, queueVars, ReceiveTypes
  <2>2. CASE UncompressFails
    <3>1. verifyNewPacketMAC /\ sequenceNum' = sequenceNum + 1
      BY <2>2 DEF UncompressFails
    <3>2. sequenceNum + 1 = underWay /\ underWay \in 1 .. MaxPackets
      BY <1>1, <3>1, VerifiedIs
    <3> QED BY <3>1, <3>2
  <2> QED BY <2>1, <2>2
<1>4. PICK m \in 0 .. left :
        /\ m = MacOf(cipher) /\ left' = left - m
        /\ workIter' = Wrapped(workIter + m, RawBufSize)
        /\ workIter' \in Places /\ left' \in 0 .. RawBufSize
        /\ arrived - left' = (arrived - left) + m
  BY <1>1, MacTaken
<1>5. ReceiveTypes'
  <2>1. pc = "check"
    BY <1>1 DEF Complete
  <2> QED BY <1>1, <1>2, <1>3, <1>4, <2>1 DEF ReceiveTypes, packetVars, cipherVars
<1>6. RingKept'
  BY <1>1, <1>4, <1>5, RingCut DEF serverVars
<1>7. Genuine'
  BY <1>1, <1>2 DEF Genuine, PacketsInStep, packetVars, cipherVars, serverVars
<1>8. ServedOK'
  BY <1>1, <1>2, ServedSame DEF cipherVars, serverVars
<1>9. CiphersOK'
  BY <1>1, <1>2 DEF CiphersOK, cipherVars, serverVars, Count
<1>10. PlaceOK'
  BY <1>1, <1>2 DEF PlaceOK, packetVars, Swapping
<1> QED BY <1>6, <1>7, <1>8, <1>9, <1>10 DEF ReceiveInv

LEMMA EndKeepsWaiting ==
    ASSUME ReceiveInv, pc = "endKeyExchange", pc' = "waiting",
           UNCHANGED <<inbound, packetVars, cipherVars, ringVars, sequenceNum, serverVars>>
    PROVE  ReceiveInv'
<1>1. RingKept /\ Genuine /\ ServedOK /\ CiphersOK /\ PlaceOK /\ ReceiveTypes
  BY DEF ReceiveInv, RingKept
<1>2. ReceiveTypes'
  BY <1>1 DEF ReceiveTypes, ringVars, packetVars, cipherVars
<1>3. RingKept'
  BY <1>1, <1>2, RingSame DEF serverVars
<1>4. Genuine'
  BY <1>1 DEF Genuine, PacketsInStep, packetVars, cipherVars, serverVars
<1>5. ServedOK'
  BY <1>1, ServedSame DEF cipherVars, serverVars
<1>6. CiphersOK'
  BY <1>1 DEF CiphersOK, cipherVars, serverVars, Count
<1>7. Start(underWay + 1)' = Start(underWay + 1)
  BY DEF Start, Total, WireLen, MacOf, underWay, serverVars, cipherVars
<1>8. underWay' = underWay
  BY DEF underWay
<1>9. PlaceOK'
  BY <1>1, <1>7, <1>8 DEF PlaceOK, packetVars, serverVars, ringVars, Swapping
<1> QED BY <1>3, <1>4, <1>5, <1>6, <1>9 DEF ReceiveInv

\* The new cipher is the one of the packets behind NEWKEYS.
LEMMA SwapKeeps ==
    ASSUME ReceiveInv, pc \in Swapping, newCipher # 0, SwapCipher,
           UNCHANGED <<ringVars, sequenceNum, serverVars>>
    PROVE  ReceiveInv'
<1>1. /\ cipher' = newCipher /\ newCipher' = 0 /\ macLen' = macLen /\ Deliver
      /\ newPacket' = <<>> /\ newLen' = 0 /\ pc' = "loop"
  BY DEF SwapCipher
<1>2. RingKept /\ Genuine /\ ServedOK /\ CiphersOK /\ PlaceOK /\ ReceiveTypes
  BY DEF ReceiveInv, RingKept
<1>3. /\ newLen # 0 /\ arrived - left = Start(underWay + 1) /\ sequenceNum = underWay
      /\ served[underWay].type = "newkeys" /\ ~served[underWay].damaged
  BY <1>2 DEF PlaceOK, Swapping
<1>4. Genuine' /\ inbound' \in Seq(Nat) /\ Len(inbound') = Len(inbound) + 1
  BY <1>1, <1>3, DeliverKeeps DEF serverVars
<1>5. ReceiveTypes'
  <2>1. Len(newPacket') <= newLen' /\ 0 \in 0 .. MaxPackets
    BY <1>1, ReceiveSizes
  <2> QED BY <1>1, <1>2, <1>4, <2>1 DEF ReceiveTypes, ringVars
<1>6. RingKept'
  BY <1>2, <1>5, RingSame DEF serverVars
<1>7. ServedOK'
  BY <1>1, <1>2, ServedSame DEF serverVars
<1>8. CiphersOK'
  <2>1. Len(inbound) \in Nat /\ underWay = Len(inbound) + 1
    BY InboundFirst
  <2>2. Count("newkeys", 1 .. Len(inbound) + 1) = Count("newkeys", 1 .. Len(inbound)) + 1
    BY <1>2, <1>3, <2>1, CountFirst
  <2>3. cipher = Count("newkeys", 1 .. Len(inbound)) /\ newCipher = cipher + 1
    BY <1>2 DEF CiphersOK
  <2>4. Count("newkeys", 1 .. Len(inbound))' = Count("newkeys", 1 .. Len(inbound) + 1)
    BY <1>4 DEF Count, serverVars
  <2> QED BY <1>1, <2>2, <2>3, <2>4 DEF CiphersOK
<1>9. PlaceOK'
  <2>1. underWay' = underWay + 1
    BY <1>4 DEF underWay
  <2>2. Start(underWay)' = Start(underWay + 1)
    <3>1. PICK k : k = underWay + 1
      OBVIOUS
    <3>2. Start(k)' = Start(k)
      BY <1>1, StartSame DEF serverVars
    <3>3. Start(underWay)' = Start(k)'
      BY <2>1, <3>1 DEF Start
    <3> QED BY <3>1, <3>2, <3>3
  <2>3. Start(underWay + 1) \in Nat
    <3>1. underWay + 1 \in Nat
      BY InboundFirst
    <3> QED BY <1>2, <3>1, StartIs
  <2>4. arrived' - left' = Start(underWay)' + 0 /\ Len(newPacket') = 0
    BY <1>1, <1>3, <2>2, <2>3 DEF ringVars, serverVars
  <2>5. newPacket' \in Seq(Nat) /\ sequenceNum' = Len(inbound')
    BY <1>1, <1>3, <1>4 DEF underWay
  <2> QED BY <1>1, <2>4, <2>5 DEF PlaceOK, Swapping
<1> QED BY <1>4, <1>6, <1>7, <1>8, <1>9 DEF ReceiveInv

LEMMA EndKeeps ==
    ASSUME ReceiveInv, endKeyExchange
    PROVE  ReceiveInv'
<1>1. CASE pc = "endKeyExchange" /\ newCipher # 0 /\ SwapCipher
  BY <1>1, SwapKeeps DEF endKeyExchange, Swapping
<1>2. CASE pc = "endKeyExchange" /\ newCipher = 0 /\ pc' = "waiting"
           /\ UNCHANGED <<inbound, packetVars, cipherVars>>
  BY <1>2, EndKeepsWaiting DEF endKeyExchange
<1>3. CASE pc = "awake" /\ SwapCipher
  <2>1. newCipher # 0
    BY <1>3 DEF ReceiveInv, CiphersOK
  <2> QED BY <1>3, <2>1, SwapKeeps DEF endKeyExchange, Swapping
<1> QED BY <1>1, <1>2, <1>3 DEF endKeyExchange

\* Transport makes a cipher for an exchange whose reply it has been given.
LEMMA SetCipherKeeps ==
    ASSUME ReceiveInv, setCipher
    PROVE  ReceiveInv'
<1>1. /\ Enqueued("reply") > cipher /\ newCipher = 0 /\ newCipher' = cipher + 1
      /\ pc' = IF pc = "waiting" THEN "awake" ELSE pc
      /\ UNCHANGED <<cipher, macLen, ringVars, packetVars, queueVars, serverVars>>
  BY DEF setCipher
<1>2. RingKept /\ Genuine /\ ServedOK /\ CiphersOK /\ PlaceOK /\ ReceiveTypes
  BY DEF ReceiveInv, RingKept
<1>3. cipher \in Nat /\ cipher + 1 \in 0 .. MaxPackets
  <2>1. /\ Len(inbound) \in Nat /\ Len(inbound) <= Len(served) /\ Len(served) <= MaxPackets
        /\ Len(served) \in Nat /\ Enqueued("reply") = Count("reply", 1 .. Len(inbound))
    BY InboundFirst DEF Enqueued
  <2>2. Enqueued("reply") \in 0 .. Len(inbound)
    BY <1>2, <2>1, CountFirst
  <2>3. cipher \in Nat /\ MaxPackets \in Nat
    BY <1>2, ReceiveSizes DEF ReceiveTypes
  <2> QED BY <1>1, <2>1, <2>2, <2>3
<1>4. ReceiveTypes'
  <2>1. pc' \in {"read", "loop", "fill", "check", "endKeyExchange", "waiting", "awake",
                 "ended", "undefined"}
    BY <1>1, <1>2 DEF ReceiveTypes
  <2> QED BY <1>1, <1>2, <1>3, <2>1 DEF ReceiveTypes, ringVars, packetVars, queueVars
<1>5. RingKept'
  BY <1>1, <1>2, <1>4, RingSame DEF serverVars
<1>6. Genuine'
  BY <1>1, <1>2 DEF Genuine, PacketsInStep, packetVars, queueVars, serverVars
<1>7. ServedOK'
  BY <1>1, <1>2, ServedSame DEF serverVars
<1>8. CiphersOK'
  BY <1>1, <1>2, <1>3 DEF CiphersOK, queueVars, serverVars, Count
<1>9. Start(underWay)' = Start(underWay) /\ Start(underWay + 1)' = Start(underWay + 1)
  BY <1>1 DEF Start, Total, WireLen, MacOf, underWay, serverVars, queueVars
<1>10. /\ pc' \in {"read", "loop", "fill", "check"} <=> pc \in {"read", "loop", "fill", "check"}
       /\ pc' \in Swapping <=> pc \in Swapping
       /\ pc' \in {"fill", "check"} \cup Swapping <=> pc \in {"fill", "check"} \cup Swapping
  BY <1>1 DEF Swapping
<1>11. UNCHANGED <<newPacket, newLen, sequenceNum, inbound, served, arrived, left>>
       /\ underWay' = underWay
  BY <1>1 DEF packetVars, queueVars, serverVars, ringVars, underWay
<1>12. PlaceOK'
  <2>1. newPacket' \in Seq(Nat) /\ (newLen' = 0 <=> newPacket' = <<>>)
    BY <1>2, <1>11 DEF PlaceOK
  <2>2. pc' \in {"fill", "check"} \cup Swapping => newLen' # 0
    BY <1>2, <1>10, <1>11 DEF PlaceOK
  <2>3. pc' \in {"read", "loop", "fill", "check"} =>
           /\ arrived' - left' = Start(underWay)' + Len(newPacket')
           /\ sequenceNum' = Len(inbound')
    BY <1>2, <1>9, <1>10, <1>11 DEF PlaceOK
  <2>4. pc' \in Swapping =>
           /\ arrived' - left' = Start(underWay + 1)'
           /\ sequenceNum' = underWay'
           /\ served'[underWay'].type = "newkeys" /\ ~served'[underWay'].damaged
    BY <1>2, <1>9, <1>10, <1>11 DEF PlaceOK
  <2> QED BY <2>1, <2>2, <2>3, <2>4 DEF PlaceOK
<1> QED BY <1>5, <1>6, <1>7, <1>8, <1>12 DEF ReceiveInv

\* A packet the server adds begins where the last one ends.
LEMMA SendKeeps ==
    ASSUME ReceiveInv, ServerSends
    PROVE  ReceiveInv'
<1>1. PICK p :
        /\ Len(served) < MaxPackets /\ served' = Append(served, p)
        /\ p \in [type : {"kexinit", "reply", "newkeys", "data", "disconnect"}, from : {Total},
                  len : IF Sent("newkeys") = 0 THEN PlainLens ELSE Lens,
                  keys : {Sent("newkeys")}, damaged : BOOLEAN]
        /\ p.damaged => Sent("newkeys") > 0
        /\ UNCHANGED <<pc, ringVars, packetVars, queueVars, cipherVars, arrived>>
  <2>1. PICK type \in {"kexinit", "reply", "newkeys", "data", "disconnect"}, damaged \in BOOLEAN,
             len \in IF Sent("newkeys") = 0 THEN PlainLens ELSE Lens :
          /\ damaged => Sent("newkeys") > 0
          /\ served' = Append(served, [type |-> type, from |-> Total, len |-> len,
                                      keys |-> Sent("newkeys"), damaged |-> damaged])
    BY DEF ServerSends
  <2> QED BY <2>1 DEF ServerSends
<1>2. RingKept /\ Genuine /\ ServedOK /\ CiphersOK /\ PlaceOK /\ ReceiveTypes
  BY DEF ReceiveInv, RingKept
<1>3. PICK n \in Nat : n = Len(served) /\ DOMAIN served = 1 .. n /\ n < MaxPackets
  BY <1>1, <1>2, ServedDomain
<1>4. PICK keys \in Nat : keys = Sent("newkeys") /\ keys = Count("newkeys", 1 .. n)
  <2>1. Sent("newkeys") = Count("newkeys", 1 .. n) /\ Count("newkeys", 1 .. n) \in 0 .. n
    BY <1>2, <1>3, CountFirst DEF Sent
  <2> QED BY <2>1
<1>5. /\ p \in Served /\ p.from = Total /\ p.keys = keys /\ p.len >= BlockOf(keys)
      /\ p.damaged => keys > 0
  <2>1. PlainLens \subseteq Nat /\ Lens \subseteq Nat /\ Total \in Nat
    BY <1>2, ReceiveSizes DEF ServedOK
  <2>2. p \in Served /\ p.from = Total /\ p.keys = keys /\ (p.damaged => keys > 0)
    BY <1>1, <1>4, <2>1 DEF Served
  <2>3. p.len \in IF keys = 0 THEN PlainLens ELSE Lens
    BY <1>1, <1>4
  <2>4. p.len >= BlockOf(keys)
    BY <2>3, ReceiveSizes DEF BlockOf
  <2> QED BY <2>2, <2>4
<1>6. /\ served \in Seq(Served) /\ served' \in Seq(Served) /\ Len(served') = n + 1
      /\ DOMAIN served' = 1 .. n + 1 /\ served'[n + 1] = p
      /\ \A k \in 1 .. n : served'[k] = served[k]
  <2>1. served \in Seq(Served)
    BY <1>2 DEF ServedOK
  <2> QED BY <1>1, <1>3, <1>5, <2>1
<1>7. macLen' = macLen /\ MacOf(keys) \in Nat
  BY <1>1, <1>2, SizesOf DEF cipherVars
<1>8. PICK after \in Nat : after = Total + p.len + MacOf(keys) /\ after > Total
                           /\ after = p.from + WireLen(p)
  <2>1. p.len \in Nat /\ p.len > 0
    <3>1. p.len \in Nat
      BY <1>5, ReceiveSizes DEF Served
    <3>2. BlockOf(keys) \in Nat \ {0}
      BY <1>2, SizesOf
    <3> QED BY <1>5, <3>1, <3>2
  <2>2. Total \in Nat
    BY <1>2 DEF ServedOK
  <2>3. Total + p.len + MacOf(keys) \in Nat /\ Total + p.len + MacOf(keys) > Total
        /\ Total + p.len + MacOf(keys) = Total + (p.len + MacOf(keys))
    BY <1>7, <2>1, <2>2
  <2> QED BY <1>5, <2>3 DEF WireLen
<1>9. Total' = after
  <2>1. served' # <<>>
    BY <1>6
  <2>2. Total' = p.from + WireLen(p)'
    BY <1>6, <1>7, <2>1 DEF Total, WireLen, MacOf
  <2>3. WireLen(p)' = WireLen(p)
    BY <1>7 DEF WireLen, MacOf
  <2> QED BY <1>8, <2>2, <2>3
<1>10. \A k \in 1 .. n + 1 : Start(k)' = Start(k)
  <2>1. ASSUME NEW k \in 1 .. n + 1 PROVE Start(k)' = Start(k)
    <3>1. CASE k \in 1 .. n
      BY <1>3, <1>6, <3>1 DEF Start
    <3>2. CASE k = n + 1
      <4>1. Start(k)' = p.from
        BY <1>6, <3>2 DEF Start
      <4>2. k \notin DOMAIN served
        BY <1>3, <3>2
      <4>3. Start(k) = Total
        BY <4>2 DEF Start
      <4> QED BY <1>5, <4>1, <4>3
    <3> QED BY <3>1, <3>2
  <2> QED BY <2>1
<1>11. \A k \in 0 .. n : Count("newkeys", 1 .. k)' = Count("newkeys", 1 .. k)
  <2>1. ASSUME NEW k \in 0 .. n PROVE Count("newkeys", 1 .. k)' = Count("newkeys", 1 .. k)
    <3>1. \A i \in 1 .. k : served'[i] = served[i]
      BY <1>6
    <3>2. {i \in 1 .. k : served'[i].type = "newkeys"} = {i \in 1 .. k : served[i].type = "newkeys"}
      BY <3>1
    <3> QED BY <3>2 DEF Count
  <2> QED BY <2>1
<1>12. ServedOK'
  <2>1. Total' \in Nat /\ arrived' \in 0 .. Total'
    <3>1. arrived \in 0 .. Total /\ Total \in Nat /\ arrived' = arrived
      BY <1>1, <1>2 DEF ServedOK
    <3> QED BY <1>8, <1>9, <3>1
  <2>2. Len(served') <= MaxPackets
    BY <1>3, <1>6, ReceiveSizes
  <2>3. ASSUME NEW k \in 1 .. n
        PROVE  /\ served[k].from \in Nat /\ served[k].from < Total /\ Total \in Nat
               /\ served[k].keys = Count("newkeys", 1 .. k - 1)
               /\ served[k].damaged => served[k].keys > 0
               /\ served[k].len >= BlockOf(served[k].keys)
               /\ Start(k + 1) = served[k].from + WireLen(served[k])
               /\ \A j \in 1 .. k - 1 : served[j].from < served[k].from
    BY <1>2, <1>3, ServedAt DEF ServedOK
  <2>4. ASSUME NEW k \in 1 .. n + 1
        PROVE  /\ served'[k].keys = Count("newkeys", 1 .. k - 1)'
               /\ served'[k].damaged => served'[k].keys > 0
               /\ served'[k].len >= BlockOf(served'[k].keys)
               /\ Start(k + 1)' = served'[k].from + WireLen(served'[k])
               /\ \A j \in 1 .. k - 1 : served'[j].from < served'[k].from
               /\ served'[k].from < Total'
    <3>1. CASE k \in 1 .. n
      <4>1. served'[k] = served[k] /\ k + 1 \in 1 .. n + 1 /\ k - 1 \in 0 .. n
        BY <1>6, <3>1
      <4>2. /\ Start(k + 1)' = Start(k + 1)
            /\ Count("newkeys", 1 .. k - 1)' = Count("newkeys", 1 .. k - 1)
        BY <1>10, <1>11, <4>1
      <4>3. WireLen(served'[k]) = WireLen(served[k])
        BY <4>1
      <4>4. \A j \in 1 .. k - 1 : served'[j].from < served'[k].from
        <5>1. \A j \in 1 .. k - 1 : j \in 1 .. n
          BY <3>1
        <5>2. \A j \in 1 .. k - 1 : served'[j] = served[j]
          BY <1>6, <5>1
        <5>3. \A j \in 1 .. k - 1 : served[j].from < served[k].from
          BY <2>3, <3>1
        <5> QED BY <4>1, <5>2, <5>3
      <4>5. served'[k].from < Total'
        BY <1>8, <1>9, <2>3, <3>1, <4>1
      <4> QED BY <2>3, <3>1, <4>1, <4>2, <4>3, <4>4, <4>5
    <3>2. CASE k = n + 1
      <4>1. served'[k] = p /\ k - 1 = n /\ k - 1 \in 0 .. n
        BY <1>6, <3>2
      <4>2. p.keys = Count("newkeys", 1 .. k - 1)'
        BY <1>4, <1>5, <1>11, <4>1
      <4>3. Start(k + 1)' = p.from + WireLen(p)
        <5>1. k + 1 \notin DOMAIN served'
          BY <1>6, <3>2
        <5>2. Start(k + 1)' = Total'
          BY <5>1 DEF Start
        <5> QED BY <1>8, <1>9, <5>2
      <4>4. \A j \in 1 .. k - 1 : served'[j].from < p.from
        <5>1. \A j \in 1 .. n : served'[j] = served[j] /\ served[j].from < Total
          BY <1>6, <2>3
        <5> QED BY <1>5, <4>1, <5>1
      <4>5. p.from < Total'
        BY <1>5, <1>8, <1>9
      <4> QED BY <1>5, <4>1, <4>2, <4>3, <4>4, <4>5
    <3> QED BY <3>1, <3>2
  <2>5. ASSUME NEW k \in DOMAIN served'
        PROVE  WireLen(served[k])' = WireLen(served'[k])
    BY <1>7 DEF WireLen, MacOf
  <2>6. \A k \in 1 .. n + 1 : BlockOf(served[k].keys)' = BlockOf(served'[k].keys)
    BY DEF BlockOf
  <2>7. \A k \in DOMAIN served' :
          /\ served'[k].keys = Count("newkeys", 1 .. k - 1)'
          /\ served'[k].damaged => served'[k].keys > 0
          /\ served'[k].len >= BlockOf(served[k].keys)'
          /\ Start(k + 1)' = served'[k].from + WireLen(served[k])'
          /\ \A j \in 1 .. k - 1 : served'[j].from < served'[k].from
          /\ served'[k].from < Total'
    BY <1>6, <2>4, <2>5, <2>6
  <2> QED BY <1>6, <2>1, <2>2, <2>7 DEF ServedOK
<1>13. /\ Len(inbound) \in 0 .. n /\ underWay = Len(inbound) + 1 /\ underWay' = underWay
       /\ inbound' = inbound /\ underWay \in 1 .. n + 1
       /\ newLen # 0 => underWay \in 1 .. n
  <2>1. /\ Len(inbound) \in Nat /\ Len(inbound) <= n /\ underWay = Len(inbound) + 1
        /\ newLen # 0 => underWay \in 1 .. n
    BY <1>3, InboundFirst
  <2> QED BY <1>1, <2>1 DEF underWay, queueVars
<1>14. ReceiveTypes'
  BY <1>1, <1>2 DEF ReceiveTypes, ringVars, packetVars, queueVars, cipherVars
<1>15. RingKept'
  BY <1>1, <1>2, <1>14, RingSame
<1>16. Genuine'
  <2>1. PacketsInStep'
    <3>1. ASSUME newLen # 0
          PROVE  /\ underWay \in DOMAIN served' /\ served'[underWay] = served[underWay]
                 /\ ~served[underWay].damaged => newLen = served[underWay].len
                 /\ served[underWay].keys = cipher
                 /\ newPacket = [i \in DOMAIN newPacket |-> served[underWay].from + i - 1]
      BY <1>2, <1>6, <1>13, <3>1 DEF Genuine, PacketsInStep, underWay
    <3>2. UNCHANGED <<newLen, newPacket, inbound, cipher>>
      BY <1>1 DEF packetVars, queueVars, cipherVars
    <3> QED BY <3>1, <3>2 DEF PacketsInStep, underWay
  <2>2. ASSUME NEW i \in DOMAIN inbound
        PROVE  inbound[i] = i /\ i \in DOMAIN served' /\ ~served'[i].damaged
    <3>1. inbound[i] = i /\ i \in 1 .. n /\ ~served[i].damaged
      BY <1>2, <1>3 DEF Genuine
    <3> QED BY <1>6, <3>1
  <2> QED BY <1>13, <2>1, <2>2 DEF Genuine
<1>17. CiphersOK'
  <2>1. Count("newkeys", 1 .. Len(inbound))' = Count("newkeys", 1 .. Len(inbound))
    BY <1>11, <1>13
  <2>2. cipher' = cipher /\ newCipher' = newCipher /\ pc' = pc
    BY <1>1 DEF cipherVars
  <2> QED BY <1>2, <2>1, <2>2 DEF CiphersOK
<1>18. PlaceOK'
  <2>1. Start(underWay)' = Start(underWay)
    BY <1>10, <1>13 DEF Start
  <2>2. UNCHANGED <<pc, newPacket, newLen, sequenceNum, left, arrived>>
    BY <1>1 DEF packetVars, queueVars, ringVars
  <2>3. ASSUME pc \in Swapping
        PROVE  /\ Start(underWay + 1)' = Start(underWay + 1)
               /\ served'[underWay] = served[underWay]
    <3>1. underWay \in 1 .. n /\ underWay + 1 \in 1 .. n + 1
      BY <1>2, <1>13, <2>3 DEF PlaceOK
    <3>2. \A k \in 1 .. n + 1 : k = underWay + 1 => Start(underWay + 1)' = Start(k)'
      BY <1>13 DEF Start
    <3> QED BY <1>6, <1>10, <3>1, <3>2
  <2> QED BY <1>2, <1>13, <2>1, <2>2, <2>3 DEF PlaceOK, Swapping
<1> QED BY <1>12, <1>15, <1>16, <1>17, <1>18 DEF ReceiveInv

LEMMA ReceiveStarts ==
    ASSUME ReceiveInit
    PROVE  ReceiveInv
<1>1. /\ pc = "read" /\ raw = [i \in Places |-> 0] /\ writeIter = 0 /\ workIter = 0 /\ left = 0
      /\ newPacket = <<>> /\ newLen = 0 /\ sequenceNum = 0 /\ inbound = <<>>
      /\ cipher = 0 /\ newCipher = 0 /\ macLen \in MacLens /\ served = <<>> /\ arrived = 0
  BY DEF ReceiveInit
<1>2. 0 \in Places /\ 0 \in 0 .. RawBufSize /\ 0 \in 0 .. MaxPackets
  BY ReceiveSizes DEF Places
<1>3. ReceiveTypes
  BY <1>1, <1>2 DEF ReceiveTypes
<1>4. RingKept
  BY <1>1, <1>3 DEF RingKept
<1>5. Genuine
  BY <1>1 DEF Genuine, PacketsInStep
<1>6. ServedOK
  <2>1. Total = 0
    BY <1>1 DEF Total
  <2>2. Len(served) <= MaxPackets /\ DOMAIN served = {}
    BY <1>1, ReceiveSizes
  <2> QED BY <1>1, <2>1, <2>2 DEF ServedOK
<1>7. CiphersOK
  <2>1. {k \in 1 .. Len(inbound) : served[k].type = "newkeys"} = {}
    BY <1>1
  <2>2. Count("newkeys", 1 .. Len(inbound)) = 0
    BY <2>1, FS_EmptySet DEF Count
  <2> QED BY <1>1, <2>2 DEF CiphersOK
<1>8. PlaceOK
  <2>1. underWay \notin DOMAIN served /\ Total = 0
    BY <1>1 DEF Total
  <2>2. Start(underWay) = 0
    BY <2>1 DEF Start
  <2> QED BY <1>1, <2>2 DEF PlaceOK, Swapping
<1> QED BY <1>4, <1>5, <1>6, <1>7, <1>8 DEF ReceiveInv

LEMMA ReceiveNextKeeps ==
    ASSUME ReceiveInv, [ReceiveNext]_receiveVars
    PROVE  ReceiveInv'
<1>1. CASE UNCHANGED receiveVars
  <2>1. RingKept /\ Genuine /\ ServedOK /\ CiphersOK /\ PlaceOK /\ ReceiveTypes
    BY DEF ReceiveInv, RingKept
  <2>2. /\ pc' = pc /\ UNCHANGED ringVars /\ UNCHANGED packetVars /\ UNCHANGED queueVars
        /\ UNCHANGED cipherVars /\ UNCHANGED serverVars
    BY <1>1 DEF receiveVars
  <2>3. ReceiveTypes'
    BY <2>1, <2>2 DEF ReceiveTypes, ringVars, packetVars, queueVars, cipherVars
  <2>4. RingKept'
    BY <2>1, <2>2, <2>3, RingSame DEF serverVars
  <2>5. Genuine'
    BY <2>1, <2>2 DEF Genuine, PacketsInStep, packetVars, queueVars, cipherVars, serverVars
  <2>6. ServedOK'
    BY <2>1, <2>2, ServedSame DEF cipherVars, serverVars
  <2>7. CiphersOK'
    BY <2>1, <2>2 DEF CiphersOK, queueVars, cipherVars, serverVars, Count
  <2>8. /\ Start(underWay)' = Start(underWay) /\ Start(underWay + 1)' = Start(underWay + 1)
        /\ underWay' = underWay
    BY <2>2 DEF Start, Total, WireLen, MacOf, underWay, serverVars, queueVars, cipherVars
  <2>9. PlaceOK'
    BY <2>1, <2>2, <2>8 DEF PlaceOK, packetVars, queueVars, serverVars, ringVars, Swapping
  <2> QED BY <2>4, <2>5, <2>6, <2>7, <2>9 DEF ReceiveInv
<1>2. CASE ReceiveNext
  BY <1>2, RecvKeeps, QuietKeeps, CreateKeeps, FillKeeps, AcceptKeeps, RefuseKeeps, EndKeeps,
     SetCipherKeeps, SendKeeps DEF ReceiveNext, Run
<1> QED BY <1>1, <1>2

\* Bytes, packets and keys agree between any two steps of SocketRecieve, of the Transport
\* that makes its cipher (setCipher), and of the server.
THEOREM ReceiveInvariant == ReceiveSpec => []ReceiveInv
<1>1. ReceiveInit => ReceiveInv
  BY ReceiveStarts
<1>2. ReceiveInv /\ [ReceiveNext]_receiveVars => ReceiveInv'
  BY ReceiveNextKeeps
<1> QED BY <1>1, <1>2, PTL DEF ReceiveSpec

\* The ring holds the bytes left to process, in order, wherever a read, a packet or a MAC
\* wraps (SocketRecieve::run, decrypt, createNewReadPacket).
THEOREM RingAlways == ReceiveSpec => []RingKept
<1>1. ReceiveInv => RingKept
  BY DEF ReceiveInv
<1> QED BY <1>1, ReceiveInvariant, PTL

\* What SocketRecieve queues for Transport is what the server sent: whole, once, in order, under
\* its own cipher and with its own MAC, and nothing that was damaged.
THEOREM GenuineAlways == ReceiveSpec => []Genuine
<1>1. ReceiveInv => Genuine
  BY DEF ReceiveInv
<1> QED BY <1>1, ReceiveInvariant, PTL
=============================================================================
