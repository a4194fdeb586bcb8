------------------------------- MODULE Inbound -------------------------------
(***************************************************************************)
(* The receiving half of one PTssh channel: the Transport thread puts the  *)
(* data and the extended data (stderr) it receives into the channel's two  *)
(* queues with ChannelManager::queueInboundData, user threads take them    *)
(* out with ChannelManager::getInboundData, and every read of the data     *)
(* stream may give the peer more window with a WINDOW_ADJUST message.      *)
(*                                                                         *)
(* The peer keeps to the window it was given.  A step is a critical        *)
(* section; m_windowSizeLocal, which one side changes under a mutex and    *)
(* the other under none, is loaded and stored in two steps.                *)
(***************************************************************************)
EXTENDS Integers, Sequences, FiniteSets, Selections

CONSTANTS
    Readers,     \* the user threads that read the channel
    Streams,     \* the streams in use: "data", "ext"
    Modes,       \* how the user reads: "poll", "timed", "forever"
    MaxQueue,    \* PTSSH_MAX_OUTBOUND_QUEUE_SIZE, which is also the first window
    Word,        \* uint32 counters wrap at Word
    SendSizes,   \* lengths of the data in the peer's packets
    MaxSent,     \* bound: MaxSent[s] bytes the peer sends on stream s
    MaxAdjusts,  \* bound: no new call while so many adjustments are under way
    SocketMayDie \* whether the connection may be lost

ASSUME InboundAssumption ==
    /\ IsFiniteSet(Readers)
    /\ Streams \subseteq {"data", "ext"}
    /\ Modes \subseteq {"poll", "timed", "forever"}
    /\ MaxQueue \in Nat \ {0} /\ Word \in Nat /\ MaxQueue < Word
    /\ SendSizes \subseteq Nat \ {0}
    /\ MaxSent \in [Streams -> Nat] /\ MaxAdjusts \in Nat
    /\ SocketMayDie \in BOOLEAN

\* Deviation: the difference is not taken in uint32.
MinusNoWrap(a, b) == a - b

Minus(a, b) == (a - b) % Word

\* A packet is known by the place of its first byte in its stream.
Packet == [s : Streams, off : Nat, len : SendSizes]

NoCall == [s |-> "none", mode |-> "none"]

VARIABLES
    wire,        \* packets the peer has sent, in order
    peerWindow,  \* what the peer may still send
    adjusts,     \* WINDOW_ADJUST amounts queued or under way to the peer
    inQueue,     \* m_pInboundDataQueue and m_pInboundStdErrorQueue
    windowLocal, \* m_windowSizeLocal
    tpc,         \* Transport: between two packets, or in the -= of the window
    tload,       \* the value of the window it has loaded
    rpc,         \* rpc[r]: where reader r is in getInboundData
    call,        \* call[r]: the stream and the mode r reads with
    toAdd,       \* toAdd[r]: windowSizeToAdd
    rload,       \* rload[r]: the value of the window r has loaded
    dead,        \* the connection is lost
    sent,        \* history: bytes sent by the peer on each stream
    taken        \* history: bytes taken out by readers on each stream

peerVars == <<wire, peerWindow, adjusts, sent>>
transportVars == <<tpc, tload>>
readerVars == <<rpc, call, toAdd, rload, taken>>
vars == <<peerVars, inQueue, windowLocal, transportVars, readerVars, dead>>

Init ==
    /\ wire = <<>>
    /\ peerWindow = MaxQueue
    /\ adjusts = <<>>
    /\ inQueue = [s \in Streams |-> <<>>]
    /\ windowLocal = MaxQueue
    /\ tpc = "idle"
    /\ tload = 0
    /\ rpc = [r \in Readers |-> "idle"]
    /\ call = [r \in Readers |-> NoCall]
    /\ toAdd = [r \in Readers |-> 0]
    /\ rload = [r \in Readers |-> 0]
    /\ dead = FALSE
    /\ sent = [s \in Streams |-> 0]
    /\ taken = [s \in Streams |-> 0]
-----------------------------------------------------------------------------
(* The peer. *)

PeerSends(s, k) ==
    /\ ~ dead
    /\ k <= peerWindow
    /\ sent[s] + k <= MaxSent[s]
    /\ wire' = Append(wire, [s |-> s, off |-> sent[s], len |-> k])
    /\ peerWindow' = peerWindow - k
    /\ sent' = [sent EXCEPT ![s] = @ + k]
    /\ UNCHANGED <<adjusts, inQueue, windowLocal, transportVars, readerVars, dead>>

PeerGetsAdjust ==
    /\ ~ dead
    /\ adjusts # <<>>
    /\ peerWindow' = (peerWindow + Head(adjusts)) % Word
    /\ adjusts' = Tail(adjusts)
    /\ UNCHANGED <<wire, sent, inQueue, windowLocal, transportVars, readerVars, dead>>

SocketDies ==
    /\ SocketMayDie /\ ~ dead
    /\ dead' = TRUE
    /\ UNCHANGED <<peerVars, inQueue, windowLocal, transportVars, readerVars>>
-----------------------------------------------------------------------------
(* The Transport thread in queueInboundData. *)

Waiters(s) == {r \in Readers : rpc[r] = "wait" /\ call[r].s = s}

\* Deviation: the condition is signalled only when the queue was empty.
SignalFirstOnly(s) ==
    IF Waiters(s) = {} \/ inQueue[s] # <<>> THEN UNCHANGED rpc
    ELSE \E r \in Waiters(s) : rpc' = [rpc EXCEPT ![r] = "woken"]

\* pthread_cond_signal on the condition of the stream wakes one waiting thread.
Signal(s) ==
    IF Waiters(s) = {} THEN UNCHANGED rpc
    ELSE \E r \in Waiters(s) : rpc' = [rpc EXCEPT ![r] = "woken"]

\* Deviation: the new packet is put where the next one is taken out.
EnqueueInFront(p) == inQueue' = [inQueue EXCEPT ![p.s] = <<p>> \o @]

Enqueue(p) == inQueue' = [inQueue EXCEPT ![p.s] = Append(@, p)]

\* Data: the window is loaded with m_activityDataMutex held ...
TransportLoad ==
    /\ ~ dead
    /\ tpc = "idle"
    /\ wire # <<>> /\ Head(wire).s = "data"
    /\ tload' = windowLocal
    /\ tpc' = "store"
    /\ UNCHANGED <<peerVars, inQueue, windowLocal, readerVars, dead>>

\* ... and stored, and the packet queued, before the mutex is given back.
TransportStore ==
    /\ tpc = "store"
    /\ LET p == Head(wire)
       IN  /\ windowLocal' = Minus(tload, p.len)
           /\ Enqueue(p)
           /\ Signal(p.s)
    /\ wire' = Tail(wire)
    /\ tpc' = "idle"
    /\ tload' = 0
    /\ UNCHANGED <<peerWindow, adjusts, sent, call, toAdd, rload, taken, dead>>

\* Extended data: the window is not looked at.
QueueExtended ==
    /\ ~ dead
    /\ tpc = "idle"
    /\ wire # <<>> /\ Head(wire).s = "ext"
    /\ Enqueue(Head(wire))
    /\ Signal("ext")
    /\ wire' = Tail(wire)
    /\ UNCHANGED <<peerWindow, adjusts, sent, windowLocal, transportVars,
                   call, toAdd, rload, taken, dead>>

Transport == TransportLoad \/ TransportStore \/ QueueExtended
-----------------------------------------------------------------------------
(* A user thread in getInboundData. *)

\* The mutex of the stream is free.
Free(s) == s = "data" => tpc # "store"

WindowSizeToAdd == Minus(MaxQueue, windowLocal)

WorthAnAdjust(k) == k >= MaxQueue \div 32

\* The dequeue, if there is something, and what windowSizeToAdd becomes before
\* the mutex is given back.  Only the data stream has a window.
Take(r, s) ==
    LET empty == inQueue[s] = <<>>
        adjust == s = "data" /\ WorthAnAdjust(WindowSizeToAdd)
    IN  /\ inQueue' = IF empty THEN inQueue ELSE [inQueue EXCEPT ![s] = Tail(@)]
        /\ taken' = IF empty THEN taken ELSE [taken EXCEPT ![s] = @ + Head(inQueue[s]).len]
        /\ toAdd' = [toAdd EXCEPT ![r] = IF adjust THEN WindowSizeToAdd ELSE 0]
        /\ rpc' = [rpc EXCEPT ![r] = IF adjust THEN "adjust" ELSE "idle"]
        /\ call' = [call EXCEPT ![r] = NoCall]
        /\ UNCHANGED <<peerVars, windowLocal, transportVars, rload, dead>>

\* A call that finds data, or does not block.
Read(r, s, mode) ==
    /\ rpc[r] = "idle"
    /\ Free(s)
    /\ inQueue[s] # <<>> \/ mode = "poll"
    /\ Take(r, s)

\* A call that blocks.
Block(r, s, mode) ==
    /\ rpc[r] = "idle"
    /\ Free(s)
    /\ inQueue[s] = <<>> /\ mode # "poll"
    /\ call' = [call EXCEPT ![r] = [s |-> s, mode |-> mode]]
    /\ rpc' = [rpc EXCEPT ![r] = "wait"]
    /\ UNCHANGED <<peerVars, inQueue, windowLocal, transportVars, toAdd, rload,
                   taken, dead>>

TimeOut(r) ==
    /\ rpc[r] = "wait" /\ call[r].mode = "timed"
    /\ rpc' = [rpc EXCEPT ![r] = "woken"]
    /\ UNCHANGED <<peerVars, inQueue, windowLocal, transportVars, call, toAdd, rload, taken, dead>>

\* A woken thread has the mutex again: it dequeues without waiting once more.
WakeUp(r) ==
    /\ rpc[r] = "woken"
    /\ Free(call[r].s)
    /\ Take(r, call[r].s)

\* The adjustment is queued, and the window is loaded and stored, with no mutex.
QueueAdjust(r) ==
    /\ rpc[r] = "adjust"
    /\ adjusts' = Append(adjusts, toAdd[r])
    /\ rpc' = [rpc EXCEPT ![r] = "load"]
    /\ UNCHANGED <<wire, peerWindow, sent, inQueue, windowLocal, transportVars, call,
                   toAdd, rload, taken, dead>>

LoadWindow(r) ==
    /\ rpc[r] = "load"
    /\ rload' = [rload EXCEPT ![r] = windowLocal]
    /\ rpc' = [rpc EXCEPT ![r] = "store"]
    /\ UNCHANGED <<peerVars, inQueue, windowLocal, transportVars, call, toAdd,
                   taken, dead>>

StoreWindow(r) ==
    /\ rpc[r] = "store"
    /\ windowLocal' = (rload[r] + toAdd[r]) % Word
    /\ rpc' = [rpc EXCEPT ![r] = "idle"]
    /\ toAdd' = [toAdd EXCEPT ![r] = 0]
    /\ rload' = [rload EXCEPT ![r] = 0]
    /\ UNCHANGED <<peerVars, inQueue, transportVars, call, taken, dead>>

GoOn(r) == TimeOut(r) \/ WakeUp(r) \/ QueueAdjust(r) \/ LoadWindow(r) \/ StoreWindow(r)

Call(r) ==
    /\ Len(adjusts) < MaxAdjusts
    /\ \E s \in Streams, mode \in Modes : Read(r, s, mode) \/ Block(r, s, mode)

Peer == PeerGetsAdjust \/ \E s \in Streams, k \in SendSizes : PeerSends(s, k)

Next ==
    \/ Peer
    \/ SocketDies
    \/ Transport
    \/ \E r \in Readers : Call(r) \/ GoOn(r)

Spec == Init /\ [][Next]_vars

-----------------------------------------------------------------------------
(* Properties. *)

\* The shape of the state.
TypeOK ==
    /\ wire \in Seq(Packet)
    /\ peerWindow \in 0..(Word - 1)
    /\ adjusts \in Seq(0..(Word - 1))
    /\ inQueue \in [Streams -> Seq(Packet)]
    /\ windowLocal \in 0..(Word - 1)
    /\ tpc \in {"idle", "store"}
    /\ tload \in 0..(Word - 1)
    /\ rpc \in [Readers -> {"idle", "wait", "woken", "adjust", "load", "store"}]
    /\ call \in [Readers -> [s : Streams, mode : Modes] \cup {NoCall}]
    /\ toAdd \in [Readers -> 0..(Word - 1)]
    /\ rload \in [Readers -> 0..(Word - 1)]
    /\ dead \in BOOLEAN
    /\ {sent, taken} \subseteq [Streams -> Nat]

\* Several readers, timeouts and one signal per packet: data never lies in a
\* queue while all who read that stream sleep.
NoStrandedData ==
    \A s \in Streams : inQueue[s] # <<>> /\ Waiters(s) # {} =>
        \E r \in Readers : rpc[r] = "woken" /\ call[r].s = s

\* What the readers will still get of a stream, in the order they will get it.
Of(s) == [s : {s}, off : Nat, len : SendSizes]
Coming(s) == inQueue[s] \o Selection(wire, Of(s))

\* Whoever reads, and however reads, timeouts and arrivals interleave, every byte of
\* a stream is read once and in its place: what is queued and under way goes on
\* without a gap from what has been taken out to what the peer has sent.
InOrder ==
    \A s \in Streams :
        LET packets == Coming(s)
            EndOf(i) == IF i = 0 THEN taken[s] ELSE packets[i].off + packets[i].len
        IN  /\ \A i \in DOMAIN packets : packets[i].off = EndOf(i - 1)
            /\ EndOf(Len(packets)) = sent[s]

\* "we inspect the amount of data in the queue and subtract it from this number":
\* the queue never holds more than the maximum.
QueueBounded ==
    "data" \in Streams =>
        LET queued[i \in 0..Len(inQueue["data"])] ==
                IF i = 0 THEN 0 ELSE queued[i - 1] + inQueue["data"][i].len
        IN  queued[Len(inQueue["data"])] <= MaxQueue

\* "If that amount is positive, we then create and send a window adjust message so
\* the remote end can send us more data": with nothing queued, under way or being
\* read, the peer may send, or the next read lets it.
PeerMaySend ==
    (/\ wire = <<>> /\ adjusts = <<>>
     /\ \A s \in Streams : inQueue[s] = <<>>
     /\ tpc = "idle"
     /\ \A r \in Readers : rpc[r] = "idle")
        => peerWindow > 0 \/ WorthAnAdjust(WindowSizeToAdd)
=============================================================================
