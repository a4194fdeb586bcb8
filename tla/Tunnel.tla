------------------------------ MODULE Tunnel ------------------------------
(***************************************************************************)
(* The tunnels of PTssh.  TunnelHandler.cpp forwards between a socket and  *)
(* a channel with a pair of threads; TcpIpTunnelHandler.cpp listens on a   *)
(* local port and starts a pair for each connection it accepts;            *)
(* X11TunnelHandler.cpp starts one for an X11 channel the server opens;    *)
(* closeAutomaticDirectTCPIP and disconnect (PTssh.cpp) shut them down.    *)
(* Each lock of a mutex, each call on a socket or a channel is one step.   *)
(* A channel is what PTssh.h offers: a number, a bounded queue out and a   *)
(* queue of packets in; Channels and Outbound have its inside.             *)
(***************************************************************************)
EXTENDS Integers, Sequences, FiniteSets, SequencesExt, FiniteSetsExt

CONSTANTS
    Tcp,            \* connections to the local port
    X11,            \* connections to the local X11 server
    BufLen,         \* bytes one recv takes (1024)
    QueueMax,       \* buffers the queue of a channel holds
    SocketRoom,     \* bytes the socket holds for a program that does not read
    PacketLen,      \* bytes in a packet of the server
    MaxSent,        \* bytes the programs send in all
    MaxSaid,        \* packets the server sends in all
    MaxStarted,     \* connections there are, of both kinds
    MaxEnds         \* times a program or the server ends a connection, or select fails

Pairs == Tcp \cup X11
None == "none"
NoNumber == -1      \* PTSSH_BAD_CHANNEL_NUMBER
Other == "other"    \* a channel of the program that no tunnel uses
Channels == Pairs \cup {Other}
Slots == 0 .. MaxStarted        \* enough numbers for all of them

ASSUME TunnelAssumption ==
    /\ Tcp \cap X11 = {} /\ IsFiniteSet(Pairs) /\ {None, Other} \cap Pairs = {}
    /\ {BufLen, QueueMax, SocketRoom, PacketLen} \subseteq Nat \ {0}
    /\ {MaxSent, MaxSaid, MaxStarted, MaxEnds} \subseteq Nat

VARIABLES
    \* struct threadData and its two threads, per pair
    pTD, bShutdown, bIsSocketAlive,
    sc, bConnected, errno, sBuf,        \* socketToChannelThread
    cs, bytes,                          \* channelToSocketThread
    \* the sockets and the programs behind them
    tunnelSock, program, socketIn, sent, socketOut, read,
    \* the channels
    cNum, owner, channel, queue, toServer, inbound, said,
    \* TcpIpTunnelHandler: its listener, m_pHandlers, the object itself
    listener, accepted, m_bShutdown, m_pHandlers, handler,
    \* X11TunnelHandler::init in the Transport thread, and m_pX11Handlers
    transport, x11Pair, m_pX11Handlers,
    \* the user's thread
    user, call, victim,
    joinedEarly,    \* history: pairs whose second thread was joined before it was made
    ends            \* bound: connections that were ended, selects that failed

threadVars == <<pTD, bShutdown, bIsSocketAlive>>
scVars == <<sc, bConnected, errno, sBuf>>
csVars == <<cs, bytes>>
programVars == <<program, sent, read>>
socketVars == <<tunnelSock, programVars, socketIn, socketOut>>
channelVars == <<cNum, owner, channel, queue, toServer, inbound, said>>
listenerVars == <<listener, accepted, m_bShutdown, m_pHandlers, handler>>
x11Vars == <<transport, x11Pair, m_pX11Handlers>>
userVars == <<user, call, victim, ends>>
pairVars == <<threadVars, scVars, csVars, joinedEarly>>
vars == <<pairVars, socketVars, channelVars, listenerVars, x11Vars, userVars>>

All(value) == [c \in Pairs |-> value]

Init ==
    /\ pTD = All(None) /\ bShutdown = All(FALSE) /\ bIsSocketAlive = All(TRUE)
    /\ sc = All(None) /\ bConnected = All(TRUE) /\ errno = All(None)
    /\ sBuf = All(<<>>) /\ cs = All(None) /\ bytes = All(<<>>)
    /\ tunnelSock = All(None) /\ program = All(None)
    /\ socketIn = All(<<>>) /\ sent = All(0) /\ socketOut = All(<<>>) /\ read = All(0)
    /\ cNum = All(NoNumber) /\ owner = [s \in Slots |-> None]
    /\ channel = [c \in Channels |-> None]
    /\ queue = [c \in Channels |-> <<>>] /\ toServer = queue
    /\ inbound = queue /\ said = [c \in Channels |-> 0]
    /\ listener = None /\ accepted = None /\ m_bShutdown = FALSE
    /\ m_pHandlers = <<>> /\ handler = None
    /\ transport = "idle" /\ x11Pair = None /\ m_pX11Handlers = <<>>
    /\ user = "idle" /\ call = None /\ victim = None
    /\ joinedEarly = {} /\ ends = 0

Set(f, c, value) == [f EXCEPT ![c] = value]
Started == {c \in Pairs : program[c] # None \/ cNum[c] # NoNumber}
Ends == ends < MaxEnds /\ ends' = ends + 1
Total(f) == FoldFunction(+, 0, f)
Bytes(c, first, last) == [k \in 1 .. last - first + 1 |-> <<c, first + k - 1>>]

-----------------------------------------------------------------------------
(* The channels of PTssh, by their number. *)

At(c) == IF cNum[c] = NoNumber THEN None ELSE owner[cNum[c]]

\* The lowest free number.
FreeSlot(s) == owner[s] = None /\ \A t \in Slots : t < s => owner[t] # None

\* newChannel, and the number its caller keeps.
newChannel(c) ==
    \E s \in Slots :
      FreeSlot(s) /\ cNum' = Set(cNum, c, s) /\ owner' = [owner EXCEPT ![s] = c]

\* closeChannel(cNum[c]): the CLOSE of the other side is waited for and the
\* number is free again; one the server has closed already stays as it is.
closeChannel(c) ==
    IF At(c) # None /\ channel[At(c)] = "open"
    THEN /\ channel' = Set(channel, At(c), "closed")
         /\ owner' = [owner EXCEPT ![cNum[c]] = None]
    ELSE UNCHANGED <<channel, owner>>

\* deleteChannel(cNum[c]) frees the number whatever the channel's state.
deleteChannel(c) ==
    IF At(c) # None
    THEN /\ channel' = Set(channel, At(c), "closed")
         /\ owner' = [owner EXCEPT ![cNum[c]] = None]
    ELSE UNCHANGED <<channel, owner>>

-----------------------------------------------------------------------------
(* TunnelHandler::socketToChannelThread *)

ScUnchanged == UNCHANGED <<csVars, programVars, listenerVars, x11Vars, userVars>>

Readable(c) == socketIn[c] # <<>> \/ program[c] # "open"

\* The top of the loop: bConnected and, under the mutex, bShutdown; then select
\* finds something to receive, or nothing in time, or fails.
ScLook(c) ==
    /\ sc[c] = "look"
    /\ \/ (~bConnected[c] \/ bShutdown[c]) /\ sc' = Set(sc, c, "end") /\ UNCHANGED ends
       \/ /\ bConnected[c] /\ ~bShutdown[c] /\ Readable(c)
          /\ sc' = Set(sc, c, "recv")
          /\ UNCHANGED ends
       \/ /\ bConnected[c] /\ ~bShutdown[c]
          /\ Ends /\ sc' = Set(sc, c, "end")      \* select < 0
    /\ UNCHANGED <<threadVars, bConnected, errno, sBuf, joinedEarly, tunnelSock,
                   socketIn, socketOut, channelVars>>
    /\ UNCHANGED <<csVars, programVars, listenerVars, x11Vars, user, call, victim>>

\* What recv can find.
HasData(c) == socketIn[c] # <<>>
Ended(c) == socketIn[c] = <<>> /\ program[c] \in {"shut", "dead"}   \* returns 0
Broken(c) == socketIn[c] = <<>> /\ program[c] = "reset"             \* ECONNRESET
Empty(c) == socketIn[c] = <<>> /\ program[c] = "open"               \* EAGAIN

ScRecvData(c) ==
    LET n == Min({BufLen, Len(socketIn[c])}) IN
    /\ sc[c] = "recv" /\ HasData(c)
    /\ sBuf' = Set(sBuf, c, SubSeq(socketIn[c], 1, n))
    /\ socketIn' = Set(socketIn, c, SubSeq(socketIn[c], n + 1, Len(socketIn[c])))
    /\ sc' = Set(sc, c, "write")
    /\ UNCHANGED <<threadVars, bConnected, errno, joinedEarly, tunnelSock, socketOut,
                   channelVars>>
    /\ ScUnchanged

\* Mutant: the error is told to the other thread, and the loop goes on.
DiedUnseen(c) ==
    /\ bIsSocketAlive' = Set(bIsSocketAlive, c, FALSE)
    /\ UNCHANGED bConnected

\* The error branch: the socket is dead, and the other thread is told.
SocketDied(c) ==
    /\ bConnected' = Set(bConnected, c, FALSE)
    /\ bIsSocketAlive' = Set(bIsSocketAlive, c, FALSE)

\* recv of 0 or less: errno decides, also after a 0, which does not set it.
\* A socket of X11 blocks, so there recv waits when nothing is there.
ScRecvNothing(c) ==
    /\ sc[c] = "recv"
    /\ \/ /\ Ended(c) /\ UNCHANGED <<errno, program>>
       \/ /\ Broken(c)
          /\ errno' = Set(errno, c, "ECONNRESET") /\ program' = Set(program, c, "dead")
       \/ /\ Empty(c) /\ c \in Tcp
          /\ errno' = Set(errno, c, "EAGAIN") /\ UNCHANGED program
    /\ IF errno'[c] = "EAGAIN" THEN UNCHANGED <<bConnected, bIsSocketAlive>> ELSE SocketDied(c)
    /\ sc' = Set(sc, c, "look")
    /\ UNCHANGED <<pTD, bShutdown, sBuf, joinedEarly, tunnelSock, socketIn, socketOut,
                   channelVars, csVars, sent, read, listenerVars, x11Vars, userVars>>

\* Mutant: a buffer that was written stays to be written again.
WriteKept(c) ==
    /\ sc[c] = "write" /\ At(c) # None /\ Len(queue[At(c)]) < QueueMax
    /\ queue' = Set(queue, At(c), Append(queue[At(c)], sBuf[c]))
    /\ sc' = Set(sc, c, "recv")
    /\ UNCHANGED <<threadVars, bConnected, errno, sBuf, joinedEarly, tunnelSock, socketIn,
                   socketOut, cNum, owner, channel, toServer, inbound, said>>
    /\ ScUnchanged

\* channelWrite waits while the queue is full; a number without a channel is
\* an error, after which the loop over recv goes on all the same.
ScWrite(c) ==
    /\ sc[c] = "write"
    /\ IF At(c) = None
       THEN bConnected' = Set(bConnected, c, FALSE) /\ UNCHANGED queue
       ELSE /\ Len(queue[At(c)]) < QueueMax
            /\ queue' = Set(queue, At(c), Append(queue[At(c)], sBuf[c]))
            /\ UNCHANGED bConnected
    /\ sBuf' = Set(sBuf, c, <<>>)
    /\ sc' = Set(sc, c, "recv")
    /\ UNCHANGED <<threadVars, errno, joinedEarly, tunnelSock, socketIn, socketOut,
                   cNum, owner, channel, toServer, inbound, said>>
    /\ ScUnchanged

\* The cleanup: tell the other thread, wait for it, close socket and channel.
ScEnd(c) ==
    /\ sc[c] = "end"
    /\ bIsSocketAlive' = Set(bIsSocketAlive, c, FALSE)
    /\ bShutdown' = Set(bShutdown, c, TRUE)
    /\ sc' = Set(sc, c, "join")
    /\ UNCHANGED <<pTD, bConnected, errno, sBuf, joinedEarly, tunnelSock, socketIn,
                   socketOut, channelVars>>
    /\ ScUnchanged

\* Mutant: the socket is closed without waiting for the other thread.
JoinNobody(c) ==
    /\ sc[c] = "join"
    /\ sc' = Set(sc, c, "close")
    /\ UNCHANGED <<threadVars, bConnected, errno, sBuf, joinedEarly, tunnelSock, socketIn,
                   socketOut, channelVars>>
    /\ ScUnchanged

\* threadChannelToSocketObj has no value before the second thread is made:
\* pthread_join of it returns at once.
ScJoin(c) ==
    /\ sc[c] = "join" /\ cs[c] \in {None, "done"}
    /\ joinedEarly' = IF cs[c] = None THEN joinedEarly \cup {c} ELSE joinedEarly
    /\ sc' = Set(sc, c, "close")
    /\ UNCHANGED <<threadVars, bConnected, errno, sBuf, tunnelSock, socketIn, socketOut,
                   channelVars>>
    /\ ScUnchanged

ScCloseSocket(c) ==
    /\ sc[c] = "close"
    /\ tunnelSock' = Set(tunnelSock, c, "closed")
    /\ sc' = Set(sc, c, "channel")
    /\ UNCHANGED <<threadVars, bConnected, errno, sBuf, joinedEarly, socketIn, socketOut,
                   channelVars>>
    /\ ScUnchanged

\* Mutant: closeChannel is called again after the number was given away.
CloseTwice(c) ==
    /\ sc[c] \in {"channel", "done"}
    /\ closeChannel(c)
    /\ sc' = Set(sc, c, "done")
    /\ UNCHANGED <<threadVars, bConnected, errno, sBuf, joinedEarly, tunnelSock, socketIn,
                   socketOut, cNum, queue, toServer, inbound, said>>
    /\ ScUnchanged

ScCloseChannel(c) ==
    /\ sc[c] = "channel"
    /\ closeChannel(c)
    /\ sc' = Set(sc, c, "done")
    /\ UNCHANGED <<threadVars, bConnected, errno, sBuf, joinedEarly, tunnelSock, socketIn,
                   socketOut, cNum, queue, toServer, inbound, said>>
    /\ ScUnchanged

socketToChannelThread(c) ==
    \/ ScLook(c) \/ ScRecvData(c) \/ ScRecvNothing(c) \/ ScWrite(c)
    \/ ScEnd(c) \/ ScJoin(c) \/ ScCloseSocket(c) \/ ScCloseChannel(c)

-----------------------------------------------------------------------------
(* TunnelHandler::channelToSocketThread *)

CsUnchanged == UNCHANGED <<threadVars, scVars, joinedEarly, tunnelSock, sent, read,
                           socketIn, listenerVars, x11Vars, userVars>>

\* channelRead for a millisecond: a packet, none in time, or no such channel.
CsRead(c) ==
    /\ cs[c] = "read"
    /\ \/ /\ At(c) # None /\ inbound[At(c)] # <<>>
          /\ bytes' = Set(bytes, c, Head(inbound[At(c)]))
          /\ inbound' = Set(inbound, At(c), Tail(inbound[At(c)]))
          /\ cs' = Set(cs, c, "send")
       \/ /\ At(c) # None /\ inbound[At(c)] = <<>>
          /\ cs' = Set(cs, c, "check") /\ UNCHANGED <<bytes, inbound>>
       \/ /\ At(c) = None
          /\ cs' = Set(cs, c, "done") /\ UNCHANGED <<bytes, inbound>>
    /\ UNCHANGED <<program, socketOut, cNum, owner, channel, queue, toServer, said>>
    /\ CsUnchanged

Room(c) == SocketRoom - (Len(socketOut[c]) - read[c])

\* bytesSent # dataLen: whether the thread goes on after its data is sent.
AllInOneSend(c, n) == n = PacketLen

\* Mutant: send starts from the front of the data again: totalSent is not added.
SendFromFront(c) ==
    LET n == Min({Room(c), Len(bytes[c])}) IN
    /\ cs[c] = "send" /\ program[c] \in {"open", "shut"} /\ tunnelSock[c] = "open" /\ n > 0
    /\ socketOut' = Set(socketOut, c, socketOut[c] \o SubSeq(bytes[c], 1, n))
    /\ bytes' = Set(bytes, c, IF n = Len(bytes[c]) THEN <<>> ELSE bytes[c])
    /\ cs' = Set(cs, c, IF n < Len(bytes[c]) THEN "send" ELSE "read")
    /\ UNCHANGED <<program, channelVars>>
    /\ CsUnchanged

\* send takes what fits and the rest is offered again; EAGAIN repeats the
\* call.  When the data took more than one send the thread ends all the same.
CsSend(c) ==
    LET n == Min({Room(c), Len(bytes[c])})
        rest == SubSeq(bytes[c], n + 1, Len(bytes[c])) IN
    /\ cs[c] = "send" /\ program[c] \in {"open", "shut"} /\ tunnelSock[c] = "open" /\ n > 0
    /\ socketOut' = Set(socketOut, c, socketOut[c] \o SubSeq(bytes[c], 1, n))
    /\ bytes' = Set(bytes, c, rest)
    /\ cs' = Set(cs, c, IF rest # <<>> THEN "send"
                        ELSE IF AllInOneSend(c, n) THEN "read" ELSE "done")
    /\ UNCHANGED <<program, channelVars>>
    /\ CsUnchanged

\* The send fails; one on a reset connection takes the error with it.
CsSendFails(c) ==
    /\ cs[c] = "send"
    /\ tunnelSock[c] = "closed" \/ program[c] \in {"reset", "dead"}
    /\ program' = IF program[c] = "reset" THEN Set(program, c, "dead") ELSE program
    /\ bytes' = Set(bytes, c, <<>>)
    /\ cs' = Set(cs, c, "done")
    /\ UNCHANGED <<socketOut, channelVars>>
    /\ CsUnchanged

\* Nothing came: the shared flags, under the mutex.
CsCheck(c) ==
    /\ cs[c] = "check"
    /\ cs' = Set(cs, c, IF ~bIsSocketAlive[c] \/ bShutdown[c] THEN "done" ELSE "read")
    /\ UNCHANGED <<bytes, program, socketOut, channelVars>>
    /\ CsUnchanged

channelToSocketThread(c) == CsRead(c) \/ CsSend(c) \/ CsSendFails(c) \/ CsCheck(c)

-----------------------------------------------------------------------------
(* Both handlers make a threadData and then its two threads. *)

StartFirst(c) == pTD' = Set(pTD, c, "live") /\ sc' = Set(sc, c, "look")
StartSecond(c) == cs' = Set(cs, c, "read") /\ UNCHANGED sc

QuietPair == UNCHANGED <<bShutdown, bIsSocketAlive, bConnected, errno, sBuf, bytes, joinedEarly>>
QuietChannel == UNCHANGED <<queue, toServer, inbound, said>>

-----------------------------------------------------------------------------
(* TcpIpTunnelHandler *)

\* m_mutex, and the m_x11TunnelHandlerMutex of PTssh, are held by the shutdown
\* while it waits for the threads of each pair.
InTcp == user \in {"pop", "joinSC", "joinCS"}
InX11 == user \in {"x11", "x11Join"}

\* init: the port is bound and the listener starts.  Its id stays in a local
\* variable, m_listenThreadObj is never set.
TcpInit ==
    /\ handler = None /\ user = "idle" /\ call = None
    /\ handler' = "live" /\ listener' = "look"
    /\ UNCHANGED <<accepted, m_bShutdown, m_pHandlers>>
    /\ UNCHANGED <<pairVars, socketVars, channelVars, x11Vars, userVars>>

\* m_bShutdown under m_mutex; then select finds a connection, or nothing in
\* time, or fails, which ends the thread.
ListenerLook ==
    /\ listener = "look" /\ ~InTcp
    /\ \/ m_bShutdown /\ listener' = "done" /\ UNCHANGED <<tunnelSock, accepted, ends>>
       \/ /\ ~m_bShutdown
          /\ \E c \in Tcp :
               /\ program[c] = "open" /\ tunnelSock[c] = None
               /\ tunnelSock' = Set(tunnelSock, c, "open")
               /\ accepted' = c /\ listener' = "open"
          /\ UNCHANGED ends
       \/ ~m_bShutdown /\ Ends /\ listener' = "done" /\ UNCHANGED <<tunnelSock, accepted>>
    /\ UNCHANGED <<m_bShutdown, m_pHandlers, handler>>
    /\ UNCHANGED <<pairVars, programVars, socketIn, socketOut, channelVars, x11Vars,
                   user, call, victim>>

\* handleNewConnection: createChannel_directTCPIP, which the server may refuse
\* (the socket is then left open), pTD and the first of its threads.
OpenChannel ==
    /\ listener = "open"
    /\ \/ /\ newChannel(accepted) /\ channel' = Set(channel, accepted, "open")
          /\ StartFirst(accepted)
          /\ listener' = "second" /\ UNCHANGED accepted
       \/ /\ listener' = "look" /\ accepted' = None
          /\ UNCHANGED <<cNum, owner, channel, pTD, sc>>
    /\ UNCHANGED <<cs, m_bShutdown, m_pHandlers, handler>>
    /\ QuietPair /\ QuietChannel
    /\ UNCHANGED <<socketVars, x11Vars, userVars>>

ListenerSecond ==
    /\ listener = "second" /\ StartSecond(accepted) /\ listener' = "register"
    /\ UNCHANGED <<pTD, accepted, m_bShutdown, m_pHandlers, handler>>
    /\ QuietPair
    /\ UNCHANGED <<socketVars, channelVars, x11Vars, userVars>>

ListenerRegister ==
    /\ listener = "register" /\ ~InTcp
    /\ m_pHandlers' = Append(m_pHandlers, accepted)
    /\ listener' = "look" /\ accepted' = None
    /\ UNCHANGED <<m_bShutdown, handler>>
    /\ UNCHANGED <<pairVars, socketVars, channelVars, x11Vars, userVars>>

Listener == ListenerLook \/ OpenChannel \/ ListenerSecond \/ ListenerRegister

-----------------------------------------------------------------------------
(* X11TunnelHandler::init, called by the Transport thread for an open request *)
(* of the server, and PTssh::handleX11Connection.                             *)

\* newChannel was made; a server that cannot be reached loses the channel again.
handleX11Connection(c) ==
    /\ Cardinality(Started) < MaxStarted /\ transport = "idle"
    /\ cNum[c] = NoNumber /\ call # "disconnect"
    /\ newChannel(c) /\ x11Pair' = c
    /\ transport' = "connect" /\ channel' = Set(channel, c, "open")
    /\ UNCHANGED m_pX11Handlers
    /\ QuietChannel
    /\ UNCHANGED <<pairVars, socketVars, listenerVars, userVars>>

\* connect to the X11 server, setSocketBlocking(true), the CONFIRMATION, m_pTD
\* and the first of its threads.
X11Connect ==
    /\ transport = "connect"
    /\ \/ /\ tunnelSock' = Set(tunnelSock, x11Pair, "open")
          /\ program' = Set(program, x11Pair, "open")
          /\ StartFirst(x11Pair)
          /\ transport' = "second" /\ UNCHANGED <<x11Pair, channel, owner>>
       \/ /\ deleteChannel(x11Pair)
          /\ transport' = "idle" /\ x11Pair' = None
          /\ UNCHANGED <<tunnelSock, program, pTD, sc>>
    /\ UNCHANGED <<cs, m_pX11Handlers, cNum, sent, read, socketIn, socketOut>>
    /\ QuietPair /\ QuietChannel
    /\ UNCHANGED <<listenerVars, userVars>>

X11Second ==
    /\ transport = "second" /\ StartSecond(x11Pair) /\ transport' = "register"
    /\ UNCHANGED <<pTD, x11Pair, m_pX11Handlers>>
    /\ QuietPair
    /\ UNCHANGED <<socketVars, channelVars, listenerVars, userVars>>

X11Register ==
    /\ transport = "register" /\ ~InX11
    /\ m_pX11Handlers' = Append(m_pX11Handlers, x11Pair)
    /\ transport' = "idle" /\ x11Pair' = None
    /\ UNCHANGED <<pairVars, socketVars, channelVars, listenerVars, userVars>>

TransportThread == X11Connect \/ X11Second \/ X11Register

-----------------------------------------------------------------------------
(* The user's thread: closeAutomaticDirectTCPIP, or disconnect. *)

UserUnchanged == UNCHANGED <<ends, bIsSocketAlive, scVars, csVars, joinedEarly, socketVars,
                             accepted, listener, transport, x11Pair>>
UserQuiet == UNCHANGED <<pTD, channelVars, m_pX11Handlers>>

\* shutdown sets the flag of the listener.  Its pthread_join of
\* m_listenThreadObj, which names no thread, returns at once.
Shutdown == m_bShutdown' = TRUE /\ user' = "pop"

closeAutomaticDirectTCPIP ==
    /\ user = "idle" /\ call = None /\ handler = "live"
    /\ call' = "close" /\ Shutdown
    /\ UNCHANGED <<victim, bShutdown, m_pHandlers, handler>>
    /\ UserQuiet /\ UserUnchanged

disconnect ==
    /\ user = "idle" /\ call # "disconnect"
    /\ call' = "disconnect"
    /\ IF handler = "live" THEN Shutdown ELSE user' = "x11" /\ UNCHANGED m_bShutdown
    /\ UNCHANGED <<victim, bShutdown, m_pHandlers, handler>>
    /\ UserQuiet /\ UserUnchanged

\* Mutant: shutdown joins a pair it has not told to stop.
PopUntold ==
    /\ user = "pop"
    /\ IF m_pHandlers = <<>>
       THEN /\ handler' = "deleted" /\ victim' = None
            /\ user' = IF call = "close" THEN "idle" ELSE "x11"
            /\ UNCHANGED m_pHandlers
       ELSE /\ victim' = Head(m_pHandlers) /\ m_pHandlers' = Tail(m_pHandlers)
            /\ user' = "joinSC" /\ UNCHANGED handler
    /\ UNCHANGED <<call, bShutdown, m_bShutdown>>
    /\ UserQuiet /\ UserUnchanged

\* With m_mutex: the next pair is told to stop; after the last the object goes.
PopPair ==
    /\ user = "pop"
    /\ IF m_pHandlers = <<>>
       THEN /\ handler' = "deleted" /\ victim' = None
            /\ user' = IF call = "close" THEN "idle" ELSE "x11"
            /\ UNCHANGED <<bShutdown, m_pHandlers>>
       ELSE /\ victim' = Head(m_pHandlers) /\ m_pHandlers' = Tail(m_pHandlers)
            /\ bShutdown' = Set(bShutdown, Head(m_pHandlers), TRUE)
            /\ user' = "joinSC" /\ UNCHANGED handler
    /\ UNCHANGED <<call, m_bShutdown>>
    /\ UserQuiet /\ UserUnchanged

JoinSocketToChannel ==
    /\ user = "joinSC" /\ sc[victim] = "done"
    /\ user' = "joinCS"
    /\ UNCHANGED <<call, victim, bShutdown, m_bShutdown, m_pHandlers, handler>>
    /\ UserQuiet /\ UserUnchanged

\* The other thread is joined, a second time, closeChannel is called once more
\* with the number, and pTD is deleted.
ClosePair ==
    /\ user = "joinCS" /\ cs[victim] = "done"
    /\ closeChannel(victim)
    /\ pTD' = Set(pTD, victim, "deleted")
    /\ user' = "pop"
    /\ UNCHANGED <<call, victim, bShutdown, m_bShutdown, m_pHandlers, handler, m_pX11Handlers,
                   cNum, queue, toServer, inbound, said>>
    /\ UserUnchanged

\* X11TunnelHandler::shutdown for each of m_pX11Handlers.
X11Pop ==
    /\ user = "x11"
    /\ IF m_pX11Handlers = <<>>
       THEN user' = "done" /\ victim' = None /\ UNCHANGED <<bShutdown, m_pX11Handlers>>
       ELSE /\ victim' = Head(m_pX11Handlers) /\ m_pX11Handlers' = Tail(m_pX11Handlers)
            /\ bShutdown' = Set(bShutdown, Head(m_pX11Handlers), TRUE)
            /\ user' = "x11Join"
    /\ UNCHANGED <<call, m_bShutdown, m_pHandlers, handler, pTD, channelVars>>
    /\ UserUnchanged

X11Shutdown ==
    /\ user = "x11Join" /\ sc[victim] = "done"
    /\ deleteChannel(victim)
    /\ pTD' = Set(pTD, victim, "deleted")
    /\ user' = "x11"
    /\ UNCHANGED <<call, victim, bShutdown, m_bShutdown, m_pHandlers, handler, m_pX11Handlers,
                   cNum, queue, toServer, inbound, said>>
    /\ UserUnchanged

UserSteps == PopPair \/ JoinSocketToChannel \/ ClosePair \/ X11Pop \/ X11Shutdown

-----------------------------------------------------------------------------
(* The programs at the sockets and the SSH server. *)

OutsideUnchanged == UNCHANGED <<pairVars, tunnelSock, listenerVars, x11Vars, user, call, victim>>

ProgramConnects(c) ==
    /\ Cardinality(Started) < MaxStarted /\ program[c] = None /\ handler # None
    /\ program' = Set(program, c, "open")
    /\ UNCHANGED <<socketIn, sent, socketOut, read, channelVars>>
    /\ UNCHANGED ends /\ OutsideUnchanged

ProgramSends(c) ==
    /\ program[c] = "open" /\ Total(sent) < MaxSent
    /\ sent' = Set(sent, c, sent[c] + 1)
    /\ socketIn' = Set(socketIn, c, socketIn[c] \o Bytes(c, sent[c] + 1, sent[c] + 1))
    /\ UNCHANGED <<program, socketOut, read, channelVars>>
    /\ UNCHANGED ends /\ OutsideUnchanged

ProgramReads(c) ==
    /\ program[c] \in {"open", "shut"} /\ read[c] < Len(socketOut[c])
    /\ read' = Set(read, c, Len(socketOut[c]))
    /\ UNCHANGED <<program, socketIn, sent, socketOut, channelVars>>
    /\ UNCHANGED ends /\ OutsideUnchanged

\* It closes its side, or the connection is reset.
ProgramEnds(c) ==
    /\ Ends
    /\ \/ program[c] = "open" /\ program' = Set(program, c, "shut")
       \/ program[c] \in {"open", "shut"} /\ program' = Set(program, c, "reset")
    /\ UNCHANGED <<socketIn, sent, socketOut, read, channelVars>>
    /\ OutsideUnchanged

ServerSays(c) ==
    /\ channel[c] = "open" /\ Total(said) < MaxSaid
    /\ said' = Set(said, c, said[c] + 1)
    /\ inbound' = Set(inbound, c,
         Append(inbound[c], Bytes(c, said[c] * PacketLen + 1, (said[c] + 1) * PacketLen)))
    /\ UNCHANGED <<socketIn, programVars, socketOut, cNum, owner, channel, queue, toServer>>
    /\ UNCHANGED ends /\ OutsideUnchanged

\* What is queued reaches the server while its window is open.
ServerTakes(c) ==
    /\ channel[c] = "open" /\ queue[c] # <<>>
    /\ toServer' = Set(toServer, c, toServer[c] \o Head(queue[c]))
    /\ queue' = Set(queue, c, Tail(queue[c]))
    /\ UNCHANGED <<socketIn, programVars, socketOut, cNum, owner, channel, inbound, said>>
    /\ UNCHANGED ends /\ OutsideUnchanged

\* The server closes the channel: it stays in the table, and takes nothing more.
ServerCloses(c) ==
    /\ Ends
    /\ channel[c] = "open"
    /\ channel' = Set(channel, c, "left")
    /\ UNCHANGED <<socketIn, programVars, socketOut, cNum, owner, queue, toServer, inbound, said>>
    /\ OutsideUnchanged

\* The program opens a channel for something else, with the lowest number
\* free: it matters once that was a pair's.
OtherOpens ==
    /\ channel[Other] = None
    /\ \E c \in Pairs : /\ cNum[c] \in Slots /\ FreeSlot(cNum[c])
                        /\ owner' = [owner EXCEPT ![cNum[c]] = Other]
    /\ channel' = Set(channel, Other, "open")
    /\ UNCHANGED <<socketIn, programVars, socketOut, cNum>> /\ QuietChannel
    /\ UNCHANGED ends /\ OutsideUnchanged

-----------------------------------------------------------------------------
Next ==
    \/ TcpInit \/ closeAutomaticDirectTCPIP \/ disconnect \/ UserSteps \/ Listener
    \/ TransportThread
    \/ \E c \in X11 : handleX11Connection(c)
    \/ \E c \in Tcp : ProgramConnects(c)
    \/ \E c \in Pairs :
         \/ socketToChannelThread(c) \/ channelToSocketThread(c)
         \/ ProgramSends(c) \/ ProgramReads(c) \/ ProgramEnds(c)
         \/ ServerTakes(c) \/ ServerCloses(c)
    \/ OtherOpens
    \/ \E c \in Channels : ServerSays(c)

Spec == Init /\ [][Next]_vars

(* Fairness: the threads run, and the server takes what its window lets      *)
(* through.  Nothing is asked of the programs, nor of select's errors.       *)
FairSpec ==
    /\ Spec
    /\ WF_vars(UserSteps) /\ WF_vars(TransportThread) /\ WF_vars(Listener)
    /\ \A c \in Pairs : WF_vars(socketToChannelThread(c))
                        /\ WF_vars(channelToSocketThread(c)) /\ WF_vars(ServerTakes(c))

-----------------------------------------------------------------------------
(* Properties *)

\* The shape of every variable.
TypeOK ==
    /\ pTD \in [Pairs -> {None, "live", "deleted"}]
    /\ {bShutdown, bIsSocketAlive, bConnected} \subseteq [Pairs -> BOOLEAN]
    /\ sc \in [Pairs -> {None, "look", "recv", "write", "end", "join", "close",
                         "channel", "done"}]
    /\ cs \in [Pairs -> {None, "read", "send", "check", "done"}]
    /\ errno \in [Pairs -> {None, "EAGAIN", "ECONNRESET"}]
    /\ \A c \in Pairs : /\ Len(sBuf[c]) <= BufLen /\ Len(bytes[c]) <= PacketLen
                        /\ Len(queue[c]) <= QueueMax
                        /\ read[c] <= Len(socketOut[c]) /\ Room(c) >= 0
                        /\ sc[c] = "write" <=> sBuf[c] # <<>>
                        /\ cs[c] = "send" <=> bytes[c] # <<>>
    /\ tunnelSock \in [Pairs -> {None, "open", "closed"}]
    /\ program \in [Pairs -> {None, "open", "shut", "reset", "dead"}]
    /\ sent \in [Pairs -> 0 .. MaxSent] /\ said \in [Channels -> 0 .. MaxSaid]
    /\ cNum \in [Pairs -> Slots \cup {NoNumber}] /\ owner \in [Slots -> Channels \cup {None}]
    /\ channel \in [Channels -> {None, "open", "left", "closed"}]
    /\ listener \in {None, "look", "open", "second", "register", "done"}
    /\ transport \in {"idle", "connect", "second", "register"}
    /\ accepted \in Tcp \cup {None} /\ x11Pair \in X11 \cup {None}
    /\ m_bShutdown \in BOOLEAN /\ handler \in {None, "live", "deleted"}
    /\ user \in {"idle", "pop", "joinSC", "joinCS", "x11", "x11Join", "done"}
    /\ call \in {None, "close", "disconnect"} /\ victim \in Pairs \cup {None}
    /\ joinedEarly \subseteq Pairs

\* The pair is done with its channel, and its number is yet used once more: by
\* the shutdown that calls closeChannel again, or by the second thread that the
\* first one did not wait for.
UsesAgain(d) ==
    sc[d] = "done" /\ channel[d] = "closed" /\ (pTD[d] = "deleted" \/ d \in joinedEarly)

\* The number of c was that of such a pair.
SecondHand(c) == \E d \in Pairs \ {c} : cNum[d] = cNum[c] /\ UsesAgain(d)

\* What a program sent is on the way to the server in its order, and nothing
\* of it is lost while the pair has its channel, through partial reads, a full
\* queue and the end of the connection (socketToChannelThread), but for a
\* second-hand number.
UpstreamKept ==
    \A c \in {p \in Pairs : ~SecondHand(p)} :
      LET taken == toServer[c] \o FlattenSeq(queue[c])
          tape == Bytes(c, 1, sent[c]) IN
      IF At(c) = c THEN taken \o sBuf[c] \o socketIn[c] = tape ELSE IsPrefix(taken, tape)

\* The second thread of c was not waited for and the number of c is free, or
\* used again: what it reads is not its own.
Stray(c) == c \in joinedEarly /\ channel[c] = "closed"

\* What the server sent reaches the program in its order, each byte once,
\* however the sends are cut, and nothing is dropped while the thread runs
\* (channelToSocketThread), but for a stray and a second-hand number.
DownstreamKept ==
    \A c \in {p \in Pairs : ~Stray(p) /\ ~SecondHand(p)} :
      LET tape == Bytes(c, 1, said[c] * PacketLen) IN
      IF cs[c] # "done"
      THEN socketOut[c] \o bytes[c] \o FlattenSeq(inbound[c]) = tape
      ELSE IsPrefix(socketOut[c], tape)

\* Both ways at once: two threads share the socket, the channel and errno.
BytesKept == UpstreamKept /\ DownstreamKept

\* What a running thread uses outlives it: the threadData both threads, the
\* channel both, the socket the thread that sends on it; but for a pair whose
\* first thread ended before the second was made (the shutdown of X11 joins
\* only the first), and but for the channel of a pair with a second-hand number.
PairOutlived ==
    \A c \in Pairs :
      /\ pTD[c] = "deleted" =>
           sc[c] = "done" /\ (cs[c] = "done" \/ c \in X11 \cap joinedEarly)
      /\ channel[c] = "closed" \/ tunnelSock[c] = "closed" =>
           cs[c] \in {None, "done"} \/ c \in joinedEarly
              \/ (tunnelSock[c] # "closed" /\ SecondHand(c))

\* Nobody touches a channel of the program that is not a tunnel's, unless it
\* got the number of a pair that is done and not yet shut down.
OtherKept ==
    channel[Other] = "closed" \/ (channel[Other] = "open" /\ Len(inbound[Other]) < said[Other]) =>
      \E c \in Pairs : UsesAgain(c)

\* A thread that nothing in the tunnel can move.
WriteStuck(c) ==    \* the queue of a channel the server has closed is full
    sc[c] = "write" /\ At(c) # None /\ channel[At(c)] = "left" /\ Len(queue[At(c)]) = QueueMax
SendStuck(c) ==     \* the program does not read, and EAGAIN is tried for ever
    cs[c] = "send" /\ Room(c) = 0 /\ program[c] \in {"open", "shut"}
RecvStuck(c) ==     \* the socket of X11 blocks and the program is silent
    sc[c] = "recv" /\ c \in X11 /\ Empty(c)
Stuck(c) == WriteStuck(c) \/ SendStuck(c) \/ RecvStuck(c)

\* closeAutomaticDirectTCPIP and disconnect come back: every thread they wait
\* for sees its flag, unless it is stuck in a call that looks at no flag.
ShutdownReturns ==
    user \in {"pop", "x11"} ~> (user \in {"idle", "done"} \/ \E c \in Pairs : Stuck(c))

\* The end of the connection ends the tunnel: socket and channel are closed,
\* unless a thread is stuck, or an earlier EAGAIN is still in errno when recv
\* returns 0 and hides the end (TunnelHandler.cpp:150).
GoneEnds ==
    \A c \in Pairs :
      program[c] \in {"shut", "reset", "dead"} /\ sc[c] # None
        ~> sc[c] = "done" \/ Stuck(c) \/ (program[c] # "reset" /\ errno[c] = "EAGAIN")

\* "When the socket closes or an error occurs, this thread will exit"
\* (TunnelHandler.h:102): holds only when recv never found the socket empty.
SocketClosedEnds ==
    \A c \in Tcp : program[c] = "shut" /\ sc[c] # None ~> sc[c] = "done" \/ Stuck(c)

\* "Wait for the listening thread to exit" (TcpIpTunnelHandler.cpp:161):
\* does not hold, the thread that is joined is not the listener.
ListenerOutlived == handler = "deleted" => listener = "done"

=============================================================================
