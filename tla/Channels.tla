---------------------------- MODULE Channels ----------------------------
(***************************************************************************)
(* The channels of one PTssh connection: the table of ChannelManager, the  *)
(* calls that open, use and close a channel and copy files over it         *)
(* (PTssh.cpp), disconnect, which closes what is left, and the handlers of *)
(* Transport for the channel messages of the server, which may open        *)
(* channels itself.  Windows and data are in Outbound and Inbound, the     *)
(* threads of the connection in Session.                                   *)
(***************************************************************************)
EXTENDS Integers, Sequences, FiniteSets, SequencesExt, FiniteSetsExt

CONSTANTS
    Users,          \* user threads; each uses the channels it opened
    MaxChannels,    \* PTSSH_MAX_CHANNELS, 16 in the program
    MaxMade,        \* Channel objects made in all
    MaxRequests,    \* channel requests and EOFs queued in all
    MaxSaid,        \* what the server says of its own accord, in all
    MaxBoth         \* the two together

ASSUME ChannelsAssumption ==
    /\ Users # {} /\ MaxChannels \in Nat \ {0}
    /\ MaxMade \in Nat /\ MaxRequests \in Nat /\ MaxSaid \in Nat /\ MaxBoth \in Nat

Slots == 0 .. MaxChannels - 1
NoSlot == -1
Types == {"session", "direct_tcpip", "forwarded_tcpip"}
Statuses == {"unknown", "open", "closed", "failedToCreate"}
Results == {"pending", "success", "failure"}
NoChannel == [inc |-> 0]
NotOpening == [at |-> "idle", c |-> NoSlot]

VARIABLES
    chan,       \* ChannelManager::m_pChannel
    outQ,       \* Channel::m_pOutboundQueue, per slot
    mainQ,      \* m_pMainQ
    pc, api, slot, asked, reads, \* per user: where it is, its call, its channel, its
                \* request, the answers of scp it still reads
    fromServer, \* what Transport has yet to handle
    opening,    \* where Transport is in handleChannelOpenRequest, and the channel it made
    alive,      \* the connection
    broken,     \* memory was freed or dereferenced that must not be
    made, asks, \* Channel objects made, requests made
    server, said \* external: the channels the server knows, what it said unasked

\* Bounds.
MayAsk == asks < MaxRequests /\ asks + said < MaxBoth
MaySay == said < MaxSaid /\ asks + said < MaxBoth

tableVars == <<chan, outQ, mainQ, made, broken>>
userVars == <<pc, api, slot, reads, asked, asks>>
netVars == <<fromServer, opening, alive, server, said>>
vars == <<tableVars, userVars, netVars>>

Init ==
    /\ chan = [c \in Slots |-> NoChannel] /\ outQ = [c \in Slots |-> <<>>] /\ mainQ = <<>>
    /\ pc = [u \in Users |-> "idle"] /\ api = [u \in Users |-> "none"]
    /\ slot = [u \in Users |-> NoSlot] /\ asked = [u \in Users |-> 0]
    /\ reads = [u \in Users |-> 0]
    /\ fromServer = <<>> /\ opening = NotOpening /\ alive = TRUE /\ broken = FALSE
    /\ made = 0 /\ asks = 0 /\ server = {} /\ said = 0

-----------------------------------------------------------------------------
(* ChannelManager.                                                         *)

isValidChannelNumber(c) == c \in Slots /\ chan[c] # NoChannel

\* A channel of type forwarded is marked as a placeholder that needs no CLOSE.
NewObject(type) ==
    LET forwarded == type = "forwarded_tcpip" IN
      [inc |-> made + 1, type |-> type, status |-> "unknown", result |-> "pending",
       answered |-> 0, closeSent |-> forwarded, closeRecvd |-> forwarded,
       placeholder |-> forwarded, address |-> FALSE, remote |-> NoSlot, eof |-> FALSE,
       data |-> <<>>, told |-> FALSE]
setForwardedTcpIpData(object) == [object EXCEPT !.address = TRUE]
setRemoteChannelNumber(object, n) == [object EXCEPT !.remote = n]

FreeSlots == {c \in Slots : chan[c] = NoChannel}
\* newChannel takes the first free slot.  Without one its error path deletes what stands
\* behind the table, which is m_pMainQ.
newChannel(object) ==
    /\ made < MaxMade
    /\ chan' = [chan EXCEPT ![Min(FreeSlots)] = object]
    /\ made' = made + 1
TableFull == FreeSlots = {} /\ broken' = TRUE

\* Removing the queue and deleting the object; what was queued is lost.
Free(c) ==
    /\ chan' = [chan EXCEPT ![c] = NoChannel]
    /\ outQ' = [outQ EXCEPT ![c] = <<>>]

\* A message names the channel by the server's number; c and inc say which one is meant.
getRemoteChannelNumber(c) == chan[c].remote
Message(kind, c, id) ==
    [kind |-> kind, c |-> c, inc |-> chan[c].inc, remote |-> getRemoteChannelNumber(c), id |-> id]
MainMessage(kind, c, inc, remote) == [kind |-> kind, c |-> c, inc |-> inc, remote |-> remote, id |-> 0]
Queue(m) == outQ' = [outQ EXCEPT ![m.c] = Append(@, m)]

-----------------------------------------------------------------------------
(* The calls of the user threads.                                          *)

Goto(u, label) == pc' = [pc EXCEPT ![u] = label]
\* The call is over; the user keeps its channel, or not.
Return(u, keep) ==
    /\ Goto(u, "idle")
    /\ api' = [api EXCEPT ![u] = "none"] /\ reads' = [reads EXCEPT ![u] = 0]
    /\ slot' = IF keep THEN slot ELSE [slot EXCEPT ![u] = NoSlot]

\* newChannel and the request to open it, up to the wait of getChannelCreateResult.
Create(u, call, type) ==
    /\ pc[u] = "idle" /\ slot[u] = NoSlot
    /\ IF FreeSlots = {} THEN
         TableFull /\ UNCHANGED <<chan, outQ, mainQ, made, userVars>>
       ELSE LET c == Min(FreeSlots) IN
         /\ newChannel(NewObject(type))
         /\ mainQ' = Append(mainQ, MainMessage("open", c, made + 1, NoSlot))
         /\ api' = [api EXCEPT ![u] = call] /\ slot' = [slot EXCEPT ![u] = c]
         /\ Goto(u, "creating")
         /\ UNCHANGED <<outQ, broken, reads, asked, asks>>
    /\ UNCHANGED netVars
createChannel_session(u) == Create(u, "create", "session")
createChannel_directTCPIP(u) == Create(u, "create", "direct_tcpip")
\* scpSendInit and scpReceiveInit create a channel, and go on with exec (ScpExec).
scpSendInit(u) == Create(u, "scpSend", "session")
scpReceiveInit(u) == Create(u, "scpReceive", "session")

\* A channel request is queued; its result is waited for with one look at the field.
Request(u, kind) ==
    /\ asks' = asks + 1
    /\ asked' = [asked EXCEPT ![u] = asks + 1]
    /\ Queue(Message(kind, slot[u], asks + 1))
    /\ Goto(u, "request")
\* A mutant of getChannelCreateResult: it does not wait for the status.
CreateResultAtOnce(u) ==
    /\ pc[u] = "creating" /\ api[u] = "create"
    /\ IF chan[slot[u]].status = "open"
       THEN Return(u, TRUE) /\ UNCHANGED <<chan, outQ>>
       ELSE Return(u, FALSE) /\ Free(slot[u])
    /\ UNCHANGED <<mainQ, made, broken, asked, asks, netVars>>
\* The wait, and deleteChannel without a CLOSE of a channel that is not open: also of one
\* that the server has opened and closed by now.
getChannelCreateResult(u) ==
    /\ pc[u] = "creating" /\ chan[slot[u]].status # "unknown"
    /\ IF chan[slot[u]].status # "open"
       THEN Return(u, FALSE) /\ Free(slot[u]) /\ UNCHANGED <<asked, asks>>
       ELSE /\ UNCHANGED <<chan, slot>>
            /\ IF api[u] = "create" THEN Return(u, TRUE) /\ UNCHANGED <<outQ, asked, asks>>
               ELSE Request(u, api[u]) /\ UNCHANGED <<api, reads>>
    /\ UNCHANGED <<mainQ, made, broken, netVars>>

ChannelRequest(u, kind) ==
    /\ pc[u] = "idle" /\ isValidChannelNumber(slot[u]) /\ MayAsk
    /\ Request(u, kind)
    /\ api' = [api EXCEPT ![u] = kind]
    /\ UNCHANGED <<chan, mainQ, made, broken, slot, reads, netVars>>
channelRequest_pty(u) == ChannelRequest(u, "request")
channelRequest_shell(u) == ChannelRequest(u, "request")
\* m_bX11Forwarding, which a success sets, is read by nobody.
channelRequest_x11(u) == ChannelRequest(u, "request")
channelRequest_env(u) == ChannelRequest(u, "request")
channelRequest_exec(u) == ChannelRequest(u, "request")
channelRequest_subsystem(u) == ChannelRequest(u, "request")
channelRequest_sendSignal(u) == ChannelRequest(u, "request")
\* The only one that asks for no reply; it waits for the result like the others.
channelRequest_windowChange(u) == ChannelRequest(u, "windowChange")

RequestLook(u) ==
    /\ pc[u] = "request"
    /\ Goto(u, IF chan[slot[u]].result = "pending" THEN "requestWait" ELSE "requestTake")
    /\ UNCHANGED <<tableVars, api, slot, reads, asked, asks, netVars>>
\* A failed exec ends scpSendInit with closeChannel, and scpReceiveInit without; a good one
\* is followed by two answers to read, before which scpReceiveInit writes a byte.
Write(u) == Queue(Message("data", slot[u], 0))
AfterRequest(u, ok) ==
    CASE api[u] \in {"request", "windowChange"} -> Return(u, TRUE) /\ UNCHANGED outQ
      [] api[u] = "scpSend" ->
           /\ Goto(u, IF ok THEN "read" ELSE "close") /\ reads' = [reads EXCEPT ![u] = 2]
           /\ UNCHANGED <<api, slot, outQ>>
      [] api[u] = "scpReceive" /\ ok ->
           /\ Goto(u, "read") /\ reads' = [reads EXCEPT ![u] = 2] /\ Write(u)
           /\ UNCHANGED <<api, slot>>
      [] OTHER -> Return(u, TRUE) /\ UNCHANGED outQ
\* A mutant of getChannelRequestResult: the field is not reset for the next request.
RequestResultKept(u) ==
    /\ pc[u] = "requestTake"
    /\ AfterRequest(u, chan[slot[u]].result = "success")
    /\ asked' = [asked EXCEPT ![u] = 0]
    /\ UNCHANGED <<chan, mainQ, made, broken, asks, netVars>>
\* The result is taken, and reset for the next request.
getChannelRequestResult(u) ==
    /\ pc[u] = "requestTake"
    /\ AfterRequest(u, chan[slot[u]].result = "success")
    /\ chan' = [chan EXCEPT ![slot[u]].result = "pending", ![slot[u]].answered = 0]
    /\ asked' = [asked EXCEPT ![u] = 0]
    /\ UNCHANGED <<mainQ, made, broken, asks, netVars>>

\* channelRead of the answers of scp, and channelWrite of what follows: nothing after the
\* last answer of scpSendInit, nothing after a refusal, which scpSendInit alone ends with
\* closeChannel.
ScpRead(u) ==
    /\ pc[u] = "read" /\ chan[slot[u]].data # <<>>
    /\ chan' = [chan EXCEPT ![slot[u]].data = Tail(@)]
    /\ LET ok == Head(chan[slot[u]].data)  last == reads[u] = 1 IN
         IF ok /\ ~(last /\ api[u] = "scpSend")
         THEN /\ Write(u)
              /\ IF last THEN Return(u, TRUE)
                 ELSE reads' = [reads EXCEPT ![u] = 1] /\ UNCHANGED <<pc, api, slot>>
         ELSE /\ UNCHANGED outQ
              /\ IF ~ok /\ api[u] = "scpSend"
                 THEN Goto(u, "close") /\ UNCHANGED <<api, slot, reads>>
                 ELSE Return(u, TRUE)
    /\ UNCHANGED <<mainQ, made, broken, asked, asks, netVars>>

channelSendEOF(u) ==
    /\ pc[u] = "idle" /\ isValidChannelNumber(slot[u]) /\ MayAsk
    /\ Queue(Message("eof", slot[u], 0))
    /\ asks' = asks + 1
    /\ UNCHANGED <<chan, mainQ, made, broken, pc, api, slot, asked, reads, netVars>>

\* requestRemotePortFowarding: the placeholder, and the wait for the result (see Session).
\* The placeholder stays, whatever the server answers.
requestRemotePortFowarding(u) ==
    /\ pc[u] = "idle" /\ slot[u] = NoSlot
    /\ IF FreeSlots = {} THEN
         TableFull /\ UNCHANGED <<chan, outQ, mainQ, made, userVars>>
       ELSE
         /\ newChannel(setForwardedTcpIpData(NewObject("forwarded_tcpip")))
         /\ mainQ' = Append(mainQ, MainMessage("forward", NoSlot, 0, NoSlot))
         /\ Goto(u, "global")
         /\ UNCHANGED <<outQ, broken, api, slot, reads, asked, asks>>
    /\ UNCHANGED netVars

-----------------------------------------------------------------------------
(* closeChannel, deleteChannel and disconnect.                             *)

closeChannel(u) ==
    /\ pc[u] = "idle" /\ slot[u] # NoSlot
    /\ api' = [api EXCEPT ![u] = "close"]
    /\ Goto(u, "close")
    /\ UNCHANGED <<tableVars, slot, reads, asked, asks, netVars>>
scpReceiveFinish(u) == closeChannel(u)
\* channelSendEOF, and closeChannel
scpSendFinish(u) ==
    /\ pc[u] = "idle" /\ isValidChannelNumber(slot[u]) /\ MayAsk
    /\ Queue(Message("eof", slot[u], 0))
    /\ api' = [api EXCEPT ![u] = "close"]
    /\ Goto(u, "close") /\ asks' = asks + 1
    /\ UNCHANGED <<chan, mainQ, made, broken, slot, reads, asked, netVars>>

\* A mutant of CloseLook: the result of isOpen is taken the wrong way round.
CloseLookBackwards(u) ==
    /\ pc[u] = "close" /\ api[u] # "disconnect"
    /\ IF chan[slot[u]].status # "open"
       THEN Goto(u, "closeQueue") /\ UNCHANGED <<api, slot, reads, chan>>
       ELSE Return(u, FALSE) /\ chan' = [chan EXCEPT ![slot[u]].told = TRUE]
    /\ UNCHANGED <<outQ, mainQ, made, broken, asked, asks, netVars>>
\* isOpen and bAlreadySentCloseMsg: otherwise nothing is done, and that is a success.
\* disconnect goes on to deleteChannel.
CloseLook(u) ==
    /\ pc[u] = "close"
    /\ LET c == slot[u] IN
         IF isValidChannelNumber(c) /\ chan[c].status = "open" /\ ~chan[c].closeSent
         THEN Goto(u, "closeQueue") /\ UNCHANGED <<api, slot, reads, chan>>
         ELSE IF api[u] = "disconnect"
           THEN Goto(u, "deleteAgain") /\ UNCHANGED <<api, slot, reads, chan>>
         ELSE /\ Return(u, FALSE)
              /\ chan' = IF isValidChannelNumber(c) THEN [chan EXCEPT ![c].told = TRUE] ELSE chan
    /\ UNCHANGED <<outQ, mainQ, made, broken, asked, asks, netVars>>
\* queueOutboundData of the CLOSE; the server's own may have come by now.
CloseQueue(u) ==
    /\ pc[u] = "closeQueue"
    /\ chan' = [chan EXCEPT ![slot[u]].closeSent = TRUE]
    /\ Queue(Message("close", slot[u], 0))
    /\ Goto(u, "closeWait")
    /\ UNCHANGED <<mainQ, made, broken, api, slot, reads, asked, asks, netVars>>
\* A mutant of waitForChannelClose: it waits without a look at the status.
WaitBlindly(u) ==
    /\ pc[u] = "closeWait"
    /\ Goto(u, "closeAsleep")
    /\ UNCHANGED <<tableVars, api, slot, reads, asked, asks, netVars>>
waitForChannelClose(u) ==
    /\ pc[u] = "closeWait"
    /\ Goto(u, IF chan[slot[u]].status = "closed" THEN "delete" ELSE "closeAsleep")
    /\ UNCHANGED <<tableVars, api, slot, reads, asked, asks, netVars>>

\* deleteChannel is over.
Deleted(u) ==
    CASE api[u] # "disconnect" -> Return(u, FALSE)
      [] pc[u] = "delete" /\ api[u] = "disconnect" ->
           Goto(u, "deleteAgain") /\ UNCHANGED <<api, slot, reads>>
      [] OTHER ->
           /\ Goto(u, IF pc[u] = "deleteLost" THEN "visitLost" ELSE "visit")
           /\ slot' = [slot EXCEPT ![u] = @ + 1] /\ UNCHANGED <<api, reads>>
\* deleteChannel: without a CLOSE of the server it waits for one, and for nothing when
\* bSendCloseMsg is FALSE.
deleteChannel(u) ==
    /\ pc[u] \in {"delete", "deleteAgain", "deleteLost"}
    /\ LET c == slot[u] IN
         IF ~isValidChannelNumber(c)
         THEN Deleted(u) /\ UNCHANGED <<chan, outQ>>
         ELSE IF chan[c].closeRecvd \/ pc[u] = "deleteLost"
           THEN Free(c) /\ Deleted(u)
         ELSE /\ Goto(u, "deleteAsleep")
              /\ UNCHANGED <<api, slot, reads>>
              /\ IF chan[c].closeSent THEN UNCHANGED <<chan, outQ>>
                 ELSE /\ chan' = [chan EXCEPT ![c].closeSent = TRUE]
                      /\ Queue(Message("close", c, 0))
    /\ UNCHANGED <<mainQ, made, broken, asked, asks, netVars>>

\* disconnect, while the other user threads are in no call, or blocked in one: it visits
\* every slot, in one of two ways for all of them.
Blocked(u) == pc[u] \in {"idle", "requestWait", "read", "gone"}
disconnect(u) ==
    /\ pc[u] = "idle" /\ \A v \in Users : Blocked(v)
    /\ api' = [v \in Users |-> IF v = u THEN "disconnect" ELSE "none"]
    /\ slot' = [v \in Users |-> IF v = u THEN 0 ELSE NoSlot]
    /\ reads' = [v \in Users |-> 0] /\ asked' = [v \in Users |-> 0]
    /\ pc' = [v \in Users |-> IF v # u THEN "gone" ELSE IF alive THEN "visit" ELSE "visitLost"]
    /\ UNCHANGED <<tableVars, asks, netVars>>
DisconnectVisit(u) ==
    /\ pc[u] \in {"visit", "visitLost"} /\ slot[u] < MaxChannels
    /\ IF isValidChannelNumber(slot[u])
       THEN Goto(u, IF pc[u] = "visit" THEN "close" ELSE "deleteLost") /\ UNCHANGED slot
       ELSE slot' = [slot EXCEPT ![u] = @ + 1] /\ UNCHANGED pc
    /\ UNCHANGED <<tableVars, api, reads, asked, asks, netVars>>
\* The DISCONNECT, and the end of Transport, between two handlers.
DisconnectEnds(u) ==
    /\ pc[u] \in {"visit", "visitLost"} /\ slot[u] = MaxChannels /\ opening = NotOpening
    /\ Goto(u, "gone")
    /\ alive' = FALSE
    /\ UNCHANGED <<tableVars, api, slot, reads, asked, asks, fromServer, opening, server, said>>
Disconnecting == \E u \in Users : api[u] = "disconnect"

-----------------------------------------------------------------------------
(* Transport: the handlers of the channel messages.                        *)

\* The thread that waits at `from` on the channel of the message goes on at `to`.
Wake(c, from, to) ==
    pc' = [u \in Users |-> IF pc[u] = from /\ slot[u] = c THEN to ELSE pc[u]]

setChannelCreateResult(m) ==
    /\ m.kind \in {"confirm", "refuse"}
    /\ chan' = IF chan[m.c] = NoChannel THEN chan
               ELSE IF m.kind = "refuse" THEN [chan EXCEPT ![m.c].status = "failedToCreate"]
               ELSE [chan EXCEPT ![m.c] =
                       [setRemoteChannelNumber(@, m.remote) EXCEPT !.status = "open"]]
    /\ UNCHANGED <<pc, outQ, mainQ, made, broken>>
setChannelRequestResult(m) ==
    /\ m.kind \in {"success", "failure"}
    /\ chan' = IF chan[m.c] = NoChannel THEN chan
               ELSE [chan EXCEPT ![m.c].result = m.kind, ![m.c].answered = m.id]
    /\ Wake(m.c, "requestWait", "requestTake")
    /\ UNCHANGED <<outQ, mainQ, made, broken>>
setChannelCloseMsgReceived(m) ==
    /\ m.kind = "close"
    /\ chan' = IF chan[m.c] = NoChannel THEN chan
               ELSE [chan EXCEPT ![m.c].closeRecvd = TRUE, ![m.c].status = "closed"]
    /\ pc' = [u \in Users |->
                CASE slot[u] = m.c /\ pc[u] = "closeAsleep" -> "delete"
                  [] slot[u] = m.c /\ pc[u] = "deleteAsleep" -> "deleteAgain"
                  [] OTHER -> pc[u]]
    /\ UNCHANGED <<outQ, mainQ, made, broken>>
\* A mutant of queueInboundData: the packet is queued twice.
QueueTwice(m) ==
    /\ m.kind = "data"
    /\ chan' = IF chan[m.c] = NoChannel THEN chan
               ELSE [chan EXCEPT ![m.c].data = @ \o <<m.id = 1, m.id = 1>>]
    /\ UNCHANGED <<pc, outQ, mainQ, made, broken>>
\* The answers of scp
queueInboundData(m) ==
    /\ m.kind = "data"
    /\ chan' = IF chan[m.c] = NoChannel THEN chan
               ELSE [chan EXCEPT ![m.c].data = Append(@, m.id = 1)]
    /\ UNCHANGED <<pc, outQ, mainQ, made, broken>>
\* waitForEOF, which it wakes, has no caller.
setEOF_recieved(m) ==
    /\ m.kind = "eof"
    /\ chan' = IF chan[m.c] = NoChannel THEN chan ELSE [chan EXCEPT ![m.c].eof = TRUE]
    /\ UNCHANGED <<pc, outQ, mainQ, made, broken>>
GlobalResult(m) ==
    /\ m.kind = "forwarded"
    /\ pc' = [u \in Users |-> IF pc[u] = "global" THEN "idle" ELSE pc[u]]
    /\ UNCHANGED tableVars

\* isValidRemotePortForward looks at every slot until one matches: at an empty one through
\* a null pointer, and at a channel that was forwarded before through its null address.
Faulty(c) ==
    chan[c] = NoChannel \/ (chan[c].type = "forwarded_tcpip" /\ chan[c].placeholder /\ ~chan[c].address)
Matches(c) == chan[c] # NoChannel /\ chan[c].placeholder /\ chan[c].address
isValidRemotePortForward == \E c \in Slots : Matches(c) /\ \A d \in 0 .. c - 1 : ~Faulty(d)
LooksThroughNull == \E c \in Slots : Faulty(c) /\ \A d \in 0 .. c - 1 : ~Matches(d)

\* A channel the server opens.  handleChannelOpenRequest asks for the placeholder and makes
\* the channel, a placeholder itself that is never sent a CLOSE: the table is not locked in
\* between.
Handled == fromServer' = Tail(fromServer) /\ opening' = NotOpening
RefuseOpen == mainQ' = Append(mainQ, MainMessage("refuseOpen", NoSlot, 0, NoSlot)) /\ Handled
ConfirmOpen(c, object, m) ==
    mainQ' = Append(mainQ, MainMessage("confirmOpen", c, object.inc, m.remote))
Fault == broken' = TRUE /\ UNCHANGED <<chan, outQ, mainQ, made, fromServer, opening>>
OpenedByServer(m) ==
    [setRemoteChannelNumber(NewObject("forwarded_tcpip"), m.remote) EXCEPT !.status = "open"]
AskForPlaceholder ==
    /\ opening.at = "idle"
    /\ IF LooksThroughNull THEN Fault
       ELSE /\ UNCHANGED <<chan, outQ, made, broken>>
            /\ IF isValidRemotePortForward
               THEN opening' = [NotOpening EXCEPT !.at = "new"] /\ UNCHANGED <<mainQ, fromServer>>
               ELSE RefuseOpen
AcceptForwarded(m) ==
    /\ opening.at = "new"
    /\ IF FreeSlots = {} THEN Fault
       ELSE /\ newChannel(OpenedByServer(m))
            /\ opening' = [at |-> "notify", c |-> Min(FreeSlots)]
            /\ UNCHANGED <<outQ, mainQ, broken, fromServer>>
\* Nothing is confirmed: init of the CallbackNotifier returns PTSSH_SUCCESS, which is 0 and
\* taken for a failure, and the notifier is deleted with a pointer that was never set, by a
\* destructor that deletes the object once more.
NotifyForwarded(m) == opening.at = "notify" /\ Fault
handleForwardedOpen(m) ==
    /\ m.kind = "openForwarded"
    /\ AskForPlaceholder \/ AcceptForwarded(m) \/ NotifyForwarded(m)
    /\ UNCHANGED pc
\* An X11 channel; without an X server init of X11TunnelHandler deletes it and answers nothing.
handleX11Open(m) ==
    /\ m.kind = "openX11"
    /\ \/ FreeSlots = {} /\ Fault
       \/ /\ FreeSlots # {} /\ made < MaxMade
          /\ made' = made + 1 /\ Handled
          /\ \/ UNCHANGED <<chan, mainQ>>
             \/ LET c == Min(FreeSlots) IN
                  /\ chan' = [chan EXCEPT ![c] = OpenedByServer(m)]
                  /\ ConfirmOpen(c, OpenedByServer(m), m)
          /\ UNCHANGED <<outQ, broken>>
    /\ UNCHANGED pc

Transport ==
    /\ alive /\ fromServer # <<>>
    /\ LET m == Head(fromServer) IN
         \/ /\ \/ setChannelCreateResult(m) \/ setChannelRequestResult(m)
               \/ setChannelCloseMsgReceived(m) \/ queueInboundData(m) \/ GlobalResult(m)
               \/ setEOF_recieved(m)
            /\ Handled
         \/ handleForwardedOpen(m) \/ handleX11Open(m)
    /\ UNCHANGED <<api, slot, reads, asked, asks, alive, server, said>>

-----------------------------------------------------------------------------
(* SocketSend and, external, the server, which takes a packet when it is sent.  The     *)
(* server keeps, per channel, both numbers, the answers of scp it owes (one to the       *)
(* command that is to receive a file, one to whatever the client writes to it), and      *)
(* whether it has sent EOF and CLOSE.  It uses its lowest free number, too.              *)

Record(m, n) == [c |-> m.c, inc |-> m.inc, remote |-> n, closed |-> FALSE, acks |-> 0]
OwnNumber == Min((0 .. MaxMade) \ {r.remote : r \in server})
Reply(kind, m, id) == [kind |-> kind, c |-> m.c, inc |-> m.inc, remote |-> m.remote, id |-> id]
Answer(kind, m, id) == fromServer' = Append(fromServer, Reply(kind, m, id))
Known(m) == {r \in server : r.remote = m.remote}
ServerTakesMain(m) ==
    \/ /\ m.kind = "open"
       /\ \/ /\ Answer("confirm", Record(m, OwnNumber), 0)
             /\ server' = server \cup {Record(m, OwnNumber)}
          \/ Answer("refuse", m, 0) /\ UNCHANGED server
    \/ /\ m.kind = "forward" /\ Answer("forwarded", m, 0) /\ UNCHANGED server
    \/ /\ m.kind = "confirmOpen" /\ server' = server \cup {Record(m, m.remote)} /\ UNCHANGED fromServer
    \/ /\ m.kind = "refuseOpen" /\ UNCHANGED <<server, fromServer>>
ServerTakes(m) ==
    \/ /\ m.kind \in {"eof", "windowChange"} /\ UNCHANGED <<server, fromServer>>
    \/ /\ m.kind = "data" /\ UNCHANGED fromServer
       /\ server' = (server \ Known(m)) \cup {[r EXCEPT !.acks = @ + 1] : r \in Known(m)}
    \/ /\ m.kind \in {"request", "scpSend", "scpReceive"}
       /\ IF \E r \in Known(m) : ~r.closed
          THEN \E r \in Known(m), answer \in {"success", "failure"} : Answer(answer, r, m.id)
          ELSE UNCHANGED fromServer
       /\ server' = IF m.kind = "scpSend"
                    THEN (server \ Known(m)) \cup {[r EXCEPT !.acks = 1] : r \in Known(m)}
                    ELSE server
    \/ /\ m.kind = "close"
       /\ server' = server \ Known(m)
       /\ IF \E r \in Known(m) : ~r.closed
          THEN \E r \in Known(m) : Answer("close", r, 0)
          ELSE UNCHANGED fromServer

\* SocketSend takes a packet of any queue (see Outbound for which and how much).
SendMain ==
    /\ alive /\ mainQ # <<>>
    /\ mainQ' = Tail(mainQ)
    /\ ServerTakesMain(Head(mainQ))
    /\ UNCHANGED <<chan, outQ, made, broken, userVars, opening, alive, said>>
SendChannel(c) ==
    /\ alive /\ outQ[c] # <<>>
    /\ outQ' = [outQ EXCEPT ![c] = Tail(@)]
    /\ ServerTakes(Head(outQ[c]))
    /\ UNCHANGED <<chan, mainQ, made, broken, userVars, opening, alive, said>>

ServerSpeaks(r) ==
    /\ alive /\ ~r.closed
    /\ \/ fromServer' = fromServer \o <<Reply("eof", r, 0), Reply("close", r, 0)>>
          /\ server' = (server \ {r}) \cup {[r EXCEPT !.closed = TRUE]}
       \/ r.acks > 0 /\ \E ok \in {0, 1} : Answer("data", r, ok)
          /\ server' = (server \ {r}) \cup {[r EXCEPT !.acks = @ - 1]}
    /\ MaySay /\ said' = said + 1
    /\ UNCHANGED <<tableVars, userVars, opening, alive>>
ServerOpens ==
    /\ alive /\ MaySay
    /\ said' = said + 1
    /\ \E kind \in {"openForwarded", "openX11"} :
         /\ \A m \in ToSet(fromServer) : m.kind # kind
         /\ Answer(kind, [c |-> NoSlot, inc |-> 0, remote |-> MaxMade + said'], 0)
    /\ UNCHANGED <<tableVars, userVars, opening, alive, server>>
\* Transport ends, between two handlers.
ConnectionLost ==
    /\ alive /\ opening = NotOpening /\ alive' = FALSE
    /\ fromServer' = <<>> /\ server' = {}
    /\ UNCHANGED <<tableVars, userVars, opening, said>>

-----------------------------------------------------------------------------
Begin(u) ==
    \/ createChannel_session(u) \/ createChannel_directTCPIP(u)
    \/ requestRemotePortFowarding(u) \/ scpSendInit(u) \/ scpReceiveInit(u)
    \/ channelRequest_pty(u) \/ channelRequest_shell(u) \/ channelRequest_x11(u)
    \/ channelRequest_env(u) \/ channelRequest_exec(u) \/ channelRequest_subsystem(u)
    \/ channelRequest_windowChange(u) \/ channelRequest_sendSignal(u) \/ channelSendEOF(u)
    \/ closeChannel(u) \/ scpSendFinish(u) \/ scpReceiveFinish(u) \/ disconnect(u)
Continue(u) ==
    \/ getChannelCreateResult(u) \/ RequestLook(u) \/ getChannelRequestResult(u) \/ ScpRead(u)
    \/ CloseLook(u) \/ CloseQueue(u) \/ waitForChannelClose(u) \/ deleteChannel(u)
    \/ DisconnectVisit(u) \/ DisconnectEnds(u)
Send == SendMain \/ \E c \in Slots : SendChannel(c)
Server == ServerOpens \/ \E r \in server : ServerSpeaks(r)
Next ==
    /\ ~broken
    /\ \/ \E u \in Users : Begin(u) \/ Continue(u)
       \/ Transport \/ Send \/ Server \/ ConnectionLost

Spec == Init /\ [][Next]_vars
-----------------------------------------------------------------------------
TypeOK ==
    /\ \A c \in Slots : chan[c] = NoChannel \/ chan[c] \in [inc : Nat, type : Types,
            status : Statuses, result : Results, answered : Nat, closeSent : BOOLEAN,
            closeRecvd : BOOLEAN, placeholder : BOOLEAN, address : BOOLEAN,
            remote : {NoSlot} \cup Nat, eof : BOOLEAN,
            data : Seq(BOOLEAN), told : BOOLEAN]
    /\ \A c \in Slots \ FreeSlots : Len(chan[c].data) <= 2
    /\ slot \in [Users -> Slots \cup {NoSlot, MaxChannels}]
    /\ {alive, broken} \subseteq BOOLEAN

\* The result a channel request returns is the server's answer to that request: the
\* field has no number and is waited for with a single look.
OwnAnswer ==
    \A u \in Users : pc[u] = "requestTake" => chan[slot[u]].answered = asked[u]

\* Both sides mean the same channel by a number: a message of the server meets no channel
\* that took the number over, as it is used again only when the server has said its last
\* word, and a channel the server holds open is never forgotten, not even when a creation
\* or a close fails half way.  (disconnect forgets forwarded channels without a CLOSE.)
NumbersAgree ==
    alive /\ ~Disconnecting =>
      /\ \A m \in ToSet(fromServer) :
            isValidChannelNumber(m.c) => chan[m.c].inc = m.inc
      /\ \A r \in server :
            ~r.closed => isValidChannelNumber(r.c) /\ chan[r.c].inc = r.inc
      /\ \A c \in Slots : \A m \in ToSet(outQ[c]) : \A r \in Known(m) : r.inc = m.inc

\* A channel whose closeChannel succeeded and that is still in the table was closed by the
\* server first, or was opened by it.
KeptForCause ==
    \A c \in Slots :
        chan[c] # NoChannel /\ chan[c].told => chan[c].status = "closed" \/ chan[c].placeholder

\* A thread that sleeps for an answer of the server, with one look at the field and no
\* second signal, sleeps for something that is still to come: its message is queued, or
\* the answer is on its way.  A request alone waits in vain when the server closes, and
\* channelRequest_windowChange always: it writes that it wants no reply (PTssh.cpp:1885).
Underway(c, kinds, answers) ==
    \/ \E m \in ToSet(mainQ \o outQ[c]) : m.c = c /\ m.inc = chan[c].inc /\ m.kind \in kinds
    \/ \E m \in ToSet(fromServer) : m.c = c /\ m.inc = chan[c].inc /\ m.kind \in answers
SleepersServed ==
    alive => \A u \in Users : LET c == slot[u] IN
      /\ pc[u] \in {"closeAsleep", "deleteAsleep"} => Underway(c, {"close"}, {"close"})
      /\ pc[u] = "creating" /\ chan[c].status = "unknown"
           => Underway(c, {"open"}, {"confirm", "refuse"})
      /\ pc[u] = "requestWait" /\ api[u] # "windowChange"
           => \/ Underway(c, {"request", "scpSend", "scpReceive"}, {"success", "failure", "close"})
              \/ chan[c].status = "closed"
\* PTssh.h of channelRequest_windowChange: "Returns a positive number if the request was
\* approved, 0 if the request was rejected".  It does not hold: no result ever comes, so the
\* thread sleeps with nothing of its request under way.
EveryAskerServed ==
    alive => \A u \in Users :
        pc[u] = "requestWait" /\ chan[slot[u]].status # "closed"
          => Underway(slot[u], {"request", "windowChange", "scpSend", "scpReceive"},
                      {"success", "failure", "close"})

\* PTssh.h of closeChannel: "After calling close on a channel, all of its resources and
\* information will be freed from memory."
ClosedIsFreed == \A c \in Slots : chan[c] # NoChannel => ~chan[c].told
\* ChannelManager.h of isValidRemotePortForward: "If so, we return true, else false".
NoFault == ~broken
=============================================================================
