# A TLA+ model of Syndir

This directory holds TLA+ specifications of the programs in this repository,
configurations that check them with TLC, and proofs checked by TLAPS. The
repository has three parts:

* **Syndir** (`src/Syndir`): watches a directory and copies what changes to a
  remote host; **Synshot** (`src/Synshot`) is the same core behind a window;
* **PTssh** (`src/PTssh`, nine tenths of the code): a threaded SSH client library;
* **CuteLogger** (`src/CuteLogger`): a logging library.

Line numbers below are those of the files under `src/`.

## 1. The system

### Threads and shared state

One Syndir process runs one `WorkerThread` per remote host, each with a
`FileWatchersManager` of its own and a PTssh connection that is made anew for
every batch of files. A PTssh connection has

* the **user threads** that call the `PTssh` API (Syndir uses one);
* **SocketSend**, which takes packets out of the queues of the
  `ChannelManager`, splits, signs, encrypts and sends them;
* **SocketRecieve**, which reads, decrypts and verifies packets and puts them
  into the queue of Transport;
* **Transport**, which makes the other two, dispatches every received packet
  (data into the queues of a channel, results of requests to the threads that wait
  for them, window adjustments, EOF and CLOSE to the channel, the packets of a key
  exchange to PTsshSocket) and deletes the other two when the connection ends;
* a **listener** per tunnel, and **two threads** per tunnelled connection.

They meet in `ChannelManager` (a table of 16 channels, a list of their outbound
queues, and per channel some mutexes and conditions), in the result fields of
`Transport`, and in the flags of `PTsshThread`. Nearly everything a user thread does
is: queue a packet, then wait on a condition that Transport or SocketSend signals.

### Inventory

| component | state | operations | hard behaviour | what makes it correct |
|---|---|---|---|---|
| outbound queues, SocketSend (`ChannelManager.cpp` 650-761, 1175-1422; `Queue.cpp`; `SocketSend.cpp`) | one queue per channel with a byte count, the main queue, the peer's window, the iterator, the raw buffer | queueOutboundData, getNextPacket, splitFirstPacket, adjustWindowSizeRemote, run, combineAndSendPackets | writers blocked on a full queue; window read without a lock; packets split while others are appended; uint32 counters | the bytes of a channel leave once, in order, within the peer's limits; counters are exact; no writer sleeps for ever |
| inbound queues (`ChannelManager.cpp` 474-646) | data and stderr queue per channel, the local window | queueInboundData, getInboundData | several readers, timeouts, one signal per packet; window changed without a lock | no data is left while readers sleep; order; the peer may go on sending |
| channel life cycle (`ChannelManager.cpp` 74-470, 765-1172; `Channel.cpp`; `PTssh.cpp` 1120-2400, 2600-2640) | channel table, open/EOF/close flags, request results, both sides' numbers | newChannel, deleteChannel, createChannel_..., channelRequest_..., scp..., closeChannel, disconnect, the handlers of Transport | the peer closes first, or opens channels itself; numbers are reused; waits with one look | each result goes to its request; both sides mean the same channel by a number; no channel is forgotten; every sleeper is served |
| Transport, PTsshThread, connection (`Transport.cpp`, `PTsshThread.cpp`, `PTsshSocket.cpp` 130-580, 1217-1240; `PTssh.cpp` 69-1117, 1178-1296, 2641-2694) | result fields, flags of three threads, incoming queue | connectUp, disconnect, authBy..., getAuthMethods, setServiceType, startThread, stopThread, run, shutdown | answers before the wait; start and stop racing with the end of a thread; deletion while others run | answers go to the calls that asked; objects outlive their threads; a request returns |
| SocketRecieve (`SocketRecieve.cpp`) | ring of received bytes, the packet being read, the cipher | run, createNewReadPacket, fillNewPacket, decrypt, verifyNewPacketMAC, endKeyExchange | packets cut at any byte and across the end of the ring; the cipher changes in the middle of it | packets come out whole, verified, in order; what has arrived is read |
| key exchange (`PTsshSocket.cpp` 584-1212; `CryptoStuff.cpp`; parts of `SocketSend.cpp`, `ChannelManager.cpp`, `Transport.cpp`) | algorithms agreed on, hash and session, ciphers old and new, the mode | negotiateEncryptions, doKeyExchange_step1/2, begin- and endKeyExchange, setCipher | three threads switch keys while users go on writing; failures nobody looks at | both ends switch at NEWKEYS to the same keys; nothing else leaves in between; an exchange ends |
| tunnels, X11 (`TunnelHandler.cpp`, `TcpIpTunnelHandler.cpp`, `X11TunnelHandler.cpp`) | two threads per connection, the list of pairs | init, handleNewConnection, socketToChannelThread, channelToSocketThread, shutdown | both ends close at once; shutdown joins threads that block; numbers used twice | bytes keep their order; nothing is freed under a thread; shutdown returns |
| FileWatchersManager (`file_watchers_manager.cc`) | file lists, last change, connection | fileChangedSlot, dirChangedSlot, scanDir, copyFilesToRemoteHost, sendFileToRemote | the user changes files while they are scanned and sent; lost connections; retries | when Syndir rests the remote side is like the local one |
| SFTP (`PTSftp.cpp`, `Sftp*.cpp`) | list of outstanding requests | createRequest and what follows it | see section 5 | - |
| C wrapper, Compress, Utility, BinaryPacket, Data | none that lasts beyond a call, or inside a library | conversions | padding arithmetic | see `TotalLen` |
| CuteLogger, programs, scripts | appenders; settings | logging; start-up | none of interest here | - |

`PROJECT.json` lists the same components with their status, and under `hazards`
each place where one of these behaviours bites.

## 2. Modules

| module | what it is |
|---|---|
| `ChannelStream` | abstract: a channel as a byte stream with control messages at fixed places in it |
| `Outbound` | the sending half: user threads, SocketSend, window adjustments |
| `MCOutbound` | its instances for TLC |
| `OutboundProofs` | theorems about `Outbound` |
| `Inbound`, `MCInbound` | the receiving half of a channel, and its instances |
| `InboundProofs` | theorems about `Inbound` and `Receive` |
| `Session`, `MCSession` | a connection: user, Transport, SocketSend and SocketRecieve as threads that start, wait, answer and end |
| `SessionProofs` | theorems about `Session` |
| `Channels`, `MCChannels` | the channel table, the calls on channels, the channel messages of the server |
| `ChannelsProofs` | theorems about `Channels` |
| `Receive`, `MCReceive` | the ring of SocketRecieve and the packets cut out of it |
| `KeyExchange`, `MCKeyExchange` | the change of keys across SocketRecieve, Transport and SocketSend |
| `KeyExchangeProofs` | theorems about `KeyExchange` |
| `Tunnel`, `MCTunnel` | TCP and X11 tunnels |
| `TunnelProofs` | theorems about `Tunnel` |
| `FileSync`, `MCFileSync` | Syndir's file synchronisation |
| `FileSyncProofs` | theorems about `FileSync` |
| `Selections`, `SelectionLemmas` | the members of a sequence that belong to a set, and what concatenations, heads and tails do to them; induction along sequences |

A definition preceded by "Deviation:" or "Mutant" is a form of its neighbour that the
code does *not* have; it is used by nothing, and is there so that one can put it in
the neighbour's place and see a property fail.

The modules cut one program along its queues: what is a step of the environment in one
is an action of another. `Session` has the threads and whole messages, `Channels` the table
and whole channel messages, `Outbound` and `Inbound` the bytes of a channel, `Receive` the
bytes of the connection, `KeyExchange` the packets between two KEXINITs. Where one
module needs something of another in little detail (SocketSend in `Channels` takes a
message from any queue), the comment there names the module that has the whole of it.

### Outbound

State and code: `queue[c]` and `totalBytes[c]` are `Queue` and its
`m_totalBytesInQ`; `window[c]` is `m_windowSizeRemote`; `nextNode` is the
iterator of `m_pQueueList`; `firstRound`, `current`, `found`, `more` are the
local variables `bFirstRound`, `pQueue`, `*ppBP`, `bKeepGoing` of
`getNextPacket`; `packed`, `rawLeft`, `waited` belong to `SocketSend::run`. `pc`
and `request` are where a user thread is in `queueOutboundData` and the packet it
holds.

Actions: `QueueOutboundData(t)`/`WakeUp(t)` are the loop of `queueOutboundData`
under `m_outboundQMutex`; `QueueWindowAdjust` is the enqueue that
`getInboundData` does without that mutex; `AdjustWindowSizeRemote` is Transport.
`getNextPacket` is cut where it touches shared state: it looks at a queue
(`VisitEmpty`, `VisitBlockedData`, `VisitData`, `VisitControl`, `VisitTooLarge`),
takes a data packet out and charges the window (`TakeData`), and signals a
writer (`SignalWriters`). `VisitData` reads the window and splits; adjustments
may come before `TakeData`. `EncodePacket`, `SendBuffer` and `SendFails` are
`combineAndSendPackets`. A packet that is not data and does not fit is only looked at
(`VisitTooLarge`) and, when no later queue has another, returned all the same (`Return`): it
overruns the raw buffer, and what comes of the write past its end is undefined, so SocketSend
stops at `overrun` when such a packet has been packed.

Data: a packet is its queue, its kind, its length and, for the properties, the
place it has in the stream. Lengths and padding are computed as the code does
(`BinaryPacket::init`, the `18 + room % 16` of `getNextPacket`), because the
buffer and the counters depend on them; `uint32` subtractions are modulo `Word`.

`ChannelStream` is what a channel promises: `ImplementsStream` says that
`Outbound` implements it with the history variables `accepted`, `ctlAt`, `sent`,
`ctlSent`, `granted`, `out`.

### Inbound

`inQueue[s]` are the two queues of a channel, `windowLocal` is
`m_windowSizeLocal`, `rpc`/`call`/`toAdd` are where a reader is in
`getInboundData`. Transport's `-=` of the window happens with the channel's mutex
held and the reader's `+=` with none, so each is a load and a store
(`TransportLoad`, `TransportStore`; `LoadWindow`, `StoreWindow`). The peer is an SSH
server that keeps to its window. A `pthread_cond_signal` wakes one waiting thread,
a timeout wakes any that waits with one; there is no spurious wakeup. A thread that
has been woken does not test a condition again, as in the code.

### Session

`running`, `stop` and `waiters` are the fields of `PTsshThread` for each of the three
threads, with the threads that wait on `m_isRunning_cv`; `allocated` says which objects
exist, `pc` where each thread is. `response[b]` are the four result fields of Transport,
with the number of the request they answer as history. `startThread`, `stopThread` and the
waits for results look once and wait at most once, as the code does: `AwaitStart`,
`StopThread`, `Wait`, each a step of its own after the step that queued or created
something. `MutexFree` is the one mutex that is held over a wait: SocketRecieve keeps its
own `m_isRunningMutex` while it stops SocketSend. `ProcessInbound`, `CheckStop`,
`IsAlive`, `NotifyUser`, `Shutdown` to `CleanupAfterShutdown` are `Transport::run` in
its order. What the user threads do with an answer is in `PasswordResult`,
`PublicKeyResult`, `MethodsResult`, as it differs between the calls (a refused public key
returns 0). Keys of the user are small numbers: `rsaVerify` compares what the code compares
(not e with d), `dsaVerify` nothing; an RSA product goes into a number that was never
initialised (`CryptoStuff.cpp` 947-973), which is taken to work.

`mishaps` names what went wrong outside (the socket fails, the server disconnects, a banner)
and the races lost: an answer that overtook the wait (`overtaken`), a thread that had ended
before it was looked at (`late`), SocketSend used after its deletion (`deleted`, whose
outcome is a choice between going on and being stuck).

### Channels

`chan[c]` is the `Channel` object in slot `c` with its flags, the pending request result and
the numbers of both sides; `inc` numbers the objects, as history, so that a message for an
earlier object of the same slot can be told from one for this. `pc[u]` is where user
`u` is in its call; a call is cut where it queues, looks, sleeps and frees (`Create`,
`RequestLook`, `CloseLook`, `CloseQueue`, `waitForChannelClose`, `deleteChannel`). All
channel requests have one shape in the code, and one here, but for `channelRequest_windowChange`:
it writes that it wants no reply (`PTssh.cpp` 1885), so the server sends none, and waits for one
(1894). Transport handles one message per
step, except for a forwarded channel, whose looks at the table are three steps; the last of them,
`NotifyForwarded`, never confirms the channel, as `init` of the notifier returns 0 where 0 is
taken for a failure (`Transport.cpp` 854, `CallbackNotifier.cpp` 35-39), and the notifier is
deleted uninitialised.
`disconnect` visits every slot; it is called while no other thread is in the middle of
something, as the other users' steps of that moment are not modelled after it. `broken`
is set where the code would go through a null pointer or delete what is not its own, and the
model ends there.

### Receive

A unit is four bytes: block and MAC sizes keep their proportions (aes 16, MACs of 20 and 12,
8 before the first exchange). Bytes are numbered, so a packet that was put together wrongly is
seen. A block that is damaged, or read out of step or under another cipher, gives any length (`LengthsRead`):
the packet fails its MAC, or is never full, or is shorter than the block that is copied into it
(`SocketRecieve.cpp` 767-784), which writes past its end, and the model of the thread ends there. `Recv` reads any part of what has arrived; `decrypt` has the three stages of
the code, `copyRaw` the two of the plain copy and of the MAC. `setCipher` is Transport.
Several names carry the module's (`ReceiveInit`, `ReceiveNext`, `receiveVars`), because
`InboundProofs` extends both `Inbound` and `Receive`.

### KeyExchange

A key is what it is derived from: the exchange hash (the two KEXINITs and e), the session, the
algorithm. Lists of algorithms are sequences, and `FirstMatch` is what
`parseHostKeyExchangePacket` finds; without a match the old algorithm stays, and the failure
is not looked at, as in the code. SocketSend reads the mode (`ReadMode`), asks for a packet
(`getNextPacket`, with its branch for an exchange) and encrypts packet by packet (`CipherOf`).
A packet that does not fit is returned as in `Outbound`, and SocketSend stops there
(`PacketOverruns`).
The server begins all exchanges (the client never does) and may send replies that have to be refused.

### Tunnel

`sc[c]` and `cs[c]` are the two threads of connection `c`, `pTD`, `bShutdown`,
`bIsSocketAlive` and `errno` what they share or keep; `owner` is the channel table by number.
`pthread_join` of an id that was never set returns at once: of the listener (`Shutdown`),
and of the second thread as long as it was not created (`ScJoin`, `joinedEarly`). A signal
from writing to a closed socket is taken to be ignored.

### FileSync

`disk` and `remote` are versions of each file on both sides (`Torn` is a mixture);
`watched` and `pending` are Qt's watcher and the signals it has not delivered;
`files`, `oldFiles`, `last`, `lastModified` and `connection` are the fields. The
slots and `copyFilesToRemoteHost` run on one thread: `pc` says how far it is, and the
user may change the directory between any two steps. `Survivors` is the loop
of `scanDir` that removes every second entry of `files` only. The order in which a
directory lists its files is any order. `opened`, `sized`, `handle` are the two
`stat` calls and the open `FILE` of `sendFileToRemote`. A directory that was gone when the list
was made and is there again when its turn comes goes the same way: `fopen` opens it, and it is
sent like a file without content; `remoteDirs` says what the remote host has under its name, and
a file there keeps the files of the directory from being sent (`Blocked`).

`created()` of a file that was written in place may be what it was (`NewVersion` leaves it open;
a creation time does not change on a write). `fileChangedSlot` then takes the change for a double of the one it
has just handled; `doubled` remembers, as history, for which files it did, until their next change.

Qt's watcher is modelled from its use: a change of a watched file gives its
signal, what appears in or disappears from a watched directory gives the
directory's, and a path that loses its file is not watched any more. A
connection attempt that fails is repeated from the start by the code and is a
stuttering step; the remote host accepts every command that reaches it, and every file that is not blocked.

## 3. Runs

Every run is one TLC run of an MC module with the configuration of the same name; states
are distinct states, times are with two workers.

| run | expected | what it asks |
|---|---|---|
| `outbound` | passes | `TypeOK`, `NoLostWakeup`, `OnlyPeekedOverruns`, `CountExact`, `NoDangling`, `ChargeExact`, `ImplementsStream`, and under fairness `WriterReturns`, `EverythingSent`: two writers on one full queue, the main queue with a disconnect, packets that do not fit, a failing socket (95 004 states, 85 s) |
| `outbound_overrun` | violated | `RawBufferFits`: a control packet that does not fit is packed all the same |
| `inbound_two` | passes | `TypeOK`, `NoStrandedData`, `InOrder`: two readers, two streams, timeouts, a lost connection |
| `inbound_race` | violated | `PeerMaySend`: the lost update of `m_windowSizeLocal` |
| `session` | passes | `TypeOK`, `AnswersMatch`, `ThreadsOutlived`, `NotifiedForCause`, and under fairness `RequestReturns`: two connections, every call, a server that refuses or leaves (690 638 states, 100 s) |
| `channels` | passes | `TypeOK`, `OwnAnswer`, `NumbersAgree`, `KeptForCause`, `SleepersServed`: two users, a table of two, channels of both sides (1 646 766 states up to symmetry, 100 s) |
| `receive` | passes | `RingKept`, `Genuine`, and under fairness `FollowedIsRead`: reads that cut anywhere, damage, a change of cipher (270 687 states, 160 s) |
| `receive_stuck` | violated | `LoopTerminates`: a full packet with more than a block and less than its MAC behind it |
| `keyexchange` | passes | `TypeOK`, `SameKeys`, `QuietExchange`, `SignatureAccepted`, and under fairness `ExchangeEnds`: two exchanges, the second in the middle of data (168 378 states, 60 s) |
| `tunnel` | passes | `TypeOK`, `BytesKept`, `PairOutlived`, `OtherKept`, and under fairness `ShutdownReturns`, `GoneEnds`: a TCP and an X11 tunnel and a channel of the user (145 048 states, 90 s) |
| `sync_all` | passes | `TypeOK`, `EditsSynced`, `DeletionsSynced`, and under fairness `SyncedAgain`: writes, creations, deletions, replacements, directories made, removed and made again, lost connections, bad keys (1 287 587 states, 110 s) |
| `sync_new` | violated | `CreationsSynced`: a deletion and a creation between two scans |

`RingKept` contains the type invariant of `Receive`, `Genuine` contains `PacketsInStep`
(the packet under construction), `BytesKept` both directions of a tunnel.

### What the passing runs show

* A writer blocked on a full queue is woken whenever there is room and, as long as SocketSend
  runs, its call returns and its bytes leave once and in order within the
  peer's window and packet limit: the refinement `ImplementsStream`.
* Data never overruns the raw buffer, and neither does a packet that was taken out of its queue; a
  packet that does is at that moment still the first of its queue (`OnlyPeekedOverruns`), and up to it no
  packet is both in the hands of SocketSend, which will delete it, and in a queue (`NoDangling`).
* A packet that is in a queue of `Inbound` has a reader on its way, if one sleeps.
* An answer goes to the call that asked, unless the server sent a banner, which is one answer
  too many (`AnswersMatch`). A call that waits returns, unless the connection fails, its
  answer came before the wait (`overtaken`), Transport had been told to stop, or a thread had
  ended before it was looked at (`late`); `RequestReturns` names these four. Objects of threads are deleted only when their thread has run out, also when the user
  disconnects while Transport ends by itself.
* A number of the channel table is used again only when the server is done with it, and no
  channel is forgotten that the server holds open (`NumbersAgree`); a channel whose
  `closeChannel` succeeded stays in the table only when the server closed it first or opened it
  (`KeptForCause`); who sleeps for an answer sleeps for one that is coming, but for a request on
  a channel the server closes, and but for a change of the window, whose answer was not asked
  for (`SleepersServed`).
* However recv cuts the connection, the packets of the server come out whole, once and in
  order, each under the cipher it was made with, also those that were in the ring when
  NEWKEYS arrived; and one is not held back when another follows.
* Both sides change keys at the same packet in both directions, and between KEXINIT
  and NEWKEYS the client sends nothing but the packets of the exchange. A signature is
  accepted only over the exchange hash of this exchange.
* A tunnel keeps the order of the bytes; what its two threads use outlives them with the
  exception stated in `PairOutlived`; shutdown returns unless a thread is in one of three
  calls that look at no flag (`WriteStuck`, `SendStuck`, `RecvStuck`).
* When Syndir rests, deletions are on the remote side if no connection was lost, and so are edits in
  place, but those taken for a double (`DeletionsSynced`, `EditsSynced`). A file made once *directly in the watched
  directory* is equal on both sides again and again, while nothing is deleted, replaced or removed and
  its last change is not taken for a double (`SyncedAgain`). This is not so below that directory: from
  the list `[root, a]`, `mkdir sub` leads to `[a, root, sub]`, and when `sub/x` is made, `scanDir` of `sub` to
  `[root, sub, sub/x]`; both have three paths, and `sub/x` is never sent
  (`file_watchers_manager.cc` 306, 583), although nothing was deleted.

### Bounds

Sizes are scaled down so that the arithmetic meets the same cases.

*Outbound.* The queue limit (112) holds one large packet and a small one, so writers
block; the raw buffer (128) holds two packets, so that packets meet a
buffer nearly full; the window (20, and 40 granted at a time) and the peer's packet limit (24) are
below the data written (20 or 40), so that packets are split for each of the three reasons. The control
packet of the channel and that of the main queue (60) do not fit in the rest of a used
buffer. With the main queue in the run, the round robin meets a channel that is out of window
and another queue with something to send. `MaxBytes`,
`MaxControl`, `MaxGrant` bound what is queued and granted in all. `outbound_overrun` has
a larger buffer and still overruns it. The safety properties and `ImplementsStream` were also checked with
two channels beside the main queue, one thread, and control packets of 5 and 60 (582 223 states).

*Inbound.* The window (32) is two packets of 16, so it runs empty, and an adjustment is
due after every read, as 1/32 of 32 is 1; `inbound_race` has more data than one window, so
that window given back is used. `MaxAdjusts` keeps readers from starting a call
while that many adjustments are under way.

*Session.* `MaxConnects` = 2: the second connection meets what the first left behind
(flags, results, a thread that is ending). `MaxRequests` = 2: an answer to the first
request can be taken for one to the second, also when the connection failed between them: with
`MaxEvents` = 5, connections, requests, a banner and a fault together, all but one of the
six may happen. Without that bound the properties hold as well (1 068 432 states).

*Channels.* A table of two with two users: both numbers in use, a full table, and a number
used again. `MaxMade` = 2 objects per slot, so that an old message can meet a new
object; `MaxRequests` = 2 per channel, so that a result can be an earlier one's; `MaxSaid`
= 2 what the server begins by itself (channels, data, EOF, CLOSE), and `MaxBoth` = 3 the two
together; without the last the properties hold as well (4 295 024 states). The users are
symmetric; the run has no temporal property.

*Receive.* The ring (12) holds fewer than three packets, so both the read and every copy
wrap at every phase; a block of 4 with MACs of 3 and 5 units has the two relations that aes
with the truncated and the full MAC have, a MAC shorter and one longer than a block. Five
packets: before, at and after the change of cipher, with one that crosses the end in
each state. A damaged block gives the length of a packet (4, 8), one shorter than a block (2), or one
that is never full (5). The properties were also checked with seven packets of one length.

*KeyExchange.* Two exchanges, as the session is made in the first and must survive the
second; two data packets of the user and one of the server around the second. The buffer (6, with
2 for the least room) is one in which the packets of an exchange may or may not fit behind data. The servers
offer lists that prefer the client's second algorithm, contain no common one, or equal the client's.

*Tunnel.* One TCP connection and one X11 connection, started at most once in all, two units
sent by the program in pieces of one, a packet of two units from the server through a socket
that takes one: partial sends and a full queue happen in both directions. `MaxEnds` counts
the ends a program makes; with two (424 667 states) the properties hold as well.

*FileSync.* `MaxOps` = 3 changes reach delete, create and write of one file with the
scan between any two, and a directory removed, made again and sent like a file (it is there at the start
or not). That a file meets such a remote file in place of its directory needs four changes: three to make it
and one in the directory; the proofs of section 4 cover it. Files in the watched directory and in a subdirectory suffice for the lists
to keep a stale entry; `sync_new` needs that one disappears, one appears and the list keeps
its length.

**Deadlock** checking is off in all runs: each system really stops when the bounds
are used up, or when its threads have ended.

### Fairness

* `outbound`: SocketSend (a thread that is always able to run), a woken writer (it needs
  only a mutex that nobody keeps), and window adjustments within the bound (a server that reads
  its channel sends them). Nothing is assumed of the calls a user makes.
* `session`: the three threads, the rest of a call the user has begun, and the server, which
  answers or leaves. The connection failing, a banner, a new call: nothing is assumed.
* `receive`: the thread that reads, and Transport's `setCipher`. The server owes
  nothing: `FollowedIsRead` asks only for what was sent.
* `keyexchange`: the three threads, and a server that goes on with an exchange it has begun.
* `tunnel`: the threads of the tunnel, the listener, Transport, what the user has called, and
  a server that takes data of an open channel. The programs at both ends of a tunnel owe nothing.
* `sync_all`: Syndir's one thread.

All of them are weak: no condition is waited for that comes and goes, except the socket that
takes bytes, and where that matters the property names the case (`SendStuck`).

### Disagreements between the code and what is said of it

Shown by a run:

* `outbound_overrun`: `getNextPacket` leaves a packet that is not data and does not fit in its queue,
  with `*ppBP` pointing at it (`ChannelManager.cpp` 1381-1383), and when no later queue has another,
  SocketSend packs it; `m_rawBufLeft` wraps, the buffer is written past its end, which the `_DEBUG`
  checks of `SocketSend.cpp` 531-571 are there to catch, and the packet is deleted while it is queued.
* `inbound_race`: two unsynchronised updates of `m_windowSizeLocal`; when the
  reader's store hides the subtraction, the local count is too high for ever,
  and in the end no adjustment is due although the peer has no window.
* `receive_stuck`: the loop of `SocketRecieve::run` stops at less than a block, as its comment
  says, but with a full packet and a MAC longer than a block it needs more, spins, and does
  not read it. With a MAC no longer than a block this cannot happen.
* `sync_new`: `dirChangedSlot` compares the *lengths* of two lists.

Stated as definitions beside the model they contradict, each of which one can put in a
configuration to see it fail:

* `Inbound!QueueBounded`: `windowSizeToAdd` is the maximum minus the window, not minus what is
  queued, so a slow reader's queue grows with every read.
* `FileSync!DeletionReaches`: `while (not sendFileToRemote(...))` has no way out for a file
  that is gone.
* `FileSync!EveryEditSynced`: "On each file change it will automatically upload changed file to
  remote host" (`src/README.md` 15). Two changes in a row of one file with one `created()` time are taken for
  one ("Ignore doubles", `file_watchers_manager.cc` 340), and the second is not sent.
* `Session!NoUseAfterDelete`: SocketRecieve looks at SocketSend when it ends, and Transport
  may have deleted that object by then.
* `Channels!ClosedIsFreed`: after a successful `closeChannel` a channel that the server closed
  first keeps its place in the table. `Channels!NoFault`: `isValidRemotePortForward` goes through
  the slots with no look at whether a forwarded channel has its address yet, and `newChannel`
  deletes the main queue when the table is full; and a forwarded channel is never confirmed, as
  its notifier is deleted before it is initialised (`Transport.cpp` 854).
* `Channels!EveryAskerServed`: the caller of `channelRequest_windowChange` waits for the result of a request
  that asked for none (`PTssh.cpp` 1885, 1894), for which `PTssh.h` promises a number.
* `KeyExchange!EnoughRoom`: "make sure we have enough room" (`ChannelManager.cpp` 1219). In an exchange
  too a packet of `m_pMainQ` that does not fit is left in
  the queue and returned all the same; 52 bytes are asked for, a KEXINIT has several hundred.
* `Tunnel!SocketClosedEnds`, `Tunnel!ListenerOutlived`: an old `EAGAIN` hides the end of a
  connection (`TunnelHandler.cpp` 150); the thread that is joined is not the listener.

Met while modelling, and part of the models without a property of their own: a directory that was removed and
made again may be sent as a file, whose name then keeps the files of the directory from the remote
side (`file_watchers_manager.cc` 537, 552); a file made in a subdirectory may never be sent, with the same
comparison of lengths as in `sync_new` and no deletion; a send error releases no
writer ("until there is more room available or an error occurs", `ChannelManager.h` 170-171); the
room left in the outbound queue is a `uint32` difference (682); a write larger than the limit
waits for ever (685); the second reader of a channel gives the same window back (577); a reader
without a timeout is not released when the connection is lost (534); a length
read from a damaged block is used before any MAC was looked at (`SocketRecieve.cpp` 767); `SSH_MSG_DEBUG`
(`Transport.cpp` 671) goes on into `CHANNEL_OPEN`; `m_bStopRunning` is never set back, so a second
`connectUp` may stop at once; two channel mutexes are taken
in both orders; `authByPublicKey` returns success when the server refuses the key; the checks of user keys
compare less than they should; the X11 flag of a request is never read.

## 4. Proofs

`OutboundProofs` proves for every set of channels and threads and every value of the
sizes allowed by `OutboundAssumption`:

* `TypeCorrect`: `Spec => []TypeOK`;
* `ChargeCorrect`: `Spec => ChargeExact`. The window is read at the split and charged two
  steps later; in between only Transport may change it;
* `BufferCorrect`: `Spec => []OnlyPeekedOverruns`, for packets of any size: the buffer is overrun by
  nothing but a packet that is not data and is still the first of its queue;
* `DataFits`: the arithmetic that connects `DataRoom` and `TotalLen`.

The argument: `TypeOK` is not inductive, because the next step of SocketSend and of a
waiting thread depends on what the last one left. The invariant `Inv` adds: a thread inside
`queueOutboundData` holds a packet (`CallOK`); the window is no more than what was granted,
and that no more than the counter holds (`WindowOK`, from `MaxGrant < Word`: RFC 4254
asks as much of a peer); between the split and the dequeue the head of the current queue is
a data packet no longer than the window (`TakeOK`); while a signal is due a packet was
found (`SignalOK`). `TakeOK` is kept because writers append only, Transport only adds to the
window, and nobody else removes packets; with it the charge cannot wrap. For the buffer,
`BufferInv` adds that there is room while SocketSend looks for packets (`RoomOK`), and that what it has
chosen fits in that room, or was only looked at (`FoundOK`, `Peeked`); the lemma
`DataFits` turns "no longer than `DataRoom`" into "its padded length is at most the room".

`InboundProofs` proves for any finite set of readers and every size allowed by
`InboundAssumption`:

* `TypeCorrect`: `Spec => []TypeOK`, from an invariant that adds that the packet is still
  there between Transport's load and store, and that a waiting or woken reader knows its
  stream;
* `NothingStranded`: `Spec => []NoStrandedData`. That is not inductive: of two packets in
  the queue and one woken reader, one packet and nobody would be left. `EnoughWoken`
  is: while somebody waits on a stream, its queue is no longer than the number of readers
  already woken for it. An arrival adds one to both sides (or nobody waits), a timeout
  to the right side only, a woken reader takes one from each, a poll one from
  the left, and a reader starts to wait only when the queue is empty. This is why the
  `if` around the wait in `getInboundData`, which may bring a reader back without data,
  does not leave data without a reader.

`OutboundProofs` goes on with results that need the places of packets in the stream, or their weights:

* `NoDanglingAlways`: `Spec => []NoDangling`. Two packets of a queue are
  told apart by their places in the stream, so that "is in no queue" follows from the
  invariant of the next theorem.
* `StreamImplemented`: `Spec => ImplementsStream`: each step of `Outbound`
  is a step of `ChannelStream` or none, whatever the sizes of the packets, up to the one that overruns
  the buffer: with it the model of SocketSend stops, and it is not counted as sent. The invariant `StreamInv` says of each queue, in
  `Line`, that the packets SocketSend holds and those in the queue are a chain (`Bytes`)
  from the bytes sent, over the bytes charged, to the bytes accepted, and that the control packets
  of both are the ranks after those sent, once and in order, each at its place (`Ranks`). A
  split replaces one link by two.
* `WakeupAlways`: `Spec => []NoLostWakeup`, if `CallsFit`: every packet of a call fits in
  an empty queue. `NoLostWakeup` speaks about the queue, the wait in the code about
  `m_totalBytesInQ`, which may wrap. `CountOK` ties them: the counter is a `uint32`, and equal to
  the weight of the queue modulo `Word`. An empty queue weighs nothing, so a writer that sleeps
  while the queue is empty would have had room. Without `CallsFit` a single write that is larger than
  the limit sleeps at an empty queue (`ChannelManager.cpp` 685), and the property is false.

* `CountAlways`: `Spec => []CountExact`, without an assumption on the packets: the counter of each
  queue is the sum of the lengths of its packets, and `m_rawBufLeft` what the packets waiting
  to be encoded leave of the buffer, both as `uint32` values. `CountOK` is the first half;
  `LeftOK` is the second, as long as there is a buffer to pack into. A
  split changes neither half, as the two pieces are weighed with their own headers and padding. The fold
  of `SumTotals` is turned into the partial sums of `Weighs` by induction over the places.

`Outbound` assumes of its constants, besides the relations of sizes, that "no packet" is none
(`NoneAssumption`).

`InboundProofs!InOrderAlways`: `Spec => []InOrder`. What is read, what a queue holds, what
Transport has in its hands and what is on the wire are one chain of packets per stream
(`Goes`): each begins where the one before it ends.

`SessionProofs` proves for any sets of connections and calls, without an assumption:

* `ThreadsCorrect`: `Spec => []ThreadsOutlived`. The guards of the deletions do not look at
  the thread that is deleted: `PTsshThread::stopThread` returns at once when `m_bIsRunning` is
  false, and a thread that was created and has not run yet would be deleted under its feet.
  `ThreadInv` says why that does not happen. `RunningExact`: the flag is set from the first to
  the last signal of the thread. `StartedInOrder`: while a thread is created and does not run
  yet, its creator is on its way into the wait of `startThread`, or in it, and so is not the
  one who deletes it. `StoppedInOrder`: whoever is past the wait of `stopThread` has seen the flag false, so
  the thread has ended; before Transport has its socket and after it has let go of it,
  there is no thread of the socket. `DeletedAreOver` is what the property needs.
* `SessionTypes`: `Spec => []TypeOK`; Transport is given no answer for which it has no field.
* `AnswersMatchAlways`: `Spec => []AnswersMatch`. The results carry no number of the request
  they answer, so the invariant is about what is under way: `OneRequest` says that the
  four queues from SocketSend to Transport's handler hold at most one message about a request
  between them, of the kind and number the user waits for, and none when it does not wait.
  A second one could only come from a call that gave up, and such a call
  is in `phase = "connect"` and never sends again.
* `NotifiedForCauseAlways`: `Spec => []NotifiedForCause`, from `GoodbyeSaid` (SocketRecieve leaves
  its loop only after a DISCONNECT of either side or a fault) and `SocketMade` (Transport asks
  only of threads that have been started).

`KeyExchangeProofs` proves for any lists of algorithms, any offers of the server, and any number
of exchanges and packets `KeyExchangeTypes`, `SameKeysAlways`, `SignatureAlways` and `QuietAlways`:
`TypeOK`, `SameKeys`, `SignatureAccepted`, `QuietExchange`. The invariant `KeyInv` is a picture of
the whole exchange: the packets of an exchange under way, taken over all queues in their
order, are one of a few sequences for each phase of the server and of Transport (`Stage`: `Resting`
to `Accepted`); what both sides have computed agrees as far as both have it (`SameExchange`,
`SameSession`, `Older`); and each packet under way is encrypted with the old keys before the NEWKEYS of
its direction and with the new ones after it (`KeysToServer`, `KeysToClient`). `QuietExchange`
rests on `Told`: SocketSend is told of an exchange before Transport can queue a KEXINIT, and sees
it before it takes a packet after one, although it reads the mode in another step. Nothing is
assumed of the lengths of packets or the size of the buffer: when a packet is returned that
does not fit, SocketSend stops before it is encrypted (`PacketOverruns`), and what was sent up to
there is in step.

`ChannelsProofs` proves for any sets of users and slots, any number of objects, requests and messages
(`ChannelsAssumption` only says that the bounds are numbers and that there are slots and users):

* `TypesKept`: `Spec => []TypeOK`;
* `OwnAnswerTaken`: `Spec => []OwnAnswer`. A channel request carries no number, and its result is
  one field of the `Channel`;
* `NumbersAgreed`: `Spec => []NumbersAgree`;
* `CauseKept`: `Spec => []KeptForCause`;
* `SleepersAreServed`: `Spec => []SleepersServed`.

All five follow from one invariant, `ChannelsInv`, which is a theorem of its own
(`ChannelsInvariant`). It is long, because a slot is known in four places (the table, the user
that works with it, the messages under way, the server) and each of the five properties relates two of
them. `NumberInv` says which object sits in a slot (`Sits`): messages
for an earlier object can be under way only as long as the server has not said its last word about
that object, and the slot is not given to the next before. `TableInv` says of each slot what is under
way about it, in order, and what the server knows (`LinkOf`): an open request not answered
yet, one that was, a channel both know, one the server has forgotten; at most one answer is owed.
`UserInv` says where each user stands with the channel it holds: which flags it has seen, whether
its request is still under way or its result is there, and that a channel belongs to one user
(`Alone`), as in the model whoever makes it uses it; of a user that disconnects it says how far it is
and that the others have left (`Leaves`). `OpeningInv` is about the three looks of
`handleChannelOpenRequest`: the slot found in the second is still nobody's in the third, and
nothing is under way about it. A step changes one slot, so each action has one lemma about the value of that slot and its
messages before and after; the frame lemmas carry the other slots over.

`TunnelProofs` proves for any number of tunnels of both kinds and any sizes:

* `PairOutlivedAlways`: `Spec => []PairOutlived`. `TunnelInv` says of each pair of threads what
  has been made (`Made`), what has been joined, closed and deleted (`Finished`), and that the
  channel table and the channels agree on the numbers (`Numbers`). The exemption for a number at second
  hand is needed from the second tunnel on: a pair closes its channel by number, and
  `closeChannel` is called once more with that number in the shutdown, when it may have been given
  to another tunnel. The run has one tunnel of each kind; instances with two reach that case.
* `OtherKeptAlways`: `Spec => []OtherKept`, by the same account of numbers.
* `BytesKeptAlways`: `Spec => []BytesKept`. `ByteInv` says for each direction that what has
  arrived, what is in the queue, in the hands of the thread and in the socket are
  together what was sent, in order (`UpOf`, `DownOf`), and a prefix of it after the end.
* `TunnelTypes`: `Spec => []TypeOK`, from `ShapeInv`: what each thread, queue and socket holds at most
  (`SizeOf`), and that a packet of the server has the one length the model gives it.

`FileSyncProofs` proves for any directories and files, any number of changes and any order in
which the watcher's signals come:

* `SyncTypes` and `DeletionsAlways`: `Spec => []TypeOK`, `Spec => []DeletionsSynced`. `SyncInv`
  says of each file, by what has happened to it, who will see to it (`NoneHolds`, `AliveHolds`,
  `DeletedHolds`): its path is in the list of this round, or it is watched and a signal is
  pending, or the remote side is as it should be; and that a path is in the list at most
  once, although `scanDir` keeps every second entry of the old one.
* `EditsAlways`: `Spec => []EditsSynced`. `EditInv` adds what a file being
  sent was when it was opened and measured. Nothing is assumed of `created()` times; the files
  whose last change was taken for a double (`doubled`) are those the property leaves out, and
  `EveryEditSynced`, without that exception, is false with one file and two edits.

`InboundProofs` also proves, of `Receive`, for any sizes of ring, blocks, MACs and packets that
`SizesAssumption` allows:

* `ReceiveInvariant`: `ReceiveSpec => []ReceiveInv`, the conjunction of the two properties with what
  they need: the packets of the server lie one behind the other, and each is under as many
  keys as NEWKEYS came before it (`ServedOK`); the cipher at work is the number of NEWKEYS
  that came out, and one that Transport has made is the next (`CiphersOK`); the bytes
  consumed are where the packet under way begins plus what was copied of it, and from
  NEWKEYS to the end of the exchange where that packet ends (`PlaceOK`). Nothing is
  assumed of the server but that it encrypts what follows its NEWKEYS; a second exchange may
  begin at any moment.
* `RingAlways`: `ReceiveSpec => []RingKept`. `Holding` states the ring without a remainder, as the
  part before its end and the part that wrapped. `CutOutIs` then says of `copyRaw`, and of
  the three stages of `decrypt`, that they yield the next bytes and leave `workIter`
  behind them; `HoldingRead` and `HoldingCut` that a read and a cut keep the rest in order.
* `GenuineAlways`: `ReceiveSpec => []Genuine`.

`SizesAssumption` says that the server sends no packet that is shorter than a block of its cipher, and
nothing of the lengths that a damaged block gives.

In all of these the theorem is about the property that a run checks, under the same name, and TLC
checked each invariant on the instance of the run before it was proved.

Sums and concatenations over sequences were thought to be out of reach, as the induction theorems
of the library take an operator that no installed prover can instantiate. `SelectionLemmas` shows two
ways around it: induction over a *set* of numbers, from the least number outside it, and
functions that list the partial sums (`Weighs`) in place of the recursion.

Only model-checked:

* Everything that holds under fairness: `WriterReturns`, `EverythingSent`, `RequestReturns`,
  `FollowedIsRead`, `ExchangeEnds`, `ShutdownReturns`, `GoneEnds`, `SyncedAgain`.

## 5. Not modelled

Whole components, with the reasons in `PROJECT.json`:

* **SFTP.** `SftpRequestMgr::createRequest` (line 97-) searches for a free number in a
  `while(1)` it leaves only when an allocation fails, so no SFTP call of the library gets
  as far as sending something, and there is no behaviour behind it to model. Syndir does not use it.
  (`PTssh.pro` defines `PTSSH_SFTP` and `Syndir.pro` does not, so that the two sides of
  the header disagree on the layout of the class.)
* **The C wrapper, Compress, Utility, BinaryPacket's fields, Data**: conversions and I/O, without
  a state of their own. What other parts need of them is modelled there.
* **CuteLogger, the log of PTssh**, the programs' start-up, windows and notifications, scripts.

Within the modelled parts: failures of allocation; spurious wakeups; two mutexes taken at
once (the models hold one mutex per step); what the bytes of a packet are (signing,
encrypting, compressing, names and paths); statistics, options and callbacks; CallbackNotifier,
a thread that calls a function of the user; `waitForEOF` and the wait for activity, which nothing in
the repository calls; refusals of a file by the remote `scp` other than
for a directory that is a file there; the
GUI build of Syndir; directories more than one level deep.

## 6. Plan

Done: `Outbound` with `ChannelStream`, `Inbound`, `FileSync`, `Session`, `Channels`, `Receive`,
`KeyExchange`, `Tunnel`; the proofs of section 4. Left, in this order:

1. A composition of `Outbound` and `Inbound` with a peer that echoes: window adjustments of the
   reader wait behind blocked data of the writer, in the same queue.
2. The order in which the mutexes of `ChannelManager` and `Channel` are taken, as a model of
   its own with the lists of mutexes each operation holds.
3. The abstract specification of a call (requested, answered or failed, returned), and the
   waits of `Session` and `Channels` shown to implement it where no answer is overtaken.
