---------------------------- MODULE TunnelProofs ----------------------------
(***************************************************************************)
(* Proofs about Tunnel: what a running thread uses outlives it, nobody     *)
(* touches a channel of the program, and no byte is lost, doubled or out   *)
(* of order either way, for any number of connections of both kinds,       *)
(* whoever ends them and whenever the user shuts down.                     *)
(***************************************************************************)
EXTENDS Tunnel, SelectionLemmas, FiniteSetTheorems

-----------------------------------------------------------------------------
(* The inductive invariant. *)

\* What a channel in the table is, and where a first thread is that has joined
\* the second.
Held == {"open", "left"}
Joined == {"close", "channel", "done"}

Types ==
    /\ pTD \in [Pairs -> {None, "live", "deleted"}]
    /\ sc \in [Pairs -> {None, "look", "recv", "write", "end", "join", "close",
                         "channel", "done"}]
    /\ cs \in [Pairs -> {None, "read", "send", "check", "done"}]
    /\ tunnelSock \in [Pairs -> {None, "open", "closed"}]
    /\ joinedEarly \in SUBSET Pairs
    /\ cNum \in [Pairs -> Slots \cup {NoNumber}]
    /\ owner \in [Slots -> Channels \cup {None}]
    /\ channel \in [Channels -> {None, "open", "left", "closed"}]
    /\ m_pHandlers \in Seq(Tcp) /\ m_pX11Handlers \in Seq(X11)

\* The table of channels and what the channels know of it agree.
Numbers ==
    /\ \A c \in Pairs : channel[c] = None <=> cNum[c] = NoNumber
    /\ \A c \in Pairs : channel[c] \in Held => owner[cNum[c]] = c
    /\ \A s \in Slots : owner[s] \in Pairs =>
         cNum[owner[s]] = s /\ channel[owner[s]] \in Held
    /\ \A s \in Slots : owner[s] = Other => channel[Other] = "open"
    /\ \A s, t \in Slots : owner[s] = Other /\ owner[t] = Other => s = t

\* The listener and the Transport thread make a pair: the channel, the first
\* thread, the second.
Made ==
    /\ \A c \in Pairs : sc[c] = None <=> pTD[c] = None
    /\ \A c \in Pairs : sc[c] = None => cs[c] = None
    /\ \A c \in Pairs : sc[c] # None => channel[c] # None /\ tunnelSock[c] # None
    /\ \A c \in Tcp : tunnelSock[c] = None => channel[c] = None
    /\ listener \in {"open", "second", "register"} => accepted \in Tcp
    /\ listener = "open" => channel[accepted] = None /\ tunnelSock[accepted] # None
    /\ listener = "second" => sc[accepted] # None /\ cs[accepted] = None
    /\ transport \in {"connect", "second", "register"} => x11Pair \in X11
    /\ transport = "connect" => sc[x11Pair] = None /\ channel[x11Pair] # None
    /\ transport = "second" => sc[x11Pair] # None /\ cs[x11Pair] = None

\* X11Connect did not find the X11 server: the pair has no thread and gets none.
Unmade(c) == sc[c] = None /\ c \in X11 /\ ~(transport = "connect" /\ x11Pair = c)

\* The end of a pair: what was joined, closed and deleted.
Finished ==
    /\ \A c \in Pairs : sc[c] \in Joined => cs[c] = "done" \/ c \in joinedEarly
    /\ \A c \in Pairs : tunnelSock[c] = "closed" => sc[c] \in Joined
    /\ \A c \in Pairs : sc[c] = "done" => channel[c] \in {"left", "closed"}
    /\ \A c \in Pairs : channel[c] = "closed" =>
         sc[c] = "done" \/ SecondHand(c) \/ Unmade(c)
    /\ \A c \in Pairs : pTD[c] = "deleted" => sc[c] = "done"
    /\ \A c \in Tcp : pTD[c] = "deleted" => cs[c] = "done"
    /\ user \in {"joinSC", "joinCS"} => victim \in Tcp
    /\ user = "joinCS" => sc[victim] = "done"
    /\ user = "x11Join" => victim \in X11

TunnelInv == Types /\ Numbers /\ Made /\ Finished

LEMMA Constants ==
    /\ Tcp \subseteq Pairs /\ X11 \subseteq Pairs /\ Tcp \cap X11 = {}
    /\ Pairs \subseteq Channels /\ Other \in Channels
    /\ NoNumber \notin Slots
    /\ None \notin Channels /\ Other \notin Pairs
  BY TunnelAssumption DEF Pairs, Channels, Slots, NoNumber, None, Other

-----------------------------------------------------------------------------
(* What every step keeps. *)

Monotone ==
    /\ \A c \in Pairs : sc[c] = "done" => sc'[c] = "done"
    /\ \A c \in Pairs : channel[c] = "closed" => channel'[c] = "closed"
    /\ \A c \in Pairs : pTD[c] = "deleted" => pTD'[c] = "deleted"
    /\ joinedEarly \subseteq joinedEarly'
    /\ \A c \in Pairs : channel[c] # None => cNum'[c] = cNum[c]

LEMMA UsesAgainStays ==
    ASSUME Monotone, NEW d \in Pairs, UsesAgain(d)
    PROVE  UsesAgain(d)'
  BY DEF Monotone, UsesAgain

LEMMA SecondHandStays ==
    ASSUME Monotone, NEW c \in Pairs, SecondHand(c), channel[c] # None
    PROVE  SecondHand(c)'
<1>1. PICK d \in Pairs \ {c} : cNum[d] = cNum[c] /\ UsesAgain(d)
  BY DEF SecondHand
<1>2. UsesAgain(d)'
  BY <1>1, UsesAgainStays
<1>3. cNum'[d] = cNum[d] /\ cNum'[c] = cNum[c]
  BY <1>1 DEF Monotone, UsesAgain, None
<1> QED BY <1>1, <1>2, <1>3 DEF SecondHand

\* Who calls with the number of a channel that is not its own has no channel.
LEMMA NotItsOwn ==
    ASSUME TunnelInv, NEW c \in Pairs, At(c) # None, At(c) # c
    PROVE  /\ channel[c] = "closed"
           /\ At(c) \in Pairs => cNum[At(c)] = cNum[c]
           /\ cNum[c] \in Slots /\ owner[cNum[c]] = At(c)
<1>1. cNum[c] \in Slots /\ owner[cNum[c]] = At(c) /\ cNum[c] # NoNumber
  BY Constants DEF TunnelInv, Types, At
<1>2. channel[c] \notin Held /\ channel[c] # None /\ c \in Channels
  BY <1>1, Constants DEF TunnelInv, Numbers
<1>3. channel[c] = "closed"
  BY <1>2 DEF TunnelInv, Types, Held
<1> QED BY <1>1, <1>3 DEF TunnelInv, Numbers

\* ... because it is done with it, or has a second-hand number.
LEMMA ItsOwner ==
    ASSUME TunnelInv, NEW c \in Pairs, At(c) # None, At(c) # c, sc[c] # "done",
           sc[c] # None \/ (transport = "connect" /\ x11Pair = c)
    PROVE  /\ \E d \in Pairs : UsesAgain(d)
           /\ At(c) \in Pairs => SecondHand(At(c))
<1>1. SecondHand(c)
  BY NotItsOwn DEF TunnelInv, Finished, Unmade
<1>2. PICK d \in Pairs \ {c} : cNum[d] = cNum[c] /\ UsesAgain(d)
  BY <1>1 DEF SecondHand
<1>3. ASSUME At(c) \in Pairs PROVE SecondHand(At(c))
  <2>1. channel[d] = "closed" /\ channel[At(c)] \in Held
    BY <1>2, <1>3, NotItsOwn DEF UsesAgain, TunnelInv, Numbers
  <2>2. d # At(c)
    BY <2>1 DEF Held
  <2> QED BY <1>2, <1>3, <2>2, NotItsOwn DEF SecondHand
<1> QED BY <1>2, <1>3

\* What closeChannel and deleteChannel do to the table.
Closes(c) ==
    \/ UNCHANGED <<channel, owner>>
    \/ /\ At(c) # None /\ channel[At(c)] \in Held
       /\ channel' = [channel EXCEPT ![At(c)] = "closed"]
       /\ owner' = [owner EXCEPT ![cNum[c]] = None]

LEMMA Closing ==
    ASSUME TunnelInv, NEW c \in Pairs, closeChannel(c) \/ deleteChannel(c)
    PROVE  Closes(c)
<1>1. CASE At(c) = None
  BY <1>1 DEF closeChannel, deleteChannel, Closes
<1>2. CASE At(c) # None
  <2>1. cNum[c] \in Slots /\ owner[cNum[c]] = At(c)
    BY <1>2, Constants DEF TunnelInv, Types, At
  <2>2. At(c) \in Pairs \/ At(c) = Other
    BY <1>2, <2>1 DEF TunnelInv, Types, Channels
  <2>3. channel[At(c)] \in Held
    BY <2>1, <2>2 DEF TunnelInv, Numbers, Held
  <2> QED BY <1>2, <2>3 DEF closeChannel, deleteChannel, Closes, Set
<1> QED BY <1>1, <1>2

LEMMA ClosesNumbers ==
    ASSUME TunnelInv, NEW c \in Pairs, Closes(c), UNCHANGED cNum
    PROVE  /\ Numbers'
           /\ owner' \in [Slots -> Channels \cup {None}]
           /\ channel' \in [Channels -> {None, "open", "left", "closed"}]
           /\ \A e \in Channels : channel'[e] = channel[e]
                \/ (channel[e] \in Held /\ channel'[e] = "closed" /\ At(c) = e)
<1>1. CASE UNCHANGED <<channel, owner>>
  BY <1>1 DEF TunnelInv, Types, Numbers
<1>2. CASE ~UNCHANGED <<channel, owner>>
  <2> DEFINE e == At(c)
             s == cNum[c]
  <2>1. /\ e # None /\ channel[e] \in Held
        /\ channel' = [channel EXCEPT ![e] = "closed"]
        /\ owner' = [owner EXCEPT ![s] = None]
    BY <1>2 DEF Closes
  <2>2. s \in Slots /\ owner[s] = e /\ e \in Channels
    BY <2>1, Constants DEF TunnelInv, Types, At
  <2> HIDE DEF e, s
  <2>3. owner' \in [Slots -> Channels \cup {None}]
        /\ channel' \in [Channels -> {None, "open", "left", "closed"}]
    BY <2>1 DEF TunnelInv, Types
  <2>4. /\ channel'[e] = "closed" /\ \A d \in Channels \ {e} : channel'[d] = channel[d]
        /\ owner'[s] = None /\ \A t \in Slots \ {s} : owner'[t] = owner[t]
    BY <2>1, <2>2 DEF TunnelInv, Types
  <2>5. None \notin Pairs /\ None # Other /\ Pairs \subseteq Channels /\ Other \in Channels
    BY Constants
  <2>6. \A d \in Channels : channel'[d] = channel[d]
                \/ (channel[d] \in Held /\ channel'[d] = "closed" /\ At(c) = d)
    BY <2>1, <2>4 DEF e
  <2>7. \A d \in Pairs : channel[d] = None <=> cNum[d] = NoNumber
    BY DEF TunnelInv, Numbers
  <2>8. \A d \in Pairs : channel'[d] = None <=> cNum[d] = NoNumber
    BY <2>1, <2>4, <2>5, <2>7 DEF Held, None
  <2>9. \A d \in Pairs : channel'[d] \in Held => owner'[cNum[d]] = d
    <3> SUFFICES ASSUME NEW d \in Pairs, channel'[d] \in Held PROVE owner'[cNum[d]] = d
      OBVIOUS
    <3>1. d # e
      BY <2>4 DEF Held
    <3>2. owner[cNum[d]] = d /\ channel[d] = channel'[d]
      BY <2>4, <2>5, <3>1 DEF TunnelInv, Numbers
    <3>3. cNum[d] # s
      BY <2>2, <3>1, <3>2
    <3>4. cNum[d] \in Slots
      BY <2>7, <3>2 DEF TunnelInv, Types, Held, None
    <3> QED BY <2>4, <3>2, <3>3, <3>4
  <2>10. \A t \in Slots : owner'[t] \in Channels =>
           /\ t # s /\ owner'[t] = owner[t]
           /\ owner[t] # e /\ channel'[owner[t]] = channel[owner[t]]
    <3> SUFFICES ASSUME NEW t \in Slots, owner'[t] \in Channels
                 PROVE  /\ t # s /\ owner'[t] = owner[t]
                        /\ owner[t] # e /\ channel'[owner[t]] = channel[owner[t]]
      OBVIOUS
    <3>1. t # s
      BY <2>4, Constants
    <3>2. owner'[t] = owner[t]
      BY <2>4, <3>1
    <3>3. owner[t] # e
      BY <2>2, <3>1 DEF TunnelInv, Numbers, Channels
    <3> QED BY <2>4, <3>1, <3>2, <3>3
  <2>11. Numbers'
    BY <2>5, <2>8, <2>9, <2>10 DEF TunnelInv, Numbers
  <2> QED BY <2>3, <2>6, <2>11
<1> QED BY <1>1, <1>2

-----------------------------------------------------------------------------
(* The steps of the threads. *)

LEMMA SecondHandsStay ==
    Monotone => \A c \in Pairs : channel[c] # None /\ SecondHand(c) => SecondHand(c)'
  BY SecondHandStays

tableVars == <<cNum, owner, channel>>
makerVars == <<listener, accepted, transport, x11Pair, m_pHandlers, m_pX11Handlers>>
shutdownVars == <<user, victim>>

\* Outside the table nothing changes for Numbers.
LEMMA TableKept ==
    ASSUME TunnelInv, UNCHANGED tableVars
    PROVE  /\ Numbers'
           /\ cNum' \in [Pairs -> Slots \cup {NoNumber}]
           /\ owner' \in [Slots -> Channels \cup {None}]
           /\ channel' \in [Channels -> {None, "open", "left", "closed"}]
  BY DEF TunnelInv, Types, Numbers, tableVars

\* A step of the first thread before it has joined the second.
LEMMA FirstMoves ==
    ASSUME TunnelInv, NEW c \in Pairs, NEW v \in {"look", "recv", "write", "end", "join"},
           sc[c] \in {"look", "recv", "write", "end"}, sc' = [sc EXCEPT ![c] = v],
           UNCHANGED <<pTD, cs, tunnelSock, joinedEarly, tableVars, makerVars, shutdownVars>>
    PROVE  TunnelInv' /\ Monotone
<1>1. /\ sc'[c] = v /\ \A d \in Pairs \ {c} : sc'[d] = sc[d]
      /\ sc' \in [Pairs -> {None, "look", "recv", "write", "end", "join", "close",
                            "channel", "done"}]
  BY DEF TunnelInv, Types
<1>2. Types'
  BY <1>1, TableKept DEF TunnelInv, Types, makerVars
<1>3. Monotone
  BY <1>1 DEF Monotone, tableVars
<1>4. Made'
  BY <1>1, Constants DEF TunnelInv, Made, makerVars, tableVars, None
<1>5. \A d \in Pairs : channel'[d] = "closed" => sc'[d] = "done" \/ SecondHand(d)' \/ Unmade(d)'
  BY <1>1, <1>3, SecondHandsStay DEF TunnelInv, Finished, Unmade, tableVars, makerVars, None
<1> HIDE DEF SecondHand, Unmade
<1>6. Finished'
  BY <1>1, <1>5, Constants DEF TunnelInv, Finished, Joined, makerVars, tableVars, shutdownVars
<1> QED BY <1>3, <1>2, <1>4, <1>6, TableKept DEF TunnelInv

\* A step of the second thread.
LEMMA SecondMoves ==
    ASSUME TunnelInv, NEW c \in Pairs, NEW v \in {"read", "send", "check", "done"},
           cs[c] \notin {None, "done"}, cs' = [cs EXCEPT ![c] = v],
           UNCHANGED <<pTD, sc, tunnelSock, joinedEarly, tableVars, makerVars, shutdownVars>>
    PROVE  TunnelInv' /\ Monotone
<1>1. /\ cs'[c] = v /\ \A d \in Pairs \ {c} : cs'[d] = cs[d]
      /\ cs' \in [Pairs -> {None, "read", "send", "check", "done"}]
  BY DEF TunnelInv, Types
<1>2. Types'
  BY <1>1, TableKept DEF TunnelInv, Types, makerVars
<1>3. Monotone
  BY <1>1 DEF Monotone, tableVars
<1>4. Made'
  BY <1>1, Constants DEF TunnelInv, Made, makerVars, tableVars, None
<1>5. \A d \in Pairs : channel'[d] = "closed" => sc'[d] = "done" \/ SecondHand(d)' \/ Unmade(d)'
  BY <1>1, <1>3, SecondHandsStay DEF TunnelInv, Finished, Unmade, tableVars, makerVars, None
<1>6. Finished'
  BY <1>1, <1>5, Constants DEF TunnelInv, Finished, Joined, makerVars, tableVars, shutdownVars
<1> QED BY <1>3, <1>2, <1>4, <1>6, TableKept DEF TunnelInv

\* The end of the first thread up to the socket.
LEMMA Joins ==
    ASSUME TunnelInv, NEW c \in Pairs, ScJoin(c) \/ ScCloseSocket(c)
    PROVE  TunnelInv' /\ Monotone
<1>1. /\ UNCHANGED <<pTD, cs, tableVars, makerVars, shutdownVars>>
      /\ joinedEarly' = IF sc[c] = "join" /\ cs[c] = None THEN joinedEarly \cup {c} ELSE joinedEarly
      /\ \/ /\ sc[c] = "join" /\ sc' = [sc EXCEPT ![c] = "close"] /\ cs[c] \in {None, "done"}
            /\ UNCHANGED tunnelSock
         \/ /\ sc[c] = "close" /\ sc' = [sc EXCEPT ![c] = "channel"]
            /\ tunnelSock' = [tunnelSock EXCEPT ![c] = "closed"]
  BY DEF ScJoin, ScCloseSocket, Set, ScUnchanged, threadVars, csVars, channelVars, listenerVars,
         x11Vars, userVars, tableVars, makerVars, shutdownVars
<1>2. /\ \A d \in Pairs \ {c} : sc'[d] = sc[d] /\ tunnelSock'[d] = tunnelSock[d]
      /\ sc'[c] \in {"close", "channel"}
      /\ tunnelSock'[c] = tunnelSock[c] \/ tunnelSock'[c] = "closed"
      /\ sc' \in [Pairs -> {None, "look", "recv", "write", "end", "join", "close",
                            "channel", "done"}]
      /\ tunnelSock' \in [Pairs -> {None, "open", "closed"}]
  BY <1>1 DEF TunnelInv, Types
<1>3. Types'
  BY <1>1, <1>2, TableKept DEF TunnelInv, Types, makerVars
<1>4. Monotone
  BY <1>1, <1>2 DEF Monotone, tableVars
<1>5. Made'
  BY <1>1, <1>2, Constants DEF TunnelInv, Made, makerVars, tableVars, None
<1>6. \A d \in Pairs : channel'[d] = "closed" => sc'[d] = "done" \/ SecondHand(d)' \/ Unmade(d)'
  BY <1>1, <1>2, <1>4, SecondHandsStay
     DEF TunnelInv, Finished, Unmade, tableVars, makerVars, None
<1>7. \A d \in Pairs : sc'[d] \in Joined => cs'[d] = "done" \/ d \in joinedEarly'
  BY <1>1, <1>2 DEF TunnelInv, Finished, Joined
<1>8. Finished'
  BY <1>1, <1>2, <1>6, <1>7, Constants
     DEF TunnelInv, Finished, Joined, makerVars, tableVars, shutdownVars
<1> QED BY <1>4, <1>1, <1>3, <1>5, <1>8, TableKept DEF TunnelInv

\* A channel closed by its number was the caller's, or has a second-hand number.
LEMMA Closed ==
    ASSUME TunnelInv, Monotone, NEW c \in Pairs, Closes(c), UNCHANGED cNum,
           \/ sc'[c] = "done" \/ Unmade(c)',
           \/ sc[c] \notin {None, "done"} \/ (transport = "connect" /\ x11Pair = c)
           \/ UsesAgain(c)' \/ At(c) = c,
           \A d \in Pairs : Unmade(d) => Unmade(d)'
    PROVE  \A d \in Pairs : channel'[d] = "closed" =>
              sc'[d] = "done" \/ SecondHand(d)' \/ Unmade(d)'
<1> SUFFICES ASSUME NEW d \in Pairs, channel'[d] = "closed", d # c
             PROVE  sc'[d] = "done" \/ SecondHand(d)' \/ Unmade(d)'
  OBVIOUS
<1>1. CASE channel[d] = "closed"
  BY <1>1, SecondHandsStay DEF TunnelInv, Finished, Monotone, None
<1>2. CASE channel[d] # "closed"
  <2>1. channel[d] \in Held /\ At(c) = d
    BY <1>2, ClosesNumbers, Constants
  <2>2. At(c) # None /\ At(c) # c
    BY <2>1, Constants
  <2>3. /\ channel[c] = "closed" /\ cNum[d] = cNum[c]
    BY <2>1, <2>2, NotItsOwn
  <2>4. CASE UsesAgain(c)'
    BY <2>3, <2>4 DEF SecondHand
  <2>5. CASE ~UsesAgain(c)'
    <3>1. sc[c] # "done" /\ (sc[c] # None \/ (transport = "connect" /\ x11Pair = c))
      BY <2>2, <2>5 DEF TunnelInv, Made, None
    <3>2. SecondHand(d)
      BY <2>1, <2>2, <3>1, ItsOwner
    <3> QED BY <2>1, <3>2, SecondHandsStay DEF Held, None
  <2> QED BY <2>4, <2>5
<1> QED BY <1>1, <1>2

\* The first thread closes the channel.
LEMMA ClosesChannel ==
    ASSUME TunnelInv, NEW c \in Pairs, ScCloseChannel(c)
    PROVE  TunnelInv' /\ Monotone
<1>1. /\ sc[c] = "channel" /\ sc' = [sc EXCEPT ![c] = "done"]
      /\ UNCHANGED <<pTD, cs, tunnelSock, joinedEarly, cNum, makerVars, shutdownVars>>
  BY DEF ScCloseChannel, Set, ScUnchanged, threadVars, csVars, listenerVars,
         x11Vars, userVars, makerVars, shutdownVars
<1>2. /\ \A d \in Pairs \ {c} : sc'[d] = sc[d]
      /\ sc'[c] = "done"
      /\ sc' \in [Pairs -> {None, "look", "recv", "write", "end", "join", "close",
                            "channel", "done"}]
  BY <1>1 DEF TunnelInv, Types
<1>3. Closes(c)
  BY Closing DEF ScCloseChannel
<1>4. /\ Numbers'
      /\ owner' \in [Slots -> Channels \cup {None}]
      /\ channel' \in [Channels -> {None, "open", "left", "closed"}]
      /\ \A e \in Channels : channel'[e] = channel[e]
           \/ (channel[e] \in Held /\ channel'[e] = "closed" /\ At(c) = e)
  BY <1>1, <1>3, ClosesNumbers
<1>5. Types'
  BY <1>1, <1>2, <1>4 DEF TunnelInv, Types, makerVars
<1>6. Monotone
  BY <1>1, <1>2, <1>4, Constants DEF Monotone, Held
<1>7. Made'
  BY <1>1, <1>2, <1>4, Constants DEF TunnelInv, Made, makerVars, None, Held
<1>8. \A d \in Pairs : Unmade(d) => Unmade(d)'
  BY <1>1, <1>2 DEF Unmade, makerVars, None
<1>9. \A d \in Pairs : channel'[d] = "closed" =>
        sc'[d] = "done" \/ SecondHand(d)' \/ Unmade(d)'
  BY <1>1, <1>2, <1>3, <1>6, <1>8, Closed DEF None
<1>10. channel'[c] \in {"left", "closed"}
  <2>1. channel[c] # None /\ channel[c] \in {None, "open", "left", "closed"}
    BY <1>1, Constants DEF TunnelInv, Made, None, Types
  <2>2. CASE channel[c] = "open"
    <3>1. cNum[c] \in Slots /\ owner[cNum[c]] = c
      BY <2>1, <2>2 DEF TunnelInv, Numbers, Types, Held
    <3>2. At(c) = c /\ c # None /\ c \in Channels
      BY <3>1, Constants DEF At
    <3>3. channel' = [channel EXCEPT ![c] = "closed"]
      BY <2>2, <3>2 DEF ScCloseChannel, closeChannel, Set
    <3> QED BY <3>2, <3>3 DEF TunnelInv, Types
  <2>3. CASE channel[c] # "open"
    BY <1>4, <2>1, <2>3, Constants DEF None
  <2> QED BY <2>2, <2>3
<1>11. \A d \in Pairs : sc'[d] = "done" => channel'[d] \in {"left", "closed"}
  BY <1>2, <1>4, <1>10, Constants DEF TunnelInv, Finished, Held
<1> HIDE DEF SecondHand, Unmade
<1>12. Finished'
  BY <1>1, <1>2, <1>9, <1>11, Constants DEF TunnelInv, Finished, Joined, makerVars, shutdownVars
<1> QED BY <1>6, <1>4, <1>5, <1>7, <1>12 DEF TunnelInv

\* A new channel has the lowest free number.
LEMMA NewNumber ==
    ASSUME TunnelInv, NEW c \in Pairs, newChannel(c), channel[c] = None,
           channel' = [channel EXCEPT ![c] = "open"]
    PROVE  /\ Numbers'
           /\ cNum' \in [Pairs -> Slots \cup {NoNumber}]
           /\ owner' \in [Slots -> Channels \cup {None}]
           /\ channel' \in [Channels -> {None, "open", "left", "closed"}]
           /\ channel'[c] = "open" /\ \A d \in Channels \ {c} : channel'[d] = channel[d]
           /\ \A d \in Pairs \ {c} : cNum'[d] = cNum[d]
<1>1. PICK s \in Slots : /\ owner[s] = None /\ cNum' = [cNum EXCEPT ![c] = s]
                         /\ owner' = [owner EXCEPT ![s] = c]
  BY DEF newChannel, FreeSlot, Set
<1>2. /\ cNum'[c] = s /\ \A d \in Pairs \ {c} : cNum'[d] = cNum[d]
      /\ owner'[s] = c /\ \A t \in Slots \ {s} : owner'[t] = owner[t]
      /\ channel'[c] = "open" /\ \A d \in Channels \ {c} : channel'[d] = channel[d]
  BY <1>1, Constants DEF TunnelInv, Types
<1>3. /\ cNum' \in [Pairs -> Slots \cup {NoNumber}]
      /\ owner' \in [Slots -> Channels \cup {None}]
      /\ channel' \in [Channels -> {None, "open", "left", "closed"}]
  BY <1>1, Constants DEF TunnelInv, Types
<1>4. \A d \in Pairs : channel'[d] = None <=> cNum'[d] = NoNumber
  BY <1>2, Constants DEF TunnelInv, Numbers, None
<1>5. \A d \in Pairs : channel'[d] \in Held => owner'[cNum'[d]] = d
  <2> SUFFICES ASSUME NEW d \in Pairs, channel'[d] \in Held, d # c PROVE owner'[cNum'[d]] = d
    BY <1>2
  <2>1. /\ cNum'[d] = cNum[d] /\ channel[d] \in Held /\ cNum[d] # NoNumber
        /\ cNum[d] \in Slots \cup {NoNumber}
    BY <1>2, Constants DEF TunnelInv, Numbers, Types, Held, None
  <2>2. owner[cNum[d]] = d /\ cNum[d] \in Slots
    BY <2>1 DEF TunnelInv, Numbers
  <2>3. cNum[d] # s
    BY <1>1, <2>2, Constants
  <2> QED BY <1>2, <2>1, <2>2, <2>3
<1>6. \A t \in Slots : owner'[t] \in Channels =>
        \/ t = s /\ owner'[t] = c
        \/ t # s /\ owner'[t] = owner[t] /\ owner[t] # c
  <2> SUFFICES ASSUME NEW t \in Slots, owner'[t] \in Channels, t # s PROVE owner[t] # c
    BY <1>2
  <2> QED BY Constants DEF TunnelInv, Numbers, Held, None
<1>7. \A t \in Slots : owner'[t] \in Pairs =>
        cNum'[owner'[t]] = t /\ channel'[owner'[t]] \in Held
  BY <1>2, <1>6, Constants DEF TunnelInv, Numbers, Held
<1>8. /\ \A t \in Slots : owner'[t] = Other => channel'[Other] = "open"
      /\ \A t, u \in Slots : owner'[t] = Other /\ owner'[u] = Other => t = u
  BY <1>2, <1>6, Constants DEF TunnelInv, Numbers
<1>9. Numbers'
  BY <1>4, <1>5, <1>7, <1>8 DEF Numbers
<1> QED BY <1>2, <1>3, <1>9

\* A channel is made before its threads.
LEMMA Makes ==
    ASSUME TunnelInv, NEW c \in Pairs, newChannel(c), channel[c] = None,
           channel' = [channel EXCEPT ![c] = "open"],
           UNCHANGED <<cs, tunnelSock, joinedEarly, m_pHandlers, m_pX11Handlers, shutdownVars>>,
           \/ /\ UNCHANGED <<pTD, sc, listener, accepted>>
              /\ c \in X11 /\ transport = "idle" /\ transport' = "connect" /\ x11Pair' = c
           \/ /\ UNCHANGED <<transport, x11Pair>>
              /\ pTD' = [pTD EXCEPT ![c] = "live"] /\ sc' = [sc EXCEPT ![c] = "look"]
              /\ c \in Tcp /\ listener = "open" /\ accepted = c /\ accepted' = c
              /\ listener' = "second"
    PROVE  TunnelInv' /\ Monotone
<1>1. /\ Numbers'
      /\ cNum' \in [Pairs -> Slots \cup {NoNumber}]
      /\ owner' \in [Slots -> Channels \cup {None}]
      /\ channel' \in [Channels -> {None, "open", "left", "closed"}]
      /\ channel'[c] = "open" /\ \A d \in Channels \ {c} : channel'[d] = channel[d]
      /\ \A d \in Pairs \ {c} : cNum'[d] = cNum[d]
  BY NewNumber
<1>2. /\ sc[c] = None /\ pTD[c] = None /\ cs[c] = None
  BY DEF TunnelInv, Made
<1>3. /\ \A d \in Pairs \ {c} : sc'[d] = sc[d] /\ pTD'[d] = pTD[d]
      /\ sc'[c] \in {None, "look"} /\ sc'[c] = None <=> pTD'[c] = None
      /\ pTD'[c] # "deleted"
      /\ pTD' \in [Pairs -> {None, "live", "deleted"}]
      /\ sc' \in [Pairs -> {None, "look", "recv", "write", "end", "join", "close",
                            "channel", "done"}]
  BY <1>2 DEF TunnelInv, Types, None
<1>4. Types'
  BY <1>1, <1>3 DEF TunnelInv, Types
<1>5. Monotone
  BY <1>1, <1>2, <1>3, Constants DEF Monotone, None
<1>6. Made'
  <2>1. CASE UNCHANGED sc
    BY <1>1, <1>2, <1>3, <2>1, Constants DEF TunnelInv, Made, None
  <2>2. CASE ~UNCHANGED sc
    BY <1>1, <1>2, <1>3, <2>2, Constants DEF TunnelInv, Made, None
  <2> QED BY <2>1, <2>2
<1>7. \A d \in Pairs : d # c /\ Unmade(d) => Unmade(d)'
  BY <1>3 DEF Unmade
<1>8. \A d \in Pairs : channel'[d] = "closed" =>
        sc'[d] = "done" \/ SecondHand(d)' \/ Unmade(d)'
  BY <1>1, <1>3, <1>5, <1>7, SecondHandsStay, Constants DEF TunnelInv, Finished, None
<1> HIDE DEF SecondHand, Unmade
<1>9. Finished'
  BY <1>1, <1>2, <1>3, <1>8, Constants DEF TunnelInv, Finished, Joined, None, shutdownVars
<1> QED BY <1>5, <1>1, <1>4, <1>6, <1>9 DEF TunnelInv

-----------------------------------------------------------------------------
(* The listener and the Transport thread. *)

\* Steps that touch no table.
LEMMA ListenerSteps ==
    ASSUME TunnelInv, UNCHANGED <<pTD, sc, joinedEarly, tableVars, transport, x11Pair, shutdownVars>>,
           \/ ListenerLook \/ ListenerSecond \/ ListenerRegister \/ TcpInit
           \/ OpenChannel /\ listener' = "look"
    PROVE  TunnelInv' /\ Monotone
<1>1. /\ UNCHANGED m_pX11Handlers
      /\ \/ /\ UNCHANGED <<cs, tunnelSock, m_pHandlers>> /\ listener' \in {"look", "done"}
         \/ /\ UNCHANGED <<cs, m_pHandlers>>
            /\ listener' = "open" /\ accepted' \in Tcp /\ tunnelSock[accepted'] = None
            /\ tunnelSock' = [tunnelSock EXCEPT ![accepted'] = "open"]
         \/ /\ UNCHANGED <<tunnelSock, m_pHandlers, accepted>>
            /\ listener = "second" /\ listener' = "register"
            /\ cs' = [cs EXCEPT ![accepted] = "read"]
         \/ /\ UNCHANGED <<tunnelSock, cs>> /\ listener = "register" /\ listener' = "look"
            /\ m_pHandlers' = Append(m_pHandlers, accepted)
  BY DEF ListenerLook, ListenerSecond, ListenerRegister, TcpInit, OpenChannel, StartSecond, Set,
         QuietPair, pairVars, threadVars, scVars, csVars, socketVars, x11Vars
<1>2. Monotone
  BY <1>1 DEF Monotone, tableVars
<1>3. /\ m_pHandlers' \in Seq(Tcp)
      /\ tunnelSock' \in [Pairs -> {None, "open", "closed"}]
      /\ cs' \in [Pairs -> {None, "read", "send", "check", "done"}]
  <2>1. CASE UNCHANGED <<cs, tunnelSock, m_pHandlers>>
    BY <2>1 DEF TunnelInv, Types
  <2>2. CASE UNCHANGED <<cs, m_pHandlers>> /\ tunnelSock' = [tunnelSock EXCEPT ![accepted'] = "open"]
    BY <2>2 DEF TunnelInv, Types
  <2>3. CASE UNCHANGED <<tunnelSock, m_pHandlers>> /\ cs' = [cs EXCEPT ![accepted] = "read"]
    BY <2>3 DEF TunnelInv, Types
  <2>4. CASE UNCHANGED <<tunnelSock, cs>> /\ listener = "register"
             /\ m_pHandlers' = Append(m_pHandlers, accepted)
    <3>1. accepted \in Tcp /\ m_pHandlers \in Seq(Tcp)
      BY <2>4 DEF TunnelInv, Made, Types
    <3> QED BY <2>4, <3>1 DEF TunnelInv, Types
  <2> QED BY <1>1, <2>1, <2>2, <2>3, <2>4
<1>4. Types'
  BY <1>1, <1>3, TableKept DEF TunnelInv, Types
<1>5. \A d \in Pairs : /\ tunnelSock'[d] = tunnelSock[d] \/ (tunnelSock'[d] = "open" /\ d = accepted'
                                                   /\ listener' = "open" /\ tunnelSock[d] = None)
                       /\ cs'[d] = cs[d] \/ (cs[d] = None /\ cs'[d] = "read" /\ d = accepted
                                             /\ sc[d] # None)
  <2>1. listener = "second" => accepted \in Tcp /\ sc[accepted] # None /\ cs[accepted] = None
    BY DEF TunnelInv, Made
  <2> QED BY <1>1, <2>1, Constants DEF TunnelInv, Types
<1>6. listener' = "open" => channel[accepted'] = None /\ tunnelSock'[accepted'] # None
  BY <1>1, Constants DEF TunnelInv, Types, Made, None
<1>7. Made'
  <2>1. \A c \in Pairs : sc[c] = None => cs'[c] = None
    BY <1>5 DEF TunnelInv, Made
  <2>2. \A c \in Pairs : sc[c] # None => channel[c] # None /\ tunnelSock'[c] # None
    BY <1>5 DEF TunnelInv, Made, None
  <2>3. \A c \in Tcp : tunnelSock'[c] = None => channel[c] = None
    BY <1>5, Constants DEF TunnelInv, Made, None
  <2>4. listener' \in {"open", "second", "register"} => accepted' \in Tcp
    BY <1>1 DEF TunnelInv, Made
  <2>5. listener' # "second"
    BY <1>1
  <2>6. transport = "second" => cs'[x11Pair] = None
    <3>1. transport = "second" => x11Pair \in X11 /\ cs[x11Pair] = None
      BY DEF TunnelInv, Made
    <3>2. cs' # cs => accepted \in Tcp /\ cs' = [cs EXCEPT ![accepted] = "read"]
      BY <1>1 DEF TunnelInv, Made
    <3> QED BY <3>1, <3>2, Constants DEF TunnelInv, Types
  <2> QED BY <1>6, <2>1, <2>2, <2>3, <2>4, <2>5, <2>6 DEF TunnelInv, Made, tableVars
<1>8. \A d \in Pairs : channel'[d] = "closed" =>
        sc'[d] = "done" \/ SecondHand(d)' \/ Unmade(d)'
  BY <1>2, SecondHandsStay DEF TunnelInv, Finished, Unmade, tableVars, None
<1>9. /\ \A c \in Pairs : sc[c] \in Joined => cs'[c] = "done" \/ c \in joinedEarly
      /\ \A c \in Pairs : tunnelSock'[c] = "closed" => sc[c] \in Joined
      /\ \A c \in Tcp : pTD[c] = "deleted" => cs'[c] = "done"
  BY <1>5, Constants DEF TunnelInv, Finished, None
<1> HIDE DEF SecondHand, Unmade
<1>10. Finished'
  BY <1>8, <1>9, Constants DEF TunnelInv, Finished, tableVars, shutdownVars
<1> QED BY <1>2, <1>4, <1>7, <1>10, TableKept DEF TunnelInv

\* The X11 server is found, and the pair gets its first thread.
LEMMA X11Starts ==
    ASSUME TunnelInv, X11Connect, transport' = "second"
    PROVE  TunnelInv' /\ Monotone
<1> DEFINE c == x11Pair
<1>1. /\ transport = "connect" /\ x11Pair' = c
      /\ tunnelSock' = [tunnelSock EXCEPT ![c] = "open"]
      /\ pTD' = [pTD EXCEPT ![c] = "live"] /\ sc' = [sc EXCEPT ![c] = "look"]
      /\ UNCHANGED <<cs, joinedEarly, tableVars, listener, accepted, m_pHandlers, m_pX11Handlers,
                     shutdownVars>>
  BY DEF X11Connect, StartFirst, Set, QuietPair, listenerVars, userVars, tableVars, shutdownVars
<1>2. c \in X11 /\ c \in Pairs /\ sc[c] = None /\ channel[c] # None /\ cs[c] = None
      /\ pTD[c] = None
  BY <1>1, Constants DEF TunnelInv, Made
<1> HIDE DEF c
<1>3. /\ \A d \in Pairs \ {c} : /\ sc'[d] = sc[d] /\ pTD'[d] = pTD[d]
                                /\ tunnelSock'[d] = tunnelSock[d]
      /\ sc'[c] = "look" /\ pTD'[c] = "live" /\ tunnelSock'[c] = "open"
  BY <1>1, <1>2 DEF TunnelInv, Types
<1>4. Types'
  BY <1>1, <1>2, TableKept DEF TunnelInv, Types
<1>5. Monotone
  BY <1>1, <1>2, <1>3 DEF Monotone, tableVars, None
<1>6. Made'
  BY <1>1, <1>2, <1>3, Constants DEF TunnelInv, Made, tableVars, None, c
<1>7. \A d \in Pairs : channel'[d] = "closed" =>
        sc'[d] = "done" \/ SecondHand(d)' \/ Unmade(d)'
  <2>1. \A d \in Pairs : Unmade(d) => Unmade(d)'
    BY <1>1, <1>3 DEF Unmade, c
  <2> QED BY <1>1, <1>2, <1>3, <1>5, <2>1, SecondHandsStay
          DEF TunnelInv, Finished, tableVars, None
<1> HIDE DEF SecondHand, Unmade
<1>8. Finished'
  BY <1>1, <1>2, <1>3, <1>7, Constants DEF TunnelInv, Finished, Joined, tableVars, shutdownVars, None
<1> QED BY <1>5, <1>1, <1>4, <1>6, <1>8, TableKept DEF TunnelInv

\* It is not: the channel goes, and the pair never gets a thread.
LEMMA X11Fails ==
    ASSUME TunnelInv, X11Connect, transport' = "idle"
    PROVE  TunnelInv' /\ Monotone
<1>0. PICK c \in X11 : c = x11Pair
  BY DEF TunnelInv, Made, X11Connect
<1>1. /\ transport = "connect" /\ deleteChannel(c)
      /\ UNCHANGED <<pTD, sc, cs, tunnelSock, cNum, joinedEarly, listener, accepted, m_pHandlers,
                     m_pX11Handlers, shutdownVars>>
  BY <1>0 DEF X11Connect, QuietPair, listenerVars, userVars, shutdownVars
<1>2. c \in X11 /\ c \in Pairs /\ sc[c] = None
  BY <1>0, <1>1, Constants DEF TunnelInv, Made
<1>3. Closes(c)
  BY <1>1, <1>2, Closing
<1>4. /\ Numbers'
      /\ owner' \in [Slots -> Channels \cup {None}]
      /\ channel' \in [Channels -> {None, "open", "left", "closed"}]
      /\ \A e \in Channels : channel'[e] = channel[e]
           \/ (channel[e] \in Held /\ channel'[e] = "closed" /\ At(c) = e)
  BY <1>1, <1>2, <1>3, ClosesNumbers
<1>5. Types'
  BY <1>1, <1>4 DEF TunnelInv, Types
<1>6. Monotone
  BY <1>1, <1>4, Constants DEF Monotone, Held
<1>7. Made'
  BY <1>1, <1>4, Constants DEF TunnelInv, Made, None, Held
<1>8. \A d \in Pairs : Unmade(d) => Unmade(d)'
  BY <1>1 DEF Unmade
<1>9. Unmade(c)'
  BY <1>1, <1>2 DEF Unmade
<1>10. \A d \in Pairs : channel'[d] = "closed" =>
         sc'[d] = "done" \/ SecondHand(d)' \/ Unmade(d)'
  <2>1. transport = "connect" /\ x11Pair = c
    BY <1>0, <1>1
  <2> HIDE DEF Unmade, SecondHand
  <2> QED BY <1>1, <1>2, <1>3, <1>6, <1>8, <1>9, <2>1, Closed DEF None
<1>11. \A d \in Pairs : sc'[d] = "done" => channel'[d] \in {"left", "closed"}
  BY <1>1, <1>4, Constants DEF TunnelInv, Finished, Held
<1> HIDE DEF SecondHand, Unmade
<1>12. Finished'
  BY <1>1, <1>10, <1>11, Constants DEF TunnelInv, Finished, shutdownVars
<1> QED BY <1>6, <1>4, <1>5, <1>7, <1>12 DEF TunnelInv

\* The second thread, and the list of handlers.
LEMMA X11Goes ==
    ASSUME TunnelInv, X11Second \/ X11Register
    PROVE  TunnelInv' /\ Monotone
<1>1. /\ UNCHANGED <<pTD, sc, tunnelSock, joinedEarly, tableVars, listener, accepted, m_pHandlers,
                     shutdownVars>>
      /\ \/ /\ transport = "second" /\ transport' = "register" /\ x11Pair' = x11Pair
            /\ cs' = [cs EXCEPT ![x11Pair] = "read"] /\ UNCHANGED m_pX11Handlers
         \/ /\ transport = "register" /\ transport' = "idle" /\ UNCHANGED cs
            /\ m_pX11Handlers' = Append(m_pX11Handlers, x11Pair)
  BY DEF X11Second, X11Register, StartSecond, Set, QuietPair, pairVars, threadVars, scVars, csVars,
         socketVars, channelVars, listenerVars, userVars, tableVars, shutdownVars
<1>2. /\ x11Pair \in X11 /\ x11Pair \in Pairs
      /\ transport = "second" => sc[x11Pair] # None /\ cs[x11Pair] = None
  BY <1>1, Constants DEF TunnelInv, Made
<1>3. cs' \in [Pairs -> {None, "read", "send", "check", "done"}]
      /\ m_pX11Handlers' \in Seq(X11)
  <2>1. m_pX11Handlers \in Seq(X11) /\ cs \in [Pairs -> {None, "read", "send", "check", "done"}]
    BY DEF TunnelInv, Types
  <2> QED BY <1>1, <1>2, <2>1
<1>4. Types'
  BY <1>1, <1>3, TableKept DEF TunnelInv, Types
<1>5. Monotone
  BY <1>1 DEF Monotone, tableVars
<1>6. \A d \in Pairs : cs'[d] = cs[d] \/ (cs[d] = None /\ cs'[d] = "read" /\ d = x11Pair
                                          /\ sc[d] # None /\ transport = "second")
  BY <1>1, <1>2 DEF TunnelInv, Types
<1>7. Made'
  <2>1. \A c \in Pairs : sc[c] = None => cs'[c] = None
    BY <1>6 DEF TunnelInv, Made
  <2>2. listener = "second" => cs'[accepted] = None
    BY <1>2, <1>6, Constants DEF TunnelInv, Made
  <2> QED BY <1>1, <1>2, <2>1, <2>2 DEF TunnelInv, Made, tableVars
<1>8. \A d \in Pairs : channel'[d] = "closed" =>
        sc'[d] = "done" \/ SecondHand(d)' \/ Unmade(d)'
  BY <1>1, <1>5, SecondHandsStay DEF TunnelInv, Finished, Unmade, tableVars, None
<1>9. /\ \A c \in Pairs : sc[c] \in Joined => cs'[c] = "done" \/ c \in joinedEarly
      /\ \A c \in Tcp : pTD[c] = "deleted" => cs'[c] = "done"
  BY <1>6, Constants DEF TunnelInv, Finished, None
<1> HIDE DEF SecondHand, Unmade
<1>10. Finished'
  BY <1>1, <1>8, <1>9, Constants DEF TunnelInv, Finished, tableVars, shutdownVars
<1> QED BY <1>5, <1>1, <1>4, <1>7, <1>10, TableKept DEF TunnelInv

-----------------------------------------------------------------------------
(* The user's thread. *)

\* It takes the next pair, or waits for one.
LEMMA Pops ==
    ASSUME TunnelInv,
           \/ closeAutomaticDirectTCPIP \/ disconnect \/ PopPair \/ JoinSocketToChannel \/ X11Pop
    PROVE  TunnelInv' /\ Monotone
<1>1. UNCHANGED <<pTD, sc, cs, tunnelSock, joinedEarly, tableVars, listener, accepted, transport,
                  x11Pair>>
  BY DEF closeAutomaticDirectTCPIP, disconnect, PopPair, JoinSocketToChannel, X11Pop, UserQuiet,
         UserUnchanged, scVars, csVars, socketVars, channelVars, tableVars
<1>2. m_pHandlers' \in {m_pHandlers, Tail(m_pHandlers)}
      /\ (m_pHandlers' # m_pHandlers => m_pHandlers # <<>>)
  BY DEF closeAutomaticDirectTCPIP, disconnect, PopPair, JoinSocketToChannel, X11Pop, UserQuiet,
         UserUnchanged
<1>3. m_pX11Handlers' \in {m_pX11Handlers, Tail(m_pX11Handlers)}
      /\ (m_pX11Handlers' # m_pX11Handlers => m_pX11Handlers # <<>>)
  BY DEF closeAutomaticDirectTCPIP, disconnect, PopPair, JoinSocketToChannel, X11Pop, UserQuiet,
         UserUnchanged
<1>4. m_pHandlers \in Seq(Tcp) /\ m_pX11Handlers \in Seq(X11)
  BY DEF TunnelInv, Types
<1>5. m_pHandlers' \in Seq(Tcp) /\ m_pX11Handlers' \in Seq(X11)
  <2>1. m_pHandlers # <<>> => Tail(m_pHandlers) \in Seq(Tcp)
    BY <1>4
  <2>2. m_pX11Handlers # <<>> => Tail(m_pX11Handlers) \in Seq(X11)
    BY <1>4
  <2> QED BY <1>2, <1>3, <1>4, <2>1, <2>2
<1>6. Types'
  BY <1>1, <1>5, TableKept DEF TunnelInv, Types
<1>7. Made'
  BY <1>1 DEF TunnelInv, Made, tableVars
<1>8. Monotone
  BY <1>1 DEF Monotone, tableVars
<1>9. \A d \in Pairs : channel'[d] = "closed" =>
        sc'[d] = "done" \/ SecondHand(d)' \/ Unmade(d)'
  BY <1>1, <1>8, SecondHandsStay DEF TunnelInv, Finished, Unmade, tableVars, None
<1>10. /\ user' \in {"joinSC", "joinCS"} => victim' \in Tcp
       /\ user' = "joinCS" => sc[victim'] = "done"
       /\ user' = "x11Join" => victim' \in X11
  <2>1. \/ user' \in {"idle", "pop", "x11", "done"}
        \/ user' = "joinSC" /\ m_pHandlers # <<>> /\ victim' = Head(m_pHandlers)
        \/ user = "joinSC" /\ user' = "joinCS" /\ victim' = victim /\ sc[victim] = "done"
        \/ user' = "x11Join" /\ m_pX11Handlers # <<>> /\ victim' = Head(m_pX11Handlers)
    BY DEF closeAutomaticDirectTCPIP, disconnect, Shutdown, PopPair, JoinSocketToChannel, X11Pop
  <2>2. /\ m_pHandlers # <<>> => Head(m_pHandlers) \in Tcp
        /\ m_pX11Handlers # <<>> => Head(m_pX11Handlers) \in X11
    BY <1>4
  <2> QED BY <2>1, <2>2 DEF TunnelInv, Finished
<1> HIDE DEF SecondHand, Unmade
<1>11. Finished'
  BY <1>1, <1>9, <1>10 DEF TunnelInv, Finished, tableVars
<1> QED BY <1>8, <1>1, <1>6, <1>7, <1>11, TableKept DEF TunnelInv

\* It closes the channel of the pair once more, and deletes its data.
LEMMA Deletes ==
    ASSUME TunnelInv, ClosePair \/ X11Shutdown
    PROVE  TunnelInv' /\ Monotone
<1>1. /\ victim \in Pairs /\ sc[victim] = "done" /\ (victim \in Tcp => cs[victim] = "done")
      /\ closeChannel(victim) \/ deleteChannel(victim)
      /\ pTD' = [pTD EXCEPT ![victim] = "deleted"]
      /\ user' \in {"pop", "x11"} /\ victim' = victim
      /\ UNCHANGED <<sc, cs, tunnelSock, cNum, joinedEarly, makerVars>>
  <2>1. CASE ClosePair
    BY <2>1, Constants DEF ClosePair, Set, UserUnchanged, scVars, csVars, socketVars, makerVars,
       TunnelInv, Finished
  <2>2. CASE X11Shutdown
    BY <2>2, Constants DEF X11Shutdown, Set, UserUnchanged, scVars, csVars, socketVars, makerVars,
       TunnelInv, Finished
  <2> QED BY <2>1, <2>2
<1>2. PICK c \in Pairs : c = victim
  BY <1>1
<1>3. Closes(c)
  BY <1>1, <1>2, Closing
<1>4. /\ Numbers'
      /\ owner' \in [Slots -> Channels \cup {None}]
      /\ channel' \in [Channels -> {None, "open", "left", "closed"}]
      /\ \A e \in Channels : channel'[e] = channel[e]
           \/ (channel[e] \in Held /\ channel'[e] = "closed" /\ At(c) = e)
  BY <1>1, <1>3, ClosesNumbers
<1>5. Types'
  BY <1>1, <1>4 DEF TunnelInv, Types, makerVars
<1>6. pTD'[c] = "deleted" /\ \A d \in Pairs \ {c} : pTD'[d] = pTD[d]
  BY <1>1, <1>2 DEF TunnelInv, Types
<1>7. Monotone
  BY <1>1, <1>4, <1>6, Constants DEF Monotone, Held
<1>8. Made'
  BY <1>1, <1>2, <1>4, <1>6, Constants DEF TunnelInv, Made, None, Held, makerVars
<1>9. \A d \in Pairs : Unmade(d) => Unmade(d)'
  BY <1>1 DEF Unmade, makerVars
<1>10. UsesAgain(c)' \/ At(c) = c
  <2> SUFFICES ASSUME At(c) # c PROVE channel'[c] = "closed"
    BY <1>1, <1>2, <1>6 DEF UsesAgain
  <2>1. CASE At(c) = None
    <3>1. channel[c] # None
      BY <1>1, <1>2 DEF TunnelInv, Made, None
    <3>2. channel[c] \notin Held
      BY <2>1, <3>1, Constants DEF TunnelInv, Numbers, At, Types
    <3> QED BY <1>4, <3>1, <3>2, Constants DEF TunnelInv, Types, Held
  <2>2. CASE At(c) # None
    BY <1>4, <2>2, NotItsOwn, Constants DEF Held
  <2> QED BY <2>1, <2>2
<1>11. \A d \in Pairs : channel'[d] = "closed" =>
         sc'[d] = "done" \/ SecondHand(d)' \/ Unmade(d)'
  <2> HIDE DEF Unmade, SecondHand
  <2>1. sc'[c] = "done"
    BY <1>1, <1>2
  <2> QED BY <1>1, <1>3, <1>7, <1>9, <1>10, <2>1, Closed
<1>12. \A d \in Pairs : sc'[d] = "done" => channel'[d] \in {"left", "closed"}
  BY <1>1, <1>4, Constants DEF TunnelInv, Finished, Held
<1> HIDE DEF SecondHand, Unmade
<1>13. Finished'
  BY <1>1, <1>2, <1>6, <1>11, <1>12, Constants DEF TunnelInv, Finished, makerVars
<1> QED BY <1>7, <1>4, <1>5, <1>8, <1>13 DEF TunnelInv

-----------------------------------------------------------------------------
(* The server and the program. *)

LEMMA ServerClosesIt ==
    ASSUME TunnelInv, NEW c \in Pairs, ServerCloses(c)
    PROVE  TunnelInv' /\ Monotone
<1>1. /\ channel[c] = "open" /\ channel' = [channel EXCEPT ![c] = "left"]
      /\ UNCHANGED <<pTD, sc, cs, tunnelSock, joinedEarly, cNum, owner, makerVars, shutdownVars>>
  BY DEF ServerCloses, Set, OutsideUnchanged, pairVars, threadVars, scVars, csVars, listenerVars,
         x11Vars, makerVars, shutdownVars
<1>2. /\ channel'[c] = "left" /\ \A d \in Channels \ {c} : channel'[d] = channel[d]
      /\ channel' \in [Channels -> {None, "open", "left", "closed"}]
  BY <1>1, Constants DEF TunnelInv, Types
<1>3. Types'
  BY <1>1, <1>2 DEF TunnelInv, Types, makerVars
<1>4. Numbers'
  BY <1>1, <1>2, Constants DEF TunnelInv, Types, Numbers, Held, None
<1>5. Monotone
  BY <1>1, <1>2, Constants DEF Monotone
<1>6. Made'
  BY <1>1, <1>2, Constants DEF TunnelInv, Made, None, makerVars
<1>7. \A d \in Pairs : channel'[d] = "closed" =>
        sc'[d] = "done" \/ SecondHand(d)' \/ Unmade(d)'
  BY <1>1, <1>2, <1>5, SecondHandsStay, Constants DEF TunnelInv, Finished, Unmade, None, makerVars
<1> HIDE DEF SecondHand, Unmade
<1>8. Finished'
  BY <1>1, <1>2, <1>7, Constants DEF TunnelInv, Finished, makerVars, shutdownVars
<1> QED BY <1>5, <1>3, <1>4, <1>6, <1>8 DEF TunnelInv

LEMMA OtherOpensOne ==
    ASSUME TunnelInv, OtherOpens
    PROVE  TunnelInv' /\ Monotone
<1>1. /\ channel[Other] = None /\ channel' = [channel EXCEPT ![Other] = "open"]
      /\ UNCHANGED <<pTD, sc, cs, tunnelSock, joinedEarly, cNum, makerVars, shutdownVars>>
  BY DEF OtherOpens, Set, OutsideUnchanged, pairVars, threadVars, scVars, csVars, listenerVars,
         x11Vars, makerVars, shutdownVars
<1>2. PICK s \in Slots : owner[s] = None /\ owner' = [owner EXCEPT ![s] = Other]
  BY DEF OtherOpens, FreeSlot
<1>3. /\ channel'[Other] = "open" /\ \A d \in Pairs : channel'[d] = channel[d]
      /\ channel' \in [Channels -> {None, "open", "left", "closed"}]
      /\ owner'[s] = Other /\ \A t \in Slots \ {s} : owner'[t] = owner[t] /\ owner[t] # Other
      /\ owner' \in [Slots -> Channels \cup {None}]
  BY <1>1, <1>2, Constants DEF TunnelInv, Types, Numbers, None
<1>4. Types'
  BY <1>1, <1>3 DEF TunnelInv, Types, makerVars
<1>5. Numbers'
  <2>1. \A d \in Pairs : channel'[d] \in Held => owner'[cNum'[d]] = d
    <3> SUFFICES ASSUME NEW d \in Pairs, channel[d] \in Held PROVE owner'[cNum[d]] = d
      BY <1>1, <1>3
    <3>1. cNum[d] \in Slots /\ owner[cNum[d]] = d
      BY DEF TunnelInv, Types, Numbers, Held, None
    <3> QED BY <1>2, <1>3, <3>1, Constants
  <2>2. \A t \in Slots : owner'[t] \in Pairs => owner'[t] = owner[t]
    BY <1>3, Constants
  <2>3. \A t \in Slots : owner'[t] = Other => t = s
    BY <1>3
  <2> QED BY <1>1, <1>3, <2>1, <2>2, <2>3 DEF TunnelInv, Numbers
<1>6. Monotone
  BY <1>1, <1>3 DEF Monotone
<1>7. Made'
  BY <1>1, <1>3, Constants DEF TunnelInv, Made, makerVars
<1>8. \A d \in Pairs : channel'[d] = "closed" =>
        sc'[d] = "done" \/ SecondHand(d)' \/ Unmade(d)'
  BY <1>1, <1>3, <1>6, SecondHandsStay DEF TunnelInv, Finished, Unmade, None, makerVars
<1> HIDE DEF SecondHand, Unmade
<1>9. Finished'
  BY <1>1, <1>3, <1>8, Constants DEF TunnelInv, Finished, makerVars, shutdownVars
<1> QED BY <1>6, <1>4, <1>5, <1>7, <1>9 DEF TunnelInv

LEMMA OutsideSteps ==
    ASSUME TunnelInv,
           UNCHANGED <<pTD, sc, cs, tunnelSock, joinedEarly, tableVars, makerVars, shutdownVars>>
    PROVE  TunnelInv' /\ Monotone
<1>1. Types' /\ Made'
  BY TableKept DEF TunnelInv, Types, Made, makerVars, tableVars
<1>2. Monotone
  BY DEF Monotone, tableVars
<1>3. \A d \in Pairs : channel'[d] = "closed" =>
        sc'[d] = "done" \/ SecondHand(d)' \/ Unmade(d)'
  BY <1>2, SecondHandsStay DEF TunnelInv, Finished, Unmade, None, makerVars, tableVars
<1> HIDE DEF SecondHand, Unmade
<1>4. Finished'
  BY <1>3 DEF TunnelInv, Finished, makerVars, tableVars, shutdownVars
<1> QED BY <1>2, <1>1, <1>4, TableKept DEF TunnelInv

-----------------------------------------------------------------------------
(* The invariant holds. *)

LEMMA FirstThread ==
    ASSUME TunnelInv, NEW c \in Pairs, socketToChannelThread(c)
    PROVE  TunnelInv' /\ Monotone
<1> USE DEF tableVars, makerVars, shutdownVars, threadVars, scVars, csVars, channelVars,
            listenerVars, x11Vars, userVars, Set
<1>1. CASE ScLook(c)
  <2>1. /\ sc[c] = "look" /\ \E v \in {"recv", "end"} : sc' = [sc EXCEPT ![c] = v]
        /\ UNCHANGED <<pTD, cs, tunnelSock, joinedEarly, tableVars, makerVars, shutdownVars>>
    BY <1>1 DEF ScLook
  <2> QED BY ONLY TunnelInv, <2>1, FirstMoves
<1>2. CASE ScRecvData(c)
  <2>1. /\ sc[c] = "recv" /\ sc' = [sc EXCEPT ![c] = "write"]
        /\ UNCHANGED <<pTD, cs, tunnelSock, joinedEarly, tableVars, makerVars, shutdownVars>>
    BY <1>2 DEF ScRecvData, ScUnchanged
  <2> QED BY ONLY TunnelInv, <2>1, FirstMoves
<1>3. CASE ScRecvNothing(c)
  <2>1. /\ sc[c] = "recv" /\ sc' = [sc EXCEPT ![c] = "look"]
        /\ UNCHANGED <<pTD, cs, tunnelSock, joinedEarly, tableVars, makerVars, shutdownVars>>
    BY <1>3 DEF ScRecvNothing
  <2> QED BY ONLY TunnelInv, <2>1, FirstMoves
<1>4. CASE ScWrite(c)
  <2>1. /\ sc[c] = "write" /\ sc' = [sc EXCEPT ![c] = "recv"]
        /\ UNCHANGED <<pTD, cs, tunnelSock, joinedEarly, tableVars, makerVars, shutdownVars>>
    BY <1>4 DEF ScWrite, ScUnchanged
  <2> QED BY ONLY TunnelInv, <2>1, FirstMoves
<1>5. CASE ScEnd(c)
  <2>1. /\ sc[c] = "end" /\ sc' = [sc EXCEPT ![c] = "join"]
        /\ UNCHANGED <<pTD, cs, tunnelSock, joinedEarly, tableVars, makerVars, shutdownVars>>
    BY <1>5 DEF ScEnd, ScUnchanged
  <2> QED BY ONLY TunnelInv, <2>1, FirstMoves
<1>6. CASE ScJoin(c) \/ ScCloseSocket(c)
  BY <1>6, Joins
<1>7. CASE ScCloseChannel(c)
  BY <1>7, ClosesChannel
<1> QED BY <1>1, <1>2, <1>3, <1>4, <1>5, <1>6, <1>7 DEF socketToChannelThread

LEMMA SecondThread ==
    ASSUME TunnelInv, NEW c \in Pairs, channelToSocketThread(c)
    PROVE  TunnelInv' /\ Monotone
<1>1. UNCHANGED <<pTD, sc, tunnelSock, joinedEarly, tableVars, makerVars, shutdownVars>>
  BY DEF channelToSocketThread, CsRead, CsSend, CsSendFails, CsCheck, CsUnchanged, threadVars,
         scVars, channelVars, listenerVars, x11Vars, userVars, tableVars, makerVars, shutdownVars
<1>2. cs[c] \in {"read", "send", "check"} /\ \E v \in {"read", "send", "check", "done"} :
        cs' = [cs EXCEPT ![c] = v]
  <2>1. CASE CsRead(c)
    BY <2>1 DEF CsRead, Set
  <2>2. CASE CsSend(c)
    <3>1. cs[c] = "send" /\ \E rest \in {"send", "read", "done"} : cs' = Set(cs, c, rest)
      BY <2>2 DEF CsSend
    <3> QED BY <3>1 DEF Set
  <2>3. CASE CsSendFails(c)
    BY <2>3 DEF CsSendFails, Set
  <2>4. CASE CsCheck(c)
    BY <2>4 DEF CsCheck, Set
  <2> QED BY <2>1, <2>2, <2>3, <2>4 DEF channelToSocketThread
<1> QED BY <1>1, <1>2, SecondMoves DEF None

LEMMA OpensChannel ==
    ASSUME TunnelInv, OpenChannel
    PROVE  TunnelInv' /\ Monotone
<1>1. CASE listener' = "look"
  <2>1. UNCHANGED <<pTD, sc, joinedEarly, tableVars, transport, x11Pair, shutdownVars>>
    BY <1>1 DEF OpenChannel, QuietPair, x11Vars, userVars, tableVars, shutdownVars
  <2> QED BY <1>1, <2>1, ListenerSteps
<1>2. CASE listener' # "look"
  <2>1. PICK c \in Tcp : c = accepted
    BY DEF OpenChannel, TunnelInv, Made
  <2>2. /\ newChannel(c) /\ channel' = [channel EXCEPT ![c] = "open"]
        /\ UNCHANGED <<cs, tunnelSock, joinedEarly, m_pHandlers, m_pX11Handlers, shutdownVars>>
        /\ UNCHANGED <<transport, x11Pair>>
        /\ pTD' = [pTD EXCEPT ![c] = "live"] /\ sc' = [sc EXCEPT ![c] = "look"]
        /\ listener = "open" /\ accepted' = c /\ listener' = "second"
    BY <1>2, <2>1 DEF OpenChannel, StartFirst, Set, QuietPair, socketVars, x11Vars, userVars,
       shutdownVars
  <2>3. c \in Pairs /\ channel[c] = None
    BY <2>1, <2>2, Constants DEF TunnelInv, Made
  <2> QED BY <2>1, <2>2, <2>3, Makes
<1> QED BY <1>1, <1>2

LEMMA HandlesX11 ==
    ASSUME TunnelInv, NEW c \in X11, handleX11Connection(c)
    PROVE  TunnelInv' /\ Monotone
<1>1. c \in Pairs /\ channel[c] = None
  BY Constants DEF handleX11Connection, TunnelInv, Numbers
<1>2. /\ newChannel(c) /\ channel' = [channel EXCEPT ![c] = "open"]
      /\ UNCHANGED <<cs, tunnelSock, joinedEarly, m_pHandlers, m_pX11Handlers, shutdownVars>>
      /\ UNCHANGED <<pTD, sc, listener, accepted>>
      /\ transport = "idle" /\ transport' = "connect" /\ x11Pair' = c
  BY DEF handleX11Connection, Set, pairVars, threadVars, scVars, csVars, socketVars, listenerVars,
         userVars, shutdownVars
<1> QED BY <1>1, <1>2, Makes

LEMMA TunnelNext == TunnelInv /\ [Next]_vars => TunnelInv' /\ Monotone
<1> SUFFICES ASSUME TunnelInv, [Next]_vars PROVE TunnelInv' /\ Monotone
  OBVIOUS
<1>1. CASE \E c \in Pairs : socketToChannelThread(c) \/ channelToSocketThread(c)
  BY <1>1, FirstThread, SecondThread
<1>2. CASE TcpInit \/ ListenerLook \/ ListenerSecond \/ ListenerRegister
  <2>1. UNCHANGED <<pTD, sc, joinedEarly, tableVars, transport, x11Pair, shutdownVars>>
    BY <1>2 DEF TcpInit, ListenerLook, ListenerSecond, ListenerRegister, StartSecond, QuietPair,
       pairVars, threadVars, scVars, channelVars, x11Vars, userVars, tableVars, shutdownVars
  <2> QED BY <1>2, <2>1, ListenerSteps
<1>3. CASE OpenChannel
  BY <1>3, OpensChannel
<1>4. CASE X11Connect
  <2>1. transport' \in {"second", "idle"}
    BY <1>4 DEF X11Connect
  <2> QED BY <1>4, <2>1, X11Starts, X11Fails
<1>5. CASE X11Second \/ X11Register
  BY <1>5, X11Goes
<1>6. CASE closeAutomaticDirectTCPIP \/ disconnect \/ PopPair \/ JoinSocketToChannel \/ X11Pop
  BY <1>6, Pops
<1>7. CASE ClosePair \/ X11Shutdown
  BY <1>7, Deletes
<1>8. CASE \E c \in X11 : handleX11Connection(c)
  BY <1>8, HandlesX11
<1>9. CASE OtherOpens \/ \E c \in Pairs : ServerCloses(c)
  BY <1>9, OtherOpensOne, ServerClosesIt
<1>10. CASE \/ \E c \in Pairs : ProgramConnects(c) \/ ProgramSends(c) \/ ProgramReads(c)
                                \/ ProgramEnds(c) \/ ServerTakes(c)
            \/ \E c \in Channels : ServerSays(c)
            \/ UNCHANGED vars
  <2>1. UNCHANGED <<pTD, sc, cs, tunnelSock, joinedEarly, tableVars, makerVars, shutdownVars>>
    BY <1>10 DEF ProgramConnects, ProgramSends, ProgramReads, ProgramEnds, ServerTakes, ServerSays,
       OutsideUnchanged, vars, pairVars, threadVars, scVars, csVars, socketVars, channelVars,
       listenerVars, x11Vars, userVars, tableVars, makerVars, shutdownVars
  <2> QED BY <2>1, OutsideSteps
<1> QED BY <1>1, <1>2, <1>3, <1>4, <1>5, <1>6, <1>7, <1>8, <1>9, <1>10, Constants
        DEF Next, UserSteps, Listener, TransportThread

LEMMA TunnelInit == Init => TunnelInv
<1> SUFFICES ASSUME Init PROVE TunnelInv
  OBVIOUS
<1> USE Constants DEF Init, All
<1>1. Types
  BY DEF Types
<1>2. Numbers
  BY DEF Numbers, Held, None
<1>3. Made
  BY DEF Made, None
<1>4. Finished
  BY DEF Finished, Joined, None
<1> QED BY <1>1, <1>2, <1>3, <1>4 DEF TunnelInv

LEMMA TunnelInvAlways == Spec => []TunnelInv
  BY TunnelInit, TunnelNext, PTL DEF Spec

\* What a running thread uses outlives it, for any number of tunnels and whenever they
\* are shut down: the threadData, the socket and the channel; but for the pair whose
\* second thread was joined before it was made, and but for the channel of a pair
\* whose number was closed once more by another (ScEnd to ScCloseChannel, ClosePair).
THEOREM PairOutlivedAlways == Spec => []PairOutlived
<1>1. TunnelInv => PairOutlived
  <2> SUFFICES ASSUME TunnelInv PROVE PairOutlived
    OBVIOUS
  <2>1. \A c \in Pairs : pTD[c] = "deleted" =>
          sc[c] = "done" /\ (cs[c] = "done" \/ c \in X11 \cap joinedEarly)
    BY DEF TunnelInv, Finished, Joined, Pairs
  <2>2. \A c \in Pairs : tunnelSock[c] = "closed" => cs[c] = "done" \/ c \in joinedEarly
    BY DEF TunnelInv, Finished
  <2>3. \A c \in Pairs : channel[c] = "closed" =>
          cs[c] \in {None, "done"} \/ c \in joinedEarly \/ SecondHand(c)
    BY DEF TunnelInv, Finished, Made, Joined, Unmade
  <2> HIDE DEF SecondHand
  <2> QED BY <2>1, <2>2, <2>3 DEF PairOutlived
<1> QED BY <1>1, TunnelInvAlways, PTL

-----------------------------------------------------------------------------
(* The channel of the program. *)

Byte == Channels \X Int

SaidTypes == inbound \in [Channels -> Seq(Seq(Byte))] /\ said \in [Channels -> Nat]

\* Without a channel whose number is used once more, the program's own channel is
\* open or not yet open, and all that came for it is there.
Untouched ==
    channel[Other] = "closed" \/ Len(inbound[Other]) < said[Other] =>
      \E d \in Pairs : UsesAgain(d)

OtherInv == SaidTypes /\ Untouched

LEMMA BytesType ==
    ASSUME NEW c \in Channels, NEW n \in Nat
    PROVE  Bytes(c, n * PacketLen + 1, (n + 1) * PacketLen) \in Seq(Byte)
<1>1. /\ PacketLen \in Nat
      /\ (n + 1) * PacketLen - (n * PacketLen + 1) + 1 = PacketLen
      /\ n * PacketLen \in Nat
  BY TunnelAssumption
<1>2. \A m \in Nat : [k \in 1 .. PacketLen |-> <<c, m + 1 + k - 1>>] \in Seq(Byte)
  BY <1>1 DEF Byte
<1> QED BY <1>1, <1>2 DEF Bytes

\* A step that takes nothing from the queue of the program's channel.
LEMMA UntouchedStays ==
    ASSUME TunnelInv, OtherInv, Monotone, SaidTypes',
           channel'[Other] = "closed" => \/ channel[Other] = "closed"
                                         \/ \E d \in Pairs : UsesAgain(d)',
           Len(inbound'[Other]) - said'[Other] >= Len(inbound[Other]) - said[Other]
             \/ \E d \in Pairs : UsesAgain(d)
    PROVE  OtherInv'
<1>1. inbound[Other] \in Seq(Seq(Byte)) /\ inbound'[Other] \in Seq(Seq(Byte))
      /\ said[Other] \in Nat /\ said'[Other] \in Nat
  BY Constants DEF OtherInv, SaidTypes
<1>2. Len(inbound[Other]) \in Nat /\ Len(inbound'[Other]) \in Nat
  BY <1>1
<1>3. (\E d \in Pairs : UsesAgain(d)) => \E d \in Pairs : UsesAgain(d)'
  BY UsesAgainStays
<1>4. Untouched'
  BY <1>1, <1>2, <1>3 DEF OtherInv, Untouched
<1> QED BY <1>4 DEF OtherInv

\* Who closes the program's channel does it with a number it has no right to.
LEMMA OtherCloses ==
    ASSUME TunnelInv, Monotone, NEW c \in Pairs, Closes(c), UNCHANGED cNum,
           \/ sc[c] \notin {None, "done"} \/ (transport = "connect" /\ x11Pair = c)
           \/ sc'[c] = "done" /\ pTD'[c] = "deleted"
    PROVE  channel'[Other] = "closed" => \/ channel[Other] = "closed"
                                         \/ \E d \in Pairs : UsesAgain(d)'
<1> SUFFICES ASSUME channel'[Other] = "closed", channel[Other] # "closed"
             PROVE  \E d \in Pairs : UsesAgain(d)'
  OBVIOUS
<1>1. At(c) = Other /\ At(c) # None /\ At(c) # c
  BY ClosesNumbers, Constants
<1>2. channel[c] = "closed"
  BY <1>1, NotItsOwn
<1>3. channel'[c] = "closed"
  BY <1>2 DEF Monotone
<1>4. CASE sc'[c] = "done" /\ pTD'[c] = "deleted"
  BY <1>3, <1>4 DEF UsesAgain
<1>5. CASE sc[c] \notin {None, "done"} \/ (transport = "connect" /\ x11Pair = c)
  <2>1. sc[c] # "done"
    BY <1>5 DEF TunnelInv, Made, None
  <2>2. sc[c] # None \/ (transport = "connect" /\ x11Pair = c)
    BY <1>5
  <2>3. \E d \in Pairs : UsesAgain(d)
    BY <1>1, <2>1, <2>2, ItsOwner
  <2> QED BY <2>3, UsesAgainStays
<1> QED BY <1>4, <1>5

\* Who reads from it has lost its own channel.
LEMMA OtherRead ==
    ASSUME TunnelInv, NEW c \in Pairs, cs[c] = "read", At(c) = Other
    PROVE  \E d \in Pairs : UsesAgain(d)
<1>1. channel[c] = "closed"
  BY NotItsOwn, Constants
<1>2. CASE sc[c] = "done"
  BY <1>1, <1>2 DEF TunnelInv, Finished, Joined, UsesAgain
<1>3. CASE SecondHand(c)
  BY <1>3 DEF SecondHand
<1> QED BY <1>1, <1>2, <1>3 DEF TunnelInv, Finished, Made, Unmade, None

\* What the steps do to the queues of packets in, and to the counts of them.
LEMMA InboundMoves ==
    ASSUME TunnelInv, OtherInv, [Next]_vars
    PROVE  /\ SaidTypes'
           /\ Len(inbound'[Other]) - said'[Other] >= Len(inbound[Other]) - said[Other]
                \/ \E d \in Pairs : UsesAgain(d)
<1>0. inbound \in [Channels -> Seq(Seq(Byte))] /\ said \in [Channels -> Nat]
      /\ Len(inbound[Other]) \in Nat
  BY Constants DEF OtherInv, SaidTypes
<1>1. CASE UNCHANGED <<inbound, said>>
  BY <1>0, <1>1, Constants DEF SaidTypes
<1>2. CASE \E c \in Pairs : CsRead(c) /\ ~UNCHANGED <<inbound, said>>
  <2>1. PICK c \in Pairs : CsRead(c) /\ ~UNCHANGED <<inbound, said>>
    BY <1>2
  <2>2. /\ cs[c] = "read" /\ At(c) # None /\ inbound[At(c)] # <<>> /\ said' = said
        /\ inbound' = [inbound EXCEPT ![At(c)] = Tail(inbound[At(c)])]
    BY <2>1 DEF CsRead, Set
  <2>3. At(c) \in Channels
    BY <2>2, Constants DEF TunnelInv, Types, At
  <2>4. Tail(inbound[At(c)]) \in Seq(Seq(Byte))
    <3>1. inbound[At(c)] \in Seq(Seq(Byte))
      BY <1>0, <2>3
    <3> QED BY <2>2, <3>1
  <2>5. SaidTypes'
    BY <1>0, <2>2, <2>4 DEF SaidTypes
  <2>6. CASE At(c) = Other
    BY <2>2, <2>5, <2>6, OtherRead
  <2>7. CASE At(c) # Other
    BY <1>0, <2>2, <2>5, <2>7, Constants
  <2> QED BY <2>6, <2>7
<1>3. CASE \E c \in Channels : ServerSays(c)
  <2>1. PICK c \in Channels : ServerSays(c)
    BY <1>3
  <2> DEFINE b == Bytes(c, said[c] * PacketLen + 1, (said[c] + 1) * PacketLen)
  <2>2. b \in Seq(Byte)
    BY <1>0, BytesType
  <2>3. said' = [said EXCEPT ![c] = said[c] + 1]
        /\ inbound' = [inbound EXCEPT ![c] = Append(inbound[c], b)]
    BY <2>1 DEF ServerSays, Set
  <2> HIDE DEF b
  <2>4. /\ inbound[c] \in Seq(Seq(Byte)) /\ Append(inbound[c], b) \in Seq(Seq(Byte))
        /\ Len(Append(inbound[c], b)) = Len(inbound[c]) + 1
    BY <1>0, <2>2
  <2>5. SaidTypes'
    BY <1>0, <2>3, <2>4 DEF SaidTypes
  <2>6. CASE c = Other
    BY <1>0, <2>3, <2>4, <2>5, <2>6, Constants
  <2>7. CASE c # Other
    BY <1>0, <2>3, <2>5, <2>7, Constants
  <2> QED BY <2>6, <2>7
<1>4. \/ UNCHANGED <<inbound, said>>
      \/ \E c \in Pairs : CsRead(c)
      \/ \E c \in Channels : ServerSays(c)
  <2> USE DEF threadVars, scVars, csVars, channelVars, listenerVars, x11Vars, userVars, pairVars,
              socketVars, QuietPair, QuietChannel, OutsideUnchanged
  <2>1. ASSUME NEW c \in Pairs, socketToChannelThread(c) PROVE UNCHANGED <<inbound, said>>
    BY <2>1 DEF socketToChannelThread, ScLook, ScRecvData, ScRecvNothing, ScWrite, ScEnd, ScJoin,
       ScCloseSocket, ScCloseChannel, ScUnchanged
  <2>2. ASSUME NEW c \in Pairs, channelToSocketThread(c), ~CsRead(c)
        PROVE  UNCHANGED <<inbound, said>>
    BY <2>2 DEF channelToSocketThread, CsSend, CsSendFails, CsCheck
  <2>3. ASSUME Listener \/ TcpInit \/ TransportThread \/ \E c \in X11 : handleX11Connection(c)
        PROVE  UNCHANGED <<inbound, said>>
    BY <2>3 DEF Listener, ListenerLook, OpenChannel, ListenerSecond, ListenerRegister, TcpInit,
       TransportThread, X11Connect, X11Second, X11Register, handleX11Connection
  <2>4. ASSUME closeAutomaticDirectTCPIP \/ disconnect \/ UserSteps
        PROVE  UNCHANGED <<inbound, said>>
    BY <2>4 DEF closeAutomaticDirectTCPIP, disconnect, UserSteps, PopPair, JoinSocketToChannel,
       ClosePair, X11Pop, X11Shutdown, UserUnchanged, UserQuiet
  <2>5. ASSUME NEW c \in Pairs, \/ ProgramConnects(c) \/ ProgramSends(c) \/ ProgramReads(c)
                                \/ ProgramEnds(c) \/ ServerTakes(c) \/ ServerCloses(c)
        PROVE  UNCHANGED <<inbound, said>>
    BY <2>5 DEF ProgramConnects, ProgramSends, ProgramReads, ProgramEnds, ServerTakes, ServerCloses
  <2>6. ASSUME OtherOpens \/ UNCHANGED vars PROVE UNCHANGED <<inbound, said>>
    BY <2>6 DEF OtherOpens, vars
  <2> QED BY <2>1, <2>2, <2>3, <2>4, <2>5, <2>6, Constants DEF Next
<1> QED BY <1>1, <1>2, <1>3, <1>4

\* What the steps do to the program's channel.
LEMMA OtherMoves ==
    ASSUME TunnelInv, [Next]_vars, Monotone
    PROVE  channel'[Other] = "closed" => \/ channel[Other] = "closed"
                                         \/ \E d \in Pairs : UsesAgain(d)'
<1>1. CASE \E c \in Pairs : ScCloseChannel(c)
  <2>1. PICK c \in Pairs : ScCloseChannel(c)
    BY <1>1
  <2>2. sc[c] = "channel" /\ UNCHANGED cNum /\ closeChannel(c)
    BY <2>1 DEF ScCloseChannel
  <2>3. Closes(c)
    BY <2>2, Closing
  <2> QED BY <2>2, <2>3, OtherCloses DEF None
<1>2. CASE X11Connect
  <2>1. PICK c \in X11 : c = x11Pair
    BY <1>2 DEF X11Connect, TunnelInv, Made
  <2>2. CASE UNCHANGED channel
    BY <2>2
  <2>3. CASE ~UNCHANGED channel
    <3>1. transport = "connect" /\ x11Pair = c /\ UNCHANGED cNum /\ deleteChannel(c)
      BY <1>2, <2>1, <2>3 DEF X11Connect
    <3>2. c \in Pairs /\ Closes(c)
      BY <3>1, Closing, Constants
    <3> QED BY <3>1, <3>2, OtherCloses
  <2> QED BY <2>2, <2>3
<1>3. CASE ClosePair \/ X11Shutdown
  <2>1. victim \in Pairs /\ sc[victim] = "done"
    BY <1>3, Constants DEF ClosePair, X11Shutdown, TunnelInv, Finished
  <2>2. PICK c \in Pairs : c = victim
    BY <2>1
  <2>3. /\ sc'[c] = "done" /\ UNCHANGED cNum
        /\ closeChannel(c) \/ deleteChannel(c)
        /\ pTD' = [pTD EXCEPT ![c] = "deleted"]
    BY <1>3, <2>1, <2>2 DEF ClosePair, X11Shutdown, Set, UserUnchanged, scVars
  <2>4. Closes(c) /\ pTD'[c] = "deleted"
    BY <2>3, Closing DEF TunnelInv, Types
  <2> QED BY <2>3, <2>4, OtherCloses
<1>4. CASE \/ OtherOpens \/ OpenChannel
           \/ \E c \in X11 : handleX11Connection(c)
           \/ \E c \in Pairs : ServerCloses(c)
  <2>1. \/ UNCHANGED channel
        \/ \E c \in Channels, v \in {"open", "left"} : channel' = [channel EXCEPT ![c] = v]
    <3>1. CASE OtherOpens
      BY <3>1, Constants DEF OtherOpens, Set
    <3>2. CASE OpenChannel
      BY <3>2, Constants DEF OpenChannel, Set, TunnelInv, Made
    <3>3. CASE (\E c \in X11 : handleX11Connection(c)) \/ (\E d \in Pairs : ServerCloses(d))
      BY <3>3, Constants DEF handleX11Connection, ServerCloses, Set
    <3> QED BY <1>4, <3>1, <3>2, <3>3
  <2> QED BY <2>1, Constants DEF TunnelInv, Types
<1>5. CASE UNCHANGED channel
  BY <1>5
<1>6. \/ \E c \in Pairs : ScCloseChannel(c)
      \/ X11Connect \/ ClosePair \/ X11Shutdown
      \/ OtherOpens \/ OpenChannel \/ \E c \in X11 : handleX11Connection(c)
      \/ \E c \in Pairs : ServerCloses(c)
      \/ UNCHANGED channel
  <2> USE DEF threadVars, scVars, csVars, channelVars, listenerVars, x11Vars, userVars, pairVars,
              socketVars, QuietPair, QuietChannel, OutsideUnchanged
  <2>1. ASSUME NEW c \in Pairs, socketToChannelThread(c), ~ScCloseChannel(c)
        PROVE  UNCHANGED channel
    BY <2>1 DEF socketToChannelThread, ScLook, ScRecvData, ScRecvNothing, ScWrite, ScEnd, ScJoin,
       ScCloseSocket, ScUnchanged
  <2>2. ASSUME NEW c \in Pairs, channelToSocketThread(c) PROVE UNCHANGED channel
    BY <2>2 DEF channelToSocketThread, CsRead, CsSend, CsSendFails, CsCheck
  <2>3. ASSUME ListenerLook \/ ListenerSecond \/ ListenerRegister \/ TcpInit \/ X11Second \/ X11Register
        PROVE  UNCHANGED channel
    BY <2>3 DEF ListenerLook, ListenerSecond, ListenerRegister, TcpInit, X11Second, X11Register
  <2>4. ASSUME \/ closeAutomaticDirectTCPIP \/ disconnect \/ PopPair \/ JoinSocketToChannel \/ X11Pop
        PROVE  UNCHANGED channel
    BY <2>4 DEF closeAutomaticDirectTCPIP, disconnect, PopPair, JoinSocketToChannel, X11Pop,
       UserUnchanged, UserQuiet
  <2>5. ASSUME NEW c \in Pairs, \/ ProgramConnects(c) \/ ProgramSends(c) \/ ProgramReads(c)
                                \/ ProgramEnds(c) \/ ServerTakes(c)
        PROVE  UNCHANGED channel
    BY <2>5 DEF ProgramConnects, ProgramSends, ProgramReads, ProgramEnds, ServerTakes
  <2>6. ASSUME UNCHANGED vars \/ \E c \in Channels : ServerSays(c) PROVE UNCHANGED channel
    BY <2>6 DEF vars, ServerSays
  <2> QED BY <2>1, <2>2, <2>3, <2>4, <2>5, <2>6, Constants
          DEF Next, UserSteps, Listener, TransportThread
<1> QED BY <1>1, <1>2, <1>3, <1>4, <1>5, <1>6

LEMMA OtherInit == Init => OtherInv
<1> SUFFICES ASSUME Init PROVE OtherInv
  OBVIOUS
<1>1. inbound = [c \in Channels |-> <<>>] /\ said = [c \in Channels |-> 0]
      /\ channel[Other] = None
  BY Constants DEF Init
<1>2. <<>> \in Seq(Seq(Byte)) /\ Len(<<>>) = 0
  OBVIOUS
<1>3. SaidTypes /\ Len(inbound[Other]) = 0 /\ said[Other] = 0
  BY <1>1, <1>2, Constants DEF SaidTypes
<1> QED BY <1>1, <1>3 DEF OtherInv, Untouched, None

\* Nobody closes the program's own channel or reads from it, unless its number was that
\* of a pair that is done and closes it once more in the shutdown, or whose second
\* thread still reads (ClosePair, X11Shutdown, CsRead).
THEOREM OtherKeptAlways == Spec => []OtherKept
<1>1. TunnelInv /\ OtherInv /\ [Next]_vars => OtherInv'
  <2> SUFFICES ASSUME TunnelInv, OtherInv, [Next]_vars PROVE OtherInv'
    OBVIOUS
  <2>1. Monotone
    BY TunnelNext
  <2>2. channel'[Other] = "closed" => \/ channel[Other] = "closed"
                                      \/ \E d \in Pairs : UsesAgain(d)'
    BY <2>1, OtherMoves
  <2>3. SaidTypes' /\ \/ Len(inbound'[Other]) - said'[Other] >= Len(inbound[Other]) - said[Other]
                      \/ \E d \in Pairs : UsesAgain(d)
    BY InboundMoves
  <2> HIDE DEF UsesAgain, Monotone, SaidTypes, OtherInv
  <2> QED BY <2>1, <2>2, <2>3, UntouchedStays
<1>2. OtherInv => OtherKept
  BY DEF OtherInv, Untouched, OtherKept
<1> QED BY <1>1, <1>2, OtherInit, TunnelInvAlways, PTL DEF Spec

-----------------------------------------------------------------------------
(* What FlattenSeq does to a queue. *)

Pieces(f, s, n) ==
    /\ DOMAIN f = 1 .. n
    /\ \A i \in 1 .. n : f[i] = IF i = 1 THEN s[i] ELSE f[i - 1] \o s[i]

LEMMA PiecesExist ==
    ASSUME NEW s, NEW n \in Nat
    PROVE  \E f : Pieces(f, s, n)
<1> DEFINE T == {k \in Nat : \E f : Pieces(f, s, k)}
<1>1. 0 \in T
  <2>1. Pieces([i \in 1 .. 0 |-> <<>>], s, 0)
    BY DEF Pieces
  <2> QED BY <2>1
<1>2. ASSUME NEW k \in Nat, k \in T PROVE k + 1 \in T
  <2>1. PICK f : Pieces(f, s, k)
    BY <1>2
  <2> DEFINE g == [i \in 1 .. k + 1 |->
                     IF i <= k THEN f[i] ELSE IF i = 1 THEN s[i] ELSE f[i - 1] \o s[i]]
  <2>2. ASSUME NEW i \in 1 .. k + 1
        PROVE  g[i] = IF i = 1 THEN s[i] ELSE g[i - 1] \o s[i]
    <3>1. i # 1 => i - 1 \in 1 .. k /\ g[i - 1] = f[i - 1]
      OBVIOUS
    <3>2. CASE i <= k
      <4>1. i \in 1 .. k /\ g[i] = f[i]
        BY <3>2
      <4> HIDE DEF g
      <4> QED BY <2>1, <3>1, <4>1 DEF Pieces
    <3>3. CASE ~(i <= k)
      <4>1. g[i] = IF i = 1 THEN s[i] ELSE f[i - 1] \o s[i]
        BY <3>3
      <4> HIDE DEF g
      <4> QED BY <3>1, <4>1
    <3> QED BY <3>2, <3>3
  <2>3. Pieces(g, s, k + 1)
    BY <2>2 DEF Pieces
  <2> QED BY <2>3
<1> HIDE DEF T
<1>3. Nat \subseteq T
  BY <1>1, <1>2, NatSetInduction
<1> QED BY <1>3 DEF T

LEMMA FlattenDef ==
    ASSUME NEW X, NEW s \in Seq(Seq(X)), s # <<>>
    PROVE  \E f : Pieces(f, s, Len(s)) /\ FlattenSeq(s) = f[Len(s)]
<1> DEFINE Is(f) == f = [i \in 1 .. Len(s) |-> IF i = 1 THEN s[i] ELSE f[i - 1] \o s[i]]
<1> DEFINE flatten == CHOOSE f : Is(f)
<1>0. Len(s) \in Nat /\ Len(s) # 0
  OBVIOUS
<1>1. ASSUME NEW f, Pieces(f, s, Len(s)) PROVE \E g : Is(g)
  <2> DEFINE g == [i \in 1 .. Len(s) |-> f[i]]
  <2>1. ASSUME NEW i \in 1 .. Len(s) PROVE g[i] = IF i = 1 THEN s[i] ELSE g[i - 1] \o s[i]
    <3>1. g[i] = f[i] /\ (i # 1 => g[i - 1] = f[i - 1])
      BY <1>0
    <3> HIDE DEF g
    <3> QED BY <1>1, <3>1 DEF Pieces
  <2>2. Is(g)
    BY <2>1
  <2> QED BY <2>2
<1>2. \E f : Is(f)
  BY PiecesExist, <1>0, <1>1
<1>3. Is(flatten)
  BY <1>2, Zenon
<1>4. FlattenSeq(s) = flatten[Len(s)]
  BY <1>0, Zenon DEF FlattenSeq
<1> HIDE DEF flatten
<1>5. Pieces(flatten, s, Len(s))
  <2>1. DOMAIN flatten = 1 .. Len(s)
    BY <1>3
  <2>2. \A i \in 1 .. Len(s) : flatten[i] = IF i = 1 THEN s[i] ELSE flatten[i - 1] \o s[i]
    BY <1>3
  <2> QED BY <2>1, <2>2 DEF Pieces
<1> QED BY <1>4, <1>5

Agree(s, t, n) == \A i \in 1 .. n : s[i] = t[i]

LEMMA PiecesAgree ==
    ASSUME NEW s, NEW t, NEW n \in Nat, NEW f, NEW g,
           Pieces(f, s, n), Pieces(g, t, n + 1), Agree(s, t, n)
    PROVE  Agree(f, g, n)
<1> DEFINE T == {j \in Nat : j \in 1 .. n => f[j] = g[j]}
<1>1. 0 \in T
  OBVIOUS
<1>2. ASSUME NEW j \in Nat, j \in T PROVE j + 1 \in T
  <2> SUFFICES ASSUME j + 1 \in 1 .. n PROVE f[j + 1] = g[j + 1]
    OBVIOUS
  <2>1. j + 1 \in 1 .. n + 1 /\ (j + 1) - 1 = j /\ s[j + 1] = t[j + 1]
    BY DEF Agree
  <2>2. j + 1 # 1 => f[j] = g[j]
    BY <1>2
  <2>3. /\ f[j + 1] = IF j + 1 = 1 THEN s[j + 1] ELSE f[j] \o s[j + 1]
        /\ g[j + 1] = IF j + 1 = 1 THEN t[j + 1] ELSE g[j] \o t[j + 1]
    BY <2>1 DEF Pieces
  <2> QED BY <2>1, <2>2, <2>3
<1> HIDE DEF T
<1>3. Nat \subseteq T
  BY <1>1, <1>2, NatSetInduction
<1> QED BY <1>3 DEF T, Agree

LEMMA FlattenEmpty == FlattenSeq(<<>>) = <<>>
  BY DEF FlattenSeq

LEMMA FlattenAppendRaw ==
    ASSUME NEW X, NEW s \in Seq(Seq(X)), NEW x \in Seq(X)
    PROVE  FlattenSeq(Append(s, x)) = IF s = <<>> THEN x ELSE FlattenSeq(s) \o x
<1> DEFINE t == Append(s, x)
           n == Len(s)
<1>1. /\ n \in Nat /\ t \in Seq(Seq(X)) /\ t # <<>> /\ Len(t) = n + 1 /\ t[n + 1] = x
      /\ \A i \in 1 .. n : t[i] = s[i]
      /\ s = <<>> <=> n = 0
  <2>1. n \in Nat /\ t \in Seq(Seq(X))
    OBVIOUS
  <2>2. Len(t) = n + 1 /\ t[n + 1] = x /\ \A i \in 1 .. n : t[i] = s[i]
    OBVIOUS
  <2>3. s = <<>> <=> n = 0
    BY EmptySeq
  <2>4. t # <<>>
    BY AppendProperties
  <2> QED BY <2>1, <2>2, <2>3, <2>4
<1> HIDE DEF t, n
<1>2. PICK g : Pieces(g, t, n + 1) /\ FlattenSeq(t) = g[n + 1]
  BY <1>1, FlattenDef
<1>3. g[n + 1] = IF n + 1 = 1 THEN x ELSE g[n] \o x
  <2>1. n + 1 \in 1 .. n + 1 /\ (n + 1) - 1 = n
    BY <1>1
  <2> QED BY <1>1, <1>2, <2>1 DEF Pieces
<1>4. CASE s = <<>>
  BY <1>1, <1>2, <1>3, <1>4 DEF t
<1>5. CASE s # <<>>
  <2>1. PICK f : Pieces(f, s, n) /\ FlattenSeq(s) = f[n]
    BY <1>5, FlattenDef DEF n
  <2>2. n <= n + 1 /\ n <= n /\ n + 1 \in Nat /\ n \in 1 .. n /\ n + 1 # 1
    BY <1>1, <1>5
  <2>3. f[n] = g[n]
    <3>1. Agree(s, t, n)
      BY <1>1 DEF Agree
    <3>2. Pieces(f, s, n) /\ Pieces(g, t, n + 1) /\ n \in Nat
      BY <1>1, <1>2, <2>1
    <3>3. Agree(f, g, n)
      BY <3>1, <3>2, PiecesAgree
    <3> QED BY <2>2, <3>3 DEF Agree
  <2> QED BY <1>2, <1>3, <1>5, <2>1, <2>2, <2>3 DEF t
<1> QED BY <1>4, <1>5

LEMMA FlattenType ==
    ASSUME NEW X, NEW s \in Seq(Seq(X))
    PROVE  FlattenSeq(s) \in Seq(X)
<1> DEFINE T == {r \in Seq(Seq(X)) : FlattenSeq(r) \in Seq(X)}
<1>1. <<>> \in T
  <2>1. <<>> \in Seq(Seq(X)) /\ <<>> \in Seq(X)
    OBVIOUS
  <2> QED BY <2>1, FlattenEmpty
<1>2. ASSUME NEW r \in Seq(Seq(X)), NEW x \in Seq(X), r \in T PROVE Append(r, x) \in T
  <2>1. FlattenSeq(Append(r, x)) = IF r = <<>> THEN x ELSE FlattenSeq(r) \o x
    BY FlattenAppendRaw
  <2>2. FlattenSeq(r) \in Seq(X)
    BY <1>2
  <2>3. FlattenSeq(r) \o x \in Seq(X)
    BY <2>2
  <2>4. Append(r, x) \in Seq(Seq(X))
    OBVIOUS
  <2> QED BY <2>1, <2>3, <2>4
<1> HIDE DEF T
<1>3. Seq(Seq(X)) \subseteq T
  BY <1>1, <1>2, SeqSetInduction
<1> QED BY <1>3 DEF T

LEMMA FlattenAppend ==
    ASSUME NEW X, NEW s \in Seq(Seq(X)), NEW x \in Seq(X)
    PROVE  FlattenSeq(Append(s, x)) = FlattenSeq(s) \o x
<1>1. <<>> \o x = x
  OBVIOUS
<1>2. FlattenSeq(Append(s, x)) = IF s = <<>> THEN x ELSE FlattenSeq(s) \o x
  BY FlattenAppendRaw
<1> QED BY <1>1, <1>2, FlattenEmpty

LEMMA FlattenPrepend ==
    ASSUME NEW X, NEW x \in Seq(X), NEW s \in Seq(Seq(X))
    PROVE  FlattenSeq(<<x>> \o s) = x \o FlattenSeq(s)
<1> DEFINE T == {r \in Seq(Seq(X)) : FlattenSeq(<<x>> \o r) = x \o FlattenSeq(r)}
<1>1. <<>> \in T
  <2>1. <<x>> \o <<>> = Append(<<>>, x) /\ x \o <<>> = x /\ <<>> \o x = x
    OBVIOUS
  <2>2. <<>> \in Seq(Seq(X))
    OBVIOUS
  <2>3. FlattenSeq(Append(<<>>, x)) = FlattenSeq(<<>>) \o x
    BY <2>2, FlattenAppend
  <2> QED BY <2>1, <2>2, <2>3, FlattenEmpty
<1>2. ASSUME NEW r \in Seq(Seq(X)), NEW y \in Seq(X), r \in T PROVE Append(r, y) \in T
  <2>1. /\ <<x>> \o r \in Seq(Seq(X)) /\ Append(r, y) \in Seq(Seq(X))
        /\ <<x>> \o Append(r, y) = Append(<<x>> \o r, y)
    <3> DEFINE S == Seq(X)
               u == <<x>>
    <3>1. u \in Seq(S) /\ r \in Seq(S) /\ y \in S
      OBVIOUS
    <3> HIDE DEF S, u
    <3>2. u \o r \in Seq(S) /\ Append(r, y) \in Seq(S) /\ u \o Append(r, y) = Append(u \o r, y)
      BY ONLY <3>1, SMTT(30)
    <3> QED BY <3>2 DEF S, u
  <2>2. FlattenSeq(<<x>> \o Append(r, y)) = FlattenSeq(<<x>> \o r) \o y
    BY <2>1, FlattenAppend
  <2>3. FlattenSeq(Append(r, y)) = FlattenSeq(r) \o y
    BY FlattenAppend
  <2>4. FlattenSeq(<<x>> \o r) = x \o FlattenSeq(r) /\ FlattenSeq(r) \in Seq(X)
    BY <1>2, FlattenType
  <2>5. \A b \in Seq(X) : (x \o b) \o y = x \o (b \o y)
    OBVIOUS
  <2> QED BY <2>1, <2>2, <2>3, <2>4, <2>5
<1> HIDE DEF T
<1>3. Seq(Seq(X)) \subseteq T
  BY <1>1, <1>2, SeqSetInduction
<1> QED BY <1>3 DEF T

LEMMA FlattenHead ==
    ASSUME NEW X, NEW s \in Seq(Seq(X)), s # <<>>
    PROVE  FlattenSeq(s) = Head(s) \o FlattenSeq(Tail(s))
<1>1. Head(s) \in Seq(X) /\ Tail(s) \in Seq(Seq(X)) /\ s = <<Head(s)>> \o Tail(s)
  OBVIOUS
<1>2. FlattenSeq(<<Head(s)>> \o Tail(s)) = Head(s) \o FlattenSeq(Tail(s))
  BY <1>1, FlattenPrepend
<1> QED BY <1>1, <1>2

-----------------------------------------------------------------------------
(* Bytes and prefixes. *)

LEMMA TapeType ==
    ASSUME NEW c \in Channels, NEW m \in Nat, NEW n \in Nat
    PROVE  /\ Bytes(c, m + 1, m + n) \in Seq(Byte) /\ Len(Bytes(c, m + 1, m + n)) = n
           /\ \A k \in 1 .. n : Bytes(c, m + 1, m + n)[k] = <<c, m + k>>
<1> DEFINE b == [k \in 1 .. n |-> <<c, m + k>>]
<1>1. (m + n) - (m + 1) + 1 = n /\ \A k \in 1 .. n : (m + 1) + k - 1 = m + k
  OBVIOUS
<1>2. Bytes(c, m + 1, m + n) = b
  BY <1>1 DEF Bytes
<1>3. b \in Seq(Byte) /\ Len(b) = n
  BY DEF Byte
<1>4. \A k \in 1 .. n : b[k] = <<c, m + k>>
  OBVIOUS
<1> HIDE DEF b
<1> QED BY <1>2, <1>3, <1>4

Tape(c, n) == Bytes(c, 1, n)

LEMMA TapeIs ==
    ASSUME NEW c \in Channels, NEW n \in Nat
    PROVE  /\ Tape(c, n) \in Seq(Byte) /\ Len(Tape(c, n)) = n
           /\ \A k \in 1 .. n : Tape(c, n)[k] = <<c, k>>
<1>1. Tape(c, n) = Bytes(c, 0 + 1, 0 + n)
  BY DEF Tape
<1>2. \A k \in 1 .. n : 0 + k = k
  OBVIOUS
<1> QED BY <1>1, <1>2, TapeType

LEMMA TapeGrows ==
    ASSUME NEW c \in Channels, NEW m \in Nat, NEW n \in Nat
    PROVE  Tape(c, m + n) = Tape(c, m) \o Bytes(c, m + 1, m + n)
<1> DEFINE a == Tape(c, m)
           b == Bytes(c, m + 1, m + n)
           t == Tape(c, m + n)
<1>1. /\ a \in Seq(Byte) /\ Len(a) = m /\ \A k \in 1 .. m : a[k] = <<c, k>>
      /\ b \in Seq(Byte) /\ Len(b) = n /\ \A k \in 1 .. n : b[k] = <<c, m + k>>
      /\ m + n \in Nat
  <2>1. a \in Seq(Byte) /\ Len(a) = m /\ \A k \in 1 .. m : a[k] = <<c, k>>
    BY TapeIs
  <2>2. b \in Seq(Byte) /\ Len(b) = n /\ \A k \in 1 .. n : b[k] = <<c, m + k>>
    BY TapeType
  <2> HIDE DEF a, b
  <2> QED BY <2>1, <2>2
<1>2. t \in Seq(Byte) /\ Len(t) = m + n /\ \A k \in 1 .. m + n : t[k] = <<c, k>>
  BY <1>1, TapeIs
<1> HIDE DEF a, b, t
<1>3. /\ a \o b \in Seq(Byte) /\ Len(a \o b) = m + n
      /\ \A k \in 1 .. m : (a \o b)[k] = a[k]
      /\ \A k \in m + 1 .. m + n : (a \o b)[k] = b[k - m]
  <2>1. a \in Seq(Byte) /\ Len(a) = m /\ b \in Seq(Byte) /\ Len(b) = n
    BY <1>1
  <2> QED BY <2>1
<1>4. ASSUME NEW k \in 1 .. m + n PROVE t[k] = (a \o b)[k]
  <2>1. CASE k \in 1 .. m
    BY <1>1, <1>2, <1>3, <2>1
  <2>2. CASE k \notin 1 .. m
    <3>1. k \in m + 1 .. m + n /\ k - m \in 1 .. n /\ m + (k - m) = k
      BY <2>2
    <3>2. b[k - m] = <<c, k>>
      BY <1>1, <3>1
    <3> QED BY <1>2, <1>3, <3>1, <3>2
  <2> QED BY <2>1, <2>2
<1>5. t = a \o b
  BY <1>2, <1>3, <1>4, SeqEqual
<1> QED BY <1>5 DEF a, b, t

LEMMA Joining ==
    ASSUME NEW a \in Seq(Byte), NEW b \in Seq(Byte), NEW c \in Seq(Byte)
    PROVE  a \o b \in Seq(Byte) /\ b \o c \in Seq(Byte) /\ (a \o b) \o c = a \o (b \o c)
  OBVIOUS

LEMMA PrefixConcat ==
    ASSUME NEW s \in Seq(Byte), NEW t \in Seq(Byte)
    PROVE  IsPrefix(s, s \o t)
<1>1. /\ s \o t \in Seq(Byte) /\ Len(s) \in Nat /\ Len(t) \in Nat
      /\ Len(s \o t) = Len(s) + Len(t)
      /\ \A i \in 1 .. Len(s) : (s \o t)[i] = s[i]
  OBVIOUS
<1>2. SubSeq(s, 1, Len(s)) = SubSeq(s \o t, 1, Len(s))
  <2>1. SubSeq(s, 1, Len(s)) = s
    OBVIOUS
  <2>2. SubSeq(s \o t, 1, Len(s)) = s
    OBVIOUS
  <2> QED BY <2>1, <2>2
<1> QED BY <1>1, <1>2 DEF IsPrefix

LEMMA PrefixMore ==
    ASSUME NEW s \in Seq(Byte), NEW t \in Seq(Byte), NEW u \in Seq(Byte), IsPrefix(s, t)
    PROVE  IsPrefix(s, t \o u)
<1> DEFINE n == Len(s)
<1>1. /\ n \in Nat /\ n <= Len(t) /\ Len(t) \in Nat /\ Len(u) \in Nat
      /\ SubSeq(s, 1, n) = SubSeq(t, 1, n)
  BY DEF IsPrefix
<1>2. Len(t \o u) = Len(t) + Len(u) /\ t \o u \in Seq(Byte)
      /\ \A i \in 1 .. Len(t) : (t \o u)[i] = t[i]
  OBVIOUS
<1>3. SubSeq(t, 1, n) = SubSeq(t \o u, 1, n)
  BY <1>1, <1>2
<1> QED BY <1>1, <1>2, <1>3 DEF IsPrefix

-----------------------------------------------------------------------------
(* The bytes on their way. *)

ByteTypes ==
    /\ sBuf \in [Pairs -> Seq(Byte)] /\ socketIn \in [Pairs -> Seq(Byte)]
    /\ bytes \in [Pairs -> Seq(Byte)] /\ socketOut \in [Pairs -> Seq(Byte)]
    /\ queue \in [Channels -> Seq(Seq(Byte))] /\ toServer \in [Channels -> Seq(Byte)]
    /\ inbound \in [Channels -> Seq(Seq(Byte))] /\ said \in [Channels -> Nat]
    /\ sent \in [Pairs -> Nat] /\ read \in [Pairs -> Nat]

\* A thread that is not about to write or send holds nothing.
Buffers ==
    \A c \in Pairs : /\ sc[c] # "write" => sBuf[c] = <<>>
                     /\ cs[c] # "send" => bytes[c] = <<>>

Way(c) == toServer[c] \o FlattenSeq(queue[c])

UpOf(c) ==
    IF channel[c] # "closed"
    THEN (Way(c) \o sBuf[c]) \o socketIn[c] = Tape(c, sent[c])
    ELSE IsPrefix(Way(c), Tape(c, sent[c]))

DownOf(c) ==
    IF cs[c] # "done"
    THEN (socketOut[c] \o bytes[c]) \o FlattenSeq(inbound[c]) = Tape(c, said[c] * PacketLen)
    ELSE IsPrefix(socketOut[c], Tape(c, said[c] * PacketLen))

Exempt(c) == Stray(c) \/ SecondHand(c)

ByteInv ==
    /\ ByteTypes /\ Buffers
    /\ \A c \in Pairs : ~SecondHand(c) => UpOf(c)
    /\ \A c \in Pairs : ~Exempt(c) => DownOf(c)

LEMMA StillSecondHand ==
    ASSUME TunnelInv, Monotone, NEW c \in Pairs, SecondHand(c)
    PROVE  SecondHand(c)'
<1>1. PICK d \in Pairs : cNum[d] = cNum[c] /\ UsesAgain(d)
  BY DEF SecondHand
<1>2. channel[c] # None
  BY <1>1 DEF TunnelInv, Numbers, UsesAgain, None
<1> QED BY <1>2, SecondHandsStay

LEMMA StillExempt ==
    ASSUME TunnelInv, Monotone, NEW c \in Pairs, Exempt(c)
    PROVE  Exempt(c)'
  BY StillSecondHand DEF Exempt, Stray, Monotone

LEMMA ByteTypesOf ==
    ASSUME ByteTypes, NEW c \in Pairs
    PROVE  /\ sBuf[c] \in Seq(Byte) /\ socketIn[c] \in Seq(Byte)
           /\ bytes[c] \in Seq(Byte) /\ socketOut[c] \in Seq(Byte)
           /\ queue[c] \in Seq(Seq(Byte)) /\ toServer[c] \in Seq(Byte)
           /\ inbound[c] \in Seq(Seq(Byte)) /\ said[c] \in Nat /\ sent[c] \in Nat
           /\ said[c] * PacketLen \in Nat
           /\ FlattenSeq(queue[c]) \in Seq(Byte) /\ FlattenSeq(inbound[c]) \in Seq(Byte)
           /\ Way(c) \in Seq(Byte)
           /\ Tape(c, sent[c]) \in Seq(Byte) /\ Tape(c, said[c] * PacketLen) \in Seq(Byte)
<1>1. /\ sBuf[c] \in Seq(Byte) /\ socketIn[c] \in Seq(Byte)
      /\ bytes[c] \in Seq(Byte) /\ socketOut[c] \in Seq(Byte)
      /\ queue[c] \in Seq(Seq(Byte)) /\ toServer[c] \in Seq(Byte)
      /\ inbound[c] \in Seq(Seq(Byte)) /\ said[c] \in Nat /\ sent[c] \in Nat
      /\ c \in Channels
  <2>1. c \in Channels
    BY Constants
  <2>2. sBuf[c] \in Seq(Byte) /\ socketIn[c] \in Seq(Byte)
        /\ bytes[c] \in Seq(Byte) /\ socketOut[c] \in Seq(Byte) /\ sent[c] \in Nat
    BY DEF ByteTypes
  <2>3. /\ queue[c] \in Seq(Seq(Byte)) /\ toServer[c] \in Seq(Byte)
        /\ inbound[c] \in Seq(Seq(Byte)) /\ said[c] \in Nat
    BY <2>1 DEF ByteTypes
  <2> QED BY <2>1, <2>2, <2>3
<1>2. said[c] * PacketLen \in Nat
  <2>1. \A m, n \in Nat : m * n \in Nat
    OBVIOUS
  <2>2. said[c] \in Nat /\ PacketLen \in Nat
    BY <1>1, TunnelAssumption
  <2> QED BY <2>1, <2>2
<1>3. FlattenSeq(queue[c]) \in Seq(Byte) /\ FlattenSeq(inbound[c]) \in Seq(Byte)
  BY <1>1, FlattenType
<1>4. Way(c) \in Seq(Byte)
  BY <1>1, <1>3 DEF Way
<1>5. Tape(c, sent[c]) \in Seq(Byte) /\ Tape(c, said[c] * PacketLen) \in Seq(Byte)
  BY <1>1, <1>2, TapeIs
<1> QED BY <1>1, <1>2, <1>3, <1>4, <1>5

\* What is left of the equations when the rest is lost.
LEMMA UpPrefix ==
    ASSUME ByteTypes, NEW c \in Pairs, UpOf(c)
    PROVE  IsPrefix(Way(c), Tape(c, sent[c]))
<1>1. /\ Way(c) \in Seq(Byte) /\ sBuf[c] \in Seq(Byte) /\ socketIn[c] \in Seq(Byte)
  BY ByteTypesOf
<1>2. sBuf[c] \o socketIn[c] \in Seq(Byte)
      /\ (Way(c) \o sBuf[c]) \o socketIn[c] = Way(c) \o (sBuf[c] \o socketIn[c])
  BY <1>1, Joining, ZenonT(40)
<1>3. IsPrefix(Way(c), Way(c) \o (sBuf[c] \o socketIn[c]))
  BY <1>1, <1>2, PrefixConcat
<1> QED BY <1>2, <1>3 DEF UpOf

LEMMA DownPrefix ==
    ASSUME ByteTypes, NEW c \in Pairs, DownOf(c)
    PROVE  IsPrefix(socketOut[c], Tape(c, said[c] * PacketLen))
<1> DEFINE f == FlattenSeq(inbound[c])
<1>1. /\ socketOut[c] \in Seq(Byte) /\ bytes[c] \in Seq(Byte) /\ f \in Seq(Byte)
  BY ByteTypesOf
<1> HIDE DEF f
<1>2. bytes[c] \o f \in Seq(Byte)
      /\ (socketOut[c] \o bytes[c]) \o f = socketOut[c] \o (bytes[c] \o f)
  BY <1>1, Joining, ZenonT(40)
<1>3. IsPrefix(socketOut[c], socketOut[c] \o (bytes[c] \o f))
  BY <1>1, <1>2, PrefixConcat
<1> QED BY <1>2, <1>3 DEF DownOf, f

\* A step that changes nothing of what a pair has on its way.
LEMMA UpSame ==
    ASSUME TunnelInv, ByteInv, Monotone, NEW c \in Pairs, ~SecondHand(c)',
           Way(c)' = Way(c), sBuf'[c] = sBuf[c],
           socketIn'[c] = socketIn[c], sent'[c] = sent[c]
    PROVE  UpOf(c)'
<1>1. UpOf(c)
  BY StillSecondHand DEF ByteInv
<1>2. IsPrefix(Way(c), Tape(c, sent[c]))
  BY <1>1, UpPrefix DEF ByteInv
<1>3. channel[c] = "closed" => channel'[c] = "closed"
  BY DEF Monotone
<1> QED BY <1>1, <1>2, <1>3 DEF UpOf

LEMMA DownSame ==
    ASSUME TunnelInv, ByteInv, Monotone, NEW c \in Pairs, ~Exempt(c)',
           cs[c] = "done" => cs'[c] = "done",
           socketOut'[c] = socketOut[c], bytes'[c] = bytes[c], inbound'[c] = inbound[c],
           said'[c] = said[c]
    PROVE  DownOf(c)'
<1>1. DownOf(c)
  BY StillExempt DEF ByteInv
<1>2. IsPrefix(socketOut[c], Tape(c, said[c] * PacketLen))
  BY <1>1, DownPrefix DEF ByteInv
<1> QED BY <1>1, <1>2 DEF DownOf

upVars == <<sBuf, socketIn, queue, toServer, sent>>
downVars == <<bytes, socketOut, inbound, said>>

\* Steps of the threads that write and send nothing.
StaysBusy ==
    \A c \in Pairs : /\ sc[c] = "write" <=> sc'[c] = "write"
                     /\ cs[c] = "send" <=> cs'[c] = "send"
                     /\ cs[c] = "done" => cs'[c] = "done"

LEMMA QuietSteps ==
    ASSUME TunnelInv, ByteInv, Monotone, UNCHANGED <<upVars, downVars>>, StaysBusy,
           read' \in [Pairs -> Nat]
    PROVE  ByteInv'
<1>1. ByteTypes'
  BY DEF ByteInv, ByteTypes, upVars, downVars
<1>2. Buffers'
  BY DEF ByteInv, Buffers, upVars, downVars, StaysBusy
<1>3. \A c \in Pairs : ~SecondHand(c)' => UpOf(c)'
  BY UpSame DEF upVars, Way
<1>4. \A c \in Pairs : ~Exempt(c)' => DownOf(c)'
  BY DownSame DEF downVars, StaysBusy
<1> QED BY <1>1, <1>2, <1>3, <1>4 DEF ByteInv

-----------------------------------------------------------------------------
(* The steps that move bytes up. *)

\* A step up leaves what is on its way down.
LEMMA DownAllSame ==
    ASSUME TunnelInv, ByteInv, Monotone, UNCHANGED <<downVars, cs>>
    PROVE  /\ \A c \in Pairs : ~Exempt(c)' => DownOf(c)'
           /\ \A c \in Pairs : cs'[c] # "send" => bytes'[c] = <<>>
  BY DownSame DEF downVars, ByteInv, Buffers

LEMMA Receives ==
    ASSUME TunnelInv, ByteInv, Monotone, NEW c \in Pairs, ScRecvData(c)
    PROVE  ByteInv'
<1> DEFINE n == Min({BufLen, Len(socketIn[c])})
           a == SubSeq(socketIn[c], 1, n)
           b == SubSeq(socketIn[c], n + 1, Len(socketIn[c]))
<1>1. /\ sc[c] = "recv" /\ sc' = [sc EXCEPT ![c] = "write"]
      /\ sBuf' = [sBuf EXCEPT ![c] = a] /\ socketIn' = [socketIn EXCEPT ![c] = b]
      /\ UNCHANGED <<queue, toServer, sent, read, downVars, cs>>
  BY DEF ScRecvData, Set, channelVars, ScUnchanged, csVars, programVars, downVars
<1>2. /\ socketIn[c] \in Seq(Byte) /\ sBuf[c] = <<>> /\ Len(socketIn[c]) \in Nat
      /\ Len(socketIn[c]) # 0 /\ socketIn \in [Pairs -> Seq(Byte)] /\ sBuf \in [Pairs -> Seq(Byte)]
      /\ sc \in [Pairs -> {None, "look", "recv", "write", "end", "join", "close",
                           "channel", "done"}]
  <2>1. socketIn[c] \in Seq(Byte) /\ sBuf[c] = <<>>
        /\ socketIn \in [Pairs -> Seq(Byte)] /\ sBuf \in [Pairs -> Seq(Byte)]
    BY <1>1 DEF ByteInv, ByteTypes, Buffers
  <2>2. socketIn[c] # <<>>
    BY DEF ScRecvData, HasData
  <2> QED BY <2>1, <2>2, EmptySeq DEF TunnelInv, Types
<1>3. n \in 1 .. Len(socketIn[c])
  <2>1. \A x, y \in Nat \ {0} : Min({x, y}) \in {x, y} /\ Min({x, y}) <= y
    BY DEF Min
  <2>2. BufLen \in Nat \ {0} /\ Len(socketIn[c]) \in Nat \ {0}
    BY <1>2, TunnelAssumption
  <2>3. n \in {BufLen, Len(socketIn[c])} /\ n <= Len(socketIn[c])
    BY <2>1, <2>2
  <2> HIDE DEF n
  <2> QED BY <2>2, <2>3
<1> HIDE DEF n
<1>4. a \in Seq(Byte) /\ b \in Seq(Byte) /\ socketIn[c] = a \o b
  <2>1. \A s \in Seq(Byte) : \A k \in 1 .. Len(s) :
          /\ SubSeq(s, 1, k) \in Seq(Byte) /\ SubSeq(s, k + 1, Len(s)) \in Seq(Byte)
          /\ s = SubSeq(s, 1, k) \o SubSeq(s, k + 1, Len(s))
    OBVIOUS
  <2> QED BY <1>2, <1>3, <2>1
<1> HIDE DEF a, b
<1>5. ByteTypes'
  BY <1>1, <1>2, <1>4 DEF ByteInv, ByteTypes, downVars
<1>6. \A d \in Pairs : sc'[d] # "write" => sBuf'[d] = <<>>
  BY <1>1, <1>2 DEF ByteInv, Buffers
<1>7. ASSUME NEW d \in Pairs, ~SecondHand(d)' PROVE UpOf(d)'
  <2>1. CASE d # c
    BY <1>1, <1>2, <1>7, <2>1, UpSame DEF Way
  <2>2. CASE d = c
    <3>1. UpOf(c)
      BY <1>7, <2>2, StillSecondHand DEF ByteInv
    <3>2. Way(c)' = Way(c) /\ sBuf'[c] = a /\ socketIn'[c] = b /\ sent'[c] = sent[c]
      BY <1>1, <1>2 DEF Way
    <3>3. Way(c) \in Seq(Byte)
      BY ByteTypesOf DEF ByteInv
    <3>4. (Way(c) \o <<>>) \o (a \o b) = (Way(c) \o a) \o b
      BY <1>4, <3>3, Joining
    <3>5. channel[c] # "closed" => (Way(c) \o a) \o b = Tape(c, sent[c])
      BY <1>2, <1>4, <3>1, <3>4 DEF UpOf
    <3>6. IsPrefix(Way(c), Tape(c, sent[c]))
      BY <3>1, UpPrefix DEF ByteInv
    <3>7. channel[c] = "closed" => channel'[c] = "closed"
      BY DEF Monotone
    <3> QED BY <2>2, <3>2, <3>5, <3>6, <3>7 DEF UpOf
  <2> QED BY <2>1, <2>2
<1> QED BY <1>1, <1>5, <1>6, <1>7, DownAllSame DEF ByteInv, Buffers

\* A pair that writes into a channel with another's number has lost its own.
LEMMA NotOwn ==
    ASSUME TunnelInv, NEW c \in Pairs, At(c) # c, sc[c] # None
    PROVE  channel[c] = "closed"
<1>1. channel[c] # None /\ channel[c] \in {None, "open", "left", "closed"}
      /\ cNum[c] \in Slots \cup {NoNumber}
  BY Constants DEF TunnelInv, Made, Types
<1>2. cNum[c] # NoNumber
  BY <1>1 DEF TunnelInv, Numbers
<1>3. channel[c] \notin Held
  BY <1>2 DEF TunnelInv, Numbers, At
<1> QED BY <1>1, <1>3 DEF Held

LEMMA Writes ==
    ASSUME TunnelInv, ByteInv, Monotone, NEW c \in Pairs, ScWrite(c)
    PROVE  ByteInv'
<1>1. /\ sc[c] = "write" /\ sc' = [sc EXCEPT ![c] = "recv"]
      /\ sBuf' = [sBuf EXCEPT ![c] = <<>>]
      /\ queue' = IF At(c) = None THEN queue
                  ELSE [queue EXCEPT ![At(c)] = Append(queue[At(c)], sBuf[c])]
      /\ UNCHANGED <<socketIn, toServer, sent, read, downVars, cs>>
  BY DEF ScWrite, Set, ScUnchanged, csVars, programVars, downVars
<1>2. /\ sBuf[c] \in Seq(Byte) /\ sBuf \in [Pairs -> Seq(Byte)]
      /\ queue \in [Channels -> Seq(Seq(Byte))]
      /\ sc \in [Pairs -> {None, "look", "recv", "write", "end", "join", "close",
                           "channel", "done"}]
      /\ At(c) # None => At(c) \in Channels /\ queue[At(c)] \in Seq(Seq(Byte))
  <2>1. At(c) # None => At(c) \in Channels
    BY Constants DEF TunnelInv, Types, At
  <2> QED BY <2>1 DEF ByteInv, ByteTypes, TunnelInv, Types
<1>3. At(c) # None => Append(queue[At(c)], sBuf[c]) \in Seq(Seq(Byte))
  BY <1>2
<1>4. ByteTypes'
  BY <1>1, <1>2, <1>3 DEF ByteInv, ByteTypes, downVars
<1>5. \A d \in Pairs : sc'[d] # "write" => sBuf'[d] = <<>>
  BY <1>1, <1>2 DEF ByteInv, Buffers
<1>6. ASSUME NEW d \in Pairs, ~SecondHand(d)' PROVE UpOf(d)'
  <2>1. CASE d # c
    <3>1. At(c) # d
      <4> SUFFICES ASSUME At(c) = d PROVE SecondHand(d)
        BY <1>6, StillSecondHand
      <4>1. At(c) # None /\ sc[c] # "done" /\ sc[c] # None /\ At(c) # c
        BY <1>1, <2>1, Constants DEF None
      <4> QED BY <4>1, ItsOwner
    <3>2. queue'[d] = queue[d] /\ sBuf'[d] = sBuf[d]
      BY <1>1, <1>2, <2>1, <3>1, Constants
    <3> QED BY <1>1, <1>6, <3>2, UpSame DEF Way
  <2>2. CASE d = c
    <3>1. UpOf(c)
      BY <1>6, <2>2, StillSecondHand DEF ByteInv
    <3>2. sBuf'[c] = <<>> /\ socketIn'[c] = socketIn[c] /\ sent'[c] = sent[c]
          /\ toServer'[c] = toServer[c] /\ (channel[c] = "closed" => channel'[c] = "closed")
      BY <1>1, <1>2 DEF Monotone
    <3>3. CASE At(c) = c
      <4>1. queue'[c] = Append(queue[c], sBuf[c]) /\ queue[c] \in Seq(Seq(Byte))
        BY <1>1, <1>2, <3>3, Constants
      <4>2. FlattenSeq(queue'[c]) = FlattenSeq(queue[c]) \o sBuf[c]
        BY <1>2, <4>1, FlattenAppend
      <4>3. /\ toServer[c] \in Seq(Byte) /\ FlattenSeq(queue[c]) \in Seq(Byte)
            /\ socketIn[c] \in Seq(Byte) /\ Way(c) \in Seq(Byte)
        BY ByteTypesOf DEF ByteInv
      <4>4. Way(c)' = Way(c) \o sBuf[c]
        <5> DEFINE t == toServer[c]
                   f == FlattenSeq(queue[c])
                   b == sBuf[c]
        <5>1. Way(c)' = t \o (f \o b) /\ Way(c) = t \o f
          BY <3>2, <4>2 DEF Way
        <5>2. t \in Seq(Byte) /\ f \in Seq(Byte) /\ b \in Seq(Byte)
          BY <1>2, <4>3
        <5> HIDE DEF t, f, b
        <5>3. (t \o f) \o b = t \o (f \o b)
          BY <5>2, Joining, ZenonT(40)
        <5> QED BY <5>1, <5>3 DEF b
      <4>5. \A s \in Seq(Byte) : s \o <<>> = s
        OBVIOUS
      <4>6. Way(c) \o sBuf[c] \in Seq(Byte)
        BY <1>2, <4>3, Joining
      <4>7. channel[c] # "closed"
        BY <3>3, Constants, c # None DEF TunnelInv, Numbers, Types, At, Held
      <4>8. (Way(c)' \o sBuf'[c]) \o socketIn'[c] = Tape(c, sent[c])
        BY <3>1, <3>2, <4>4, <4>5, <4>6, <4>7 DEF UpOf
      <4>9. ByteTypes' /\ (channel'[c] # "closed" => UpOf(c)')
        BY <1>4, <3>2, <4>8 DEF UpOf
      <4>10. IsPrefix(Way(c)', Tape(c, sent[c]))
        <5>1. Way(c)' \in Seq(Byte) /\ sBuf'[c] = <<>>
          BY <3>2, <4>4, <4>6
        <5>2. IsPrefix(Way(c)', Way(c)' \o socketIn[c])
          BY <4>3, <5>1, PrefixConcat
        <5> QED BY <3>2, <4>5, <4>8, <5>1, <5>2
      <4> QED BY <2>2, <3>2, <4>9, <4>10 DEF UpOf
    <3>4. CASE At(c) # c
      <4>1. channel[c] = "closed"
        BY <1>1, <3>4, NotOwn DEF None
      <4>2. queue'[c] = queue[c]
        BY <1>1, <1>2, <3>4, Constants
      <4>3. Way(c)' = Way(c)
        BY <3>2, <4>2 DEF Way
      <4> QED BY <2>2, <3>1, <3>2, <4>1, <4>3 DEF UpOf
    <3> QED BY <3>3, <3>4
  <2> QED BY <2>1, <2>2
<1> QED BY <1>1, <1>4, <1>5, <1>6, DownAllSame DEF ByteInv, Buffers

LEMMA ProgramMore ==
    ASSUME TunnelInv, ByteInv, Monotone, NEW c \in Pairs, ProgramSends(c)
    PROVE  ByteInv'
<1> DEFINE b == Bytes(c, sent[c] + 1, sent[c] + 1)
           s == socketIn[c]
           w == Way(c)
           h == sBuf[c]
           tape == Tape(c, sent[c])
<1>1. /\ sent' = [sent EXCEPT ![c] = sent[c] + 1]
      /\ socketIn' = [socketIn EXCEPT ![c] = s \o b]
      /\ UNCHANGED <<queue, toServer, sBuf, read, downVars, cs, sc>>
  BY DEF ProgramSends, Set, OutsideUnchanged, pairVars, scVars, csVars, channelVars, downVars
<1>2. /\ s \in Seq(Byte) /\ h \in Seq(Byte) /\ w \in Seq(Byte) /\ tape \in Seq(Byte)
      /\ sent[c] \in Nat /\ c \in Channels /\ sent \in [Pairs -> Nat]
      /\ socketIn \in [Pairs -> Seq(Byte)]
  BY ByteTypesOf, Constants DEF ByteInv, ByteTypes
<1>3. b \in Seq(Byte)
  BY <1>2, TapeType
<1>4. Tape(c, sent[c] + 1) = tape \o b
  BY <1>2, TapeGrows
<1> HIDE DEF b, s, w, h, tape
<1>5. s \o b \in Seq(Byte)
  BY <1>2, <1>3, Joining
<1>6. ByteTypes'
  <2>1. socketIn' \in [Pairs -> Seq(Byte)]
    BY <1>1, <1>2, <1>5
  <2>2. sent' \in [Pairs -> Nat]
    BY <1>1, <1>2
  <2> QED BY <1>1, <2>1, <2>2 DEF ByteInv, ByteTypes, downVars
<1>7. ASSUME NEW d \in Pairs, ~SecondHand(d)' PROVE UpOf(d)'
  <2>1. CASE d # c
    BY <1>1, <1>2, <1>7, <2>1, UpSame DEF Way
  <2>2. CASE d = c
    <3>1. UpOf(c)
      BY <1>7, <2>2, StillSecondHand DEF ByteInv
    <3>2. Way(c)' = w /\ sBuf'[c] = h /\ socketIn'[c] = s \o b /\ sent'[c] = sent[c] + 1
      BY <1>1, <1>2 DEF Way, w, h
    <3>3. channel[c] # "closed" => (w \o h) \o s = tape
      BY <3>1 DEF UpOf, s, w, h, tape
    <3>4. IsPrefix(w, tape)
      BY <3>1, UpPrefix DEF ByteInv, w, tape
    <3>5. channel[c] = "closed" => channel'[c] = "closed"
      BY DEF Monotone
    <3>6. Tape(c, sent'[c]) = tape \o b
      BY <1>4, <3>2
    <3>7. w \o h \in Seq(Byte) /\ (w \o h) \o (s \o b) = ((w \o h) \o s) \o b
      <4>1. w \o h \in Seq(Byte)
        BY <1>2, Joining
      <4> DEFINE wh == w \o h
      <4> HIDE DEF wh
      <4>2. (wh \o s) \o b = wh \o (s \o b)
        BY <1>2, <1>3, <4>1, Joining, ZenonT(40) DEF wh
      <4> QED BY <4>1, <4>2 DEF wh
    <3>8. IsPrefix(w, tape \o b)
      BY <1>2, <1>3, <3>4, PrefixMore
    <3> QED BY <2>2, <3>2, <3>3, <3>5, <3>6, <3>7, <3>8 DEF UpOf
  <2> QED BY <2>1, <2>2
<1> QED BY <1>1, <1>6, <1>7, DownAllSame DEF ByteInv, Buffers

LEMMA ServerMoves ==
    ASSUME TunnelInv, ByteInv, Monotone, NEW c \in Pairs, ServerTakes(c)
    PROVE  ByteInv'
<1> DEFINE t == toServer[c]
           q == queue[c]
           x == Head(queue[c])
           r == Tail(queue[c])
<1>1. /\ toServer' = [toServer EXCEPT ![c] = t \o x]
      /\ queue' = [queue EXCEPT ![c] = r] /\ q # <<>>
      /\ UNCHANGED <<sent, socketIn, sBuf, read, downVars, cs, sc>>
  BY DEF ServerTakes, Set, OutsideUnchanged, pairVars, scVars, csVars, programVars, downVars
<1>2. /\ t \in Seq(Byte) /\ q \in Seq(Seq(Byte)) /\ c \in Channels
      /\ toServer \in [Channels -> Seq(Byte)] /\ queue \in [Channels -> Seq(Seq(Byte))]
  BY Constants DEF ByteInv, ByteTypes
<1>3. x \in Seq(Byte) /\ r \in Seq(Seq(Byte))
  BY <1>1, <1>2
<1>4. FlattenSeq(q) = x \o FlattenSeq(r) /\ FlattenSeq(r) \in Seq(Byte)
  <2>1. FlattenSeq(q) = Head(q) \o FlattenSeq(Tail(q))
    BY <1>1, <1>2, FlattenHead
  <2>2. FlattenSeq(r) \in Seq(Byte)
    BY <1>3, FlattenType
  <2> QED BY <2>1, <2>2
<1>5. toServer'[c] = t \o x /\ queue'[c] = r /\ Way(c) = t \o FlattenSeq(q)
  BY <1>1, <1>2 DEF Way
<1> HIDE DEF t, q, x, r
<1> DEFINE f == FlattenSeq(r)
<1>6. t \o (x \o f) = (t \o x) \o f /\ t \o x \in Seq(Byte)
  <2>1. f \in Seq(Byte)
    BY <1>4
  <2> HIDE DEF f
  <2> QED BY <1>2, <1>3, <2>1, Joining, ZenonT(40)
<1>7. Way(c)' = Way(c)
  BY <1>4, <1>5, <1>6 DEF Way
<1>8. ByteTypes'
  BY <1>1, <1>2, <1>3, <1>6 DEF ByteInv, ByteTypes, downVars
<1>9. \A d \in Pairs : Way(d)' = Way(d)
  BY <1>1, <1>2, <1>7, Constants DEF Way
<1>10. \A d \in Pairs : ~SecondHand(d)' => UpOf(d)'
  BY <1>1, <1>9, UpSame
<1> QED BY <1>1, <1>8, <1>10, DownAllSame DEF ByteInv, Buffers

-----------------------------------------------------------------------------
(* The steps that move bytes down. *)

LEMMA UpAllSame ==
    ASSUME TunnelInv, ByteInv, Monotone, UNCHANGED <<upVars, sc>>
    PROVE  /\ \A c \in Pairs : ~SecondHand(c)' => UpOf(c)'
           /\ \A c \in Pairs : sc'[c] # "write" => sBuf'[c] = <<>>
  BY UpSame DEF upVars, ByteInv, Buffers, Way

\* Who reads what came for another, or for the program, has lost its own channel.
LEMMA StrayRead ==
    ASSUME TunnelInv, NEW c \in Pairs, cs[c] = "read", At(c) # None, At(c) # c
    PROVE  Exempt(c) /\ (At(c) \in Pairs => SecondHand(At(c)))
<1>1. channel[c] = "closed" /\ (At(c) \in Pairs => cNum[At(c)] = cNum[c])
  BY NotItsOwn
<1>2. sc[c] # None
  BY DEF TunnelInv, Made, None
<1>3. CASE sc[c] = "done"
  <2>1. c \in joinedEarly
    BY <1>3 DEF TunnelInv, Finished, Joined
  <2>2. UsesAgain(c)
    BY <1>1, <1>3, <2>1 DEF UsesAgain
  <2>3. At(c) \in Pairs => SecondHand(At(c))
    BY <1>1, <2>2 DEF SecondHand
  <2> QED BY <1>1, <2>1, <2>3 DEF Exempt, Stray
<1>4. CASE sc[c] # "done"
  <2>1. SecondHand(c)
    BY <1>1, <1>2, <1>4 DEF TunnelInv, Finished, Unmade
  <2> QED BY <1>2, <1>4, <2>1, ItsOwner DEF Exempt
<1> QED BY <1>3, <1>4

LEMMA Reads ==
    ASSUME TunnelInv, ByteInv, Monotone, NEW c \in Pairs, CsRead(c), At(c) # None,
           inbound[At(c)] # <<>>
    PROVE  ByteInv'
<1>1. PICK e \in Channels : e = At(c)
  BY Constants DEF TunnelInv, Types, At
<1> DEFINE p == inbound[e]
           x == Head(inbound[e])
           r == Tail(inbound[e])
<1>2. /\ cs[c] = "read" /\ cs' = [cs EXCEPT ![c] = "send"] /\ p # <<>>
      /\ bytes' = [bytes EXCEPT ![c] = x] /\ inbound' = [inbound EXCEPT ![e] = r]
      /\ UNCHANGED <<upVars, sc, socketOut, said, read>>
  BY <1>1 DEF CsRead, CsUnchanged, Set, upVars, scVars
<1>3. /\ p \in Seq(Seq(Byte)) /\ inbound \in [Channels -> Seq(Seq(Byte))]
      /\ bytes \in [Pairs -> Seq(Byte)] /\ bytes[c] = <<>>
      /\ cs \in [Pairs -> {None, "read", "send", "check", "done"}]
  BY <1>2 DEF ByteInv, ByteTypes, Buffers, TunnelInv, Types
<1>4. x \in Seq(Byte) /\ r \in Seq(Seq(Byte))
  BY <1>2, <1>3
<1>5. FlattenSeq(p) = x \o FlattenSeq(r) /\ FlattenSeq(r) \in Seq(Byte)
  <2>1. FlattenSeq(p) = Head(p) \o FlattenSeq(Tail(p))
    BY <1>2, <1>3, FlattenHead
  <2>2. FlattenSeq(r) \in Seq(Byte)
    BY <1>4, FlattenType
  <2> QED BY <2>1, <2>2
<1> HIDE DEF x, r
<1>6. ByteTypes'
  BY <1>2, <1>3, <1>4 DEF ByteInv, ByteTypes, upVars
<1>7. \A d \in Pairs : cs'[d] # "send" => bytes'[d] = <<>>
  BY <1>2, <1>3 DEF ByteInv, Buffers
<1>8. ASSUME NEW d \in Pairs, ~Exempt(d)' PROVE DownOf(d)'
  <2>1. CASE d # c
    <3>1. d # e
      <4> SUFFICES ASSUME d = e PROVE Exempt(d)
        BY <1>8, StillExempt
      <4>1. At(c) # c /\ At(c) = d
        BY <1>1, <2>1
      <4> QED BY <1>2, <4>1, StrayRead, Constants DEF Exempt
    <3>2. inbound'[d] = inbound[d] /\ bytes'[d] = bytes[d] /\ cs'[d] = cs[d]
      BY <1>2, <1>3, <2>1, <3>1, Constants
    <3> QED BY <1>2, <1>8, <3>2, DownSame
  <2>2. CASE d = c
    <3>1. ~Exempt(c) /\ DownOf(c)
      BY <1>8, <2>2, StillExempt DEF ByteInv
    <3>2. e = c
      BY <1>1, <1>2, <3>1, StrayRead, Constants
    <3>3. /\ inbound'[c] = r /\ bytes'[c] = x /\ cs'[c] = "send"
          /\ socketOut'[c] = socketOut[c] /\ said'[c] = said[c]
      BY <1>2, <1>3, <3>2
    <3>4. (socketOut[c] \o <<>>) \o FlattenSeq(p) = Tape(c, said[c] * PacketLen)
      BY <1>2, <1>3, <3>1, <3>2 DEF DownOf
    <3>5. (socketOut[c] \o x) \o FlattenSeq(r) = (socketOut[c] \o <<>>) \o FlattenSeq(p)
      <4> DEFINE o == socketOut[c]
                 f == FlattenSeq(r)
      <4>1. o \in Seq(Byte) /\ f \in Seq(Byte)
        BY <1>5, ByteTypesOf DEF ByteInv
      <4> HIDE DEF o, f
      <4>2. (o \o x) \o f = o \o (x \o f) /\ o \o <<>> = o
        BY <1>4, <4>1, Joining
      <4> QED BY <1>5, <4>2 DEF o, f
    <3>6. socketOut'[c] \o bytes'[c] \o FlattenSeq(inbound'[c])
            = Tape(c, said'[c] * PacketLen)
      BY <3>3, <3>4, <3>5
    <3> QED BY <2>2, <3>3, <3>6 DEF DownOf
  <2> QED BY <2>1, <2>2
<1> QED BY <1>2, <1>6, <1>7, <1>8, UpAllSame DEF ByteInv, Buffers

\* The front of three pieces.
LEMMA FrontOf ==
    ASSUME NEW a \in Seq(Byte), NEW b \in Seq(Byte), NEW c \in Seq(Byte)
    PROVE  IsPrefix(a, (a \o b) \o c)
<1>1. (a \o b) \o c = a \o (b \o c) /\ b \o c \in Seq(Byte)
  BY Joining
<1> DEFINE d == b \o c
<1>2. d \in Seq(Byte)
  BY <1>1
<1> HIDE DEF d
<1>3. IsPrefix(a, a \o d)
  BY <1>2, PrefixConcat
<1> QED BY <1>1, <1>3 DEF d

LEMMA Sends ==
    ASSUME TunnelInv, ByteInv, Monotone, NEW c \in Pairs, CsSend(c)
    PROVE  ByteInv'
<1> DEFINE b == bytes[c]
           o == socketOut[c]
           f == FlattenSeq(inbound[c])
           n == Min({Room(c), Len(b)})
           a == SubSeq(b, 1, n)
           r == SubSeq(b, n + 1, Len(b))
<1>1. /\ cs[c] = "send" /\ n > 0
      /\ \E v \in {"send", "read", "done"} :
           cs' = [cs EXCEPT ![c] = v] /\ (v # "send" => r = <<>>)
      /\ bytes' = [bytes EXCEPT ![c] = r] /\ socketOut' = [socketOut EXCEPT ![c] = o \o a]
      /\ UNCHANGED <<upVars, sc, inbound, said, read>>
  BY DEF CsSend, CsUnchanged, Set, upVars, scVars, channelVars
<1>2. /\ b \in Seq(Byte) /\ o \in Seq(Byte) /\ f \in Seq(Byte) /\ read[c] \in Nat
      /\ bytes \in [Pairs -> Seq(Byte)] /\ socketOut \in [Pairs -> Seq(Byte)]
      /\ cs \in [Pairs -> {None, "read", "send", "check", "done"}]
      /\ Len(b) \in Nat /\ Len(o) \in Nat
  <2>1. b \in Seq(Byte) /\ o \in Seq(Byte) /\ f \in Seq(Byte)
    BY ByteTypesOf DEF ByteInv
  <2>2. /\ read[c] \in Nat
        /\ bytes \in [Pairs -> Seq(Byte)] /\ socketOut \in [Pairs -> Seq(Byte)]
        /\ cs \in [Pairs -> {None, "read", "send", "check", "done"}]
    BY DEF ByteInv, ByteTypes, TunnelInv, Types
  <2> HIDE DEF b, o
  <2>3. Len(b) \in Nat /\ Len(o) \in Nat
    BY <2>1
  <2> QED BY <2>1, <2>2, <2>3
<1>3. n \in 1 .. Len(b)
  <2>1. \A x, y \in Int : Min({x, y}) \in {x, y} /\ Min({x, y}) <= y
    BY DEF Min
  <2>2. Room(c) \in Int /\ Len(b) \in Int
    BY <1>2, TunnelAssumption DEF Room
  <2>3. n \in {Room(c), Len(b)} /\ n <= Len(b)
    BY <2>1, <2>2
  <2> HIDE DEF n
  <2> QED BY <1>1, <1>2, <2>2, <2>3
<1> HIDE DEF n
<1>4. a \in Seq(Byte) /\ r \in Seq(Byte) /\ b = a \o r
  <2>1. \A s \in Seq(Byte) : \A k \in 1 .. Len(s) :
          /\ SubSeq(s, 1, k) \in Seq(Byte) /\ SubSeq(s, k + 1, Len(s)) \in Seq(Byte)
          /\ s = SubSeq(s, 1, k) \o SubSeq(s, k + 1, Len(s))
    OBVIOUS
  <2> QED BY <1>2, <1>3, <2>1
<1> HIDE DEF a, r
<1>5. o \o a \in Seq(Byte) /\ ((o \o a) \o r) \o f = (o \o b) \o f
      /\ IsPrefix(o \o a, ((o \o a) \o r) \o f)
  <2> HIDE DEF o, f, b
  <2>1. o \o a \in Seq(Byte) /\ (o \o a) \o r = o \o b
    <3>1. o \in Seq(Byte) /\ a \in Seq(Byte) /\ r \in Seq(Byte)
      BY <1>2, <1>4
    <3>2. o \o a \in Seq(Byte) /\ (o \o a) \o r = o \o (a \o r)
      BY <3>1, Joining
    <3> QED BY <1>4, <3>2
  <2> DEFINE oa == o \o a
  <2> HIDE DEF oa
  <2>2. IsPrefix(oa, (oa \o r) \o f)
    BY <1>2, <1>4, <2>1, FrontOf DEF oa
  <2> QED BY <2>1, <2>2 DEF oa
<1>6. bytes'[c] = r /\ socketOut'[c] = o \o a /\ (cs'[c] # "send" => r = <<>>)
      /\ \A d \in Pairs \ {c} : bytes'[d] = bytes[d] /\ socketOut'[d] = socketOut[d]
                                /\ cs'[d] = cs[d]
  BY <1>1, <1>2
<1>7. ByteTypes'
  <2>1. bytes' \in [Pairs -> Seq(Byte)] /\ socketOut' \in [Pairs -> Seq(Byte)]
    BY <1>1, <1>2, <1>4, <1>5
  <2> QED BY <1>1, <2>1 DEF ByteInv, ByteTypes, upVars
<1>8. \A d \in Pairs : cs'[d] # "send" => bytes'[d] = <<>>
  BY <1>6 DEF ByteInv, Buffers
<1>9. ASSUME NEW d \in Pairs, ~Exempt(d)' PROVE DownOf(d)'
  <2>1. CASE d # c
    BY <1>1, <1>6, <1>9, <2>1, DownSame
  <2>2. CASE d = c
    <3>1. DownOf(c)
      BY <1>9, <2>2, StillExempt DEF ByteInv
    <3>2. (o \o b) \o f = Tape(c, said[c] * PacketLen)
      BY <1>1, <3>1 DEF DownOf
    <3>3. FlattenSeq(inbound'[c]) = f /\ said'[c] = said[c]
      BY <1>1
    <3> QED BY <1>5, <1>6, <2>2, <3>2, <3>3 DEF DownOf
  <2> QED BY <2>1, <2>2
<1> QED BY <1>1, <1>7, <1>8, <1>9, UpAllSame DEF ByteInv, Buffers

LEMMA SendFails ==
    ASSUME TunnelInv, ByteInv, Monotone, NEW c \in Pairs, CsSendFails(c)
    PROVE  ByteInv'
<1>1. /\ cs[c] = "send" /\ cs' = [cs EXCEPT ![c] = "done"]
      /\ bytes' = [bytes EXCEPT ![c] = <<>>]
      /\ UNCHANGED <<upVars, sc, socketOut, inbound, said, read>>
  BY DEF CsSendFails, CsUnchanged, Set, upVars, scVars, channelVars
<1>2. /\ bytes \in [Pairs -> Seq(Byte)] /\ <<>> \in Seq(Byte)
      /\ cs \in [Pairs -> {None, "read", "send", "check", "done"}]
  BY DEF ByteInv, ByteTypes, TunnelInv, Types
<1>3. /\ bytes'[c] = <<>> /\ cs'[c] = "done"
      /\ \A d \in Pairs \ {c} : bytes'[d] = bytes[d] /\ cs'[d] = cs[d]
  BY <1>1, <1>2
<1>4. ByteTypes'
  BY <1>1, <1>2 DEF ByteInv, ByteTypes, upVars
<1>5. \A d \in Pairs : cs'[d] # "send" => bytes'[d] = <<>>
  BY <1>3 DEF ByteInv, Buffers
<1>6. ASSUME NEW d \in Pairs, ~Exempt(d)' PROVE DownOf(d)'
  <2>1. CASE d # c
    BY <1>1, <1>3, <1>6, <2>1, DownSame
  <2>2. CASE d = c
    <3>1. DownOf(c)
      BY <1>6, <2>2, StillExempt DEF ByteInv
    <3>2. IsPrefix(socketOut[c], Tape(c, said[c] * PacketLen))
      BY <3>1, DownPrefix DEF ByteInv
    <3> QED BY <1>1, <1>3, <2>2, <3>2 DEF DownOf
  <2> QED BY <2>1, <2>2
<1> QED BY <1>1, <1>4, <1>5, <1>6, UpAllSame DEF ByteInv, Buffers

LEMMA ServerMore ==
    ASSUME TunnelInv, ByteInv, Monotone, NEW c \in Channels, ServerSays(c)
    PROVE  ByteInv'
<1> DEFINE m == said[c] * PacketLen
           x == Bytes(c, said[c] * PacketLen + 1, (said[c] + 1) * PacketLen)
           p == inbound[c]
<1>1. /\ said' = [said EXCEPT ![c] = said[c] + 1]
      /\ inbound' = [inbound EXCEPT ![c] = Append(p, x)]
      /\ UNCHANGED <<upVars, sc, cs, bytes, socketOut, read>>
  BY DEF ServerSays, OutsideUnchanged, Set, upVars, pairVars, scVars, csVars, programVars
<1>2. /\ said \in [Channels -> Nat] /\ said[c] \in Nat /\ p \in Seq(Seq(Byte))
      /\ inbound \in [Channels -> Seq(Seq(Byte))]
  BY DEF ByteInv, ByteTypes
<1>3. m \in Nat /\ PacketLen \in Nat /\ (said[c] + 1) * PacketLen = m + PacketLen
  BY <1>2, TunnelAssumption
<1>4. x = Bytes(c, m + 1, m + PacketLen)
  BY <1>3
<1> HIDE DEF m, x
<1>5. x \in Seq(Byte) /\ Tape(c, m + PacketLen) = Tape(c, m) \o x
      /\ Tape(c, m) \in Seq(Byte)
  BY <1>3, <1>4, TapeType, TapeGrows, TapeIs
<1>6. Append(p, x) \in Seq(Seq(Byte)) /\ FlattenSeq(Append(p, x)) = FlattenSeq(p) \o x
  BY <1>2, <1>5, FlattenAppend
<1>7. /\ said'[c] = said[c] + 1 /\ inbound'[c] = Append(p, x)
      /\ \A d \in Channels \ {c} : said'[d] = said[d] /\ inbound'[d] = inbound[d]
  BY <1>1, <1>2
<1>8. ByteTypes'
  <2>1. said' \in [Channels -> Nat] /\ inbound' \in [Channels -> Seq(Seq(Byte))]
    BY <1>1, <1>2, <1>6
  <2> QED BY <1>1, <2>1 DEF ByteInv, ByteTypes, upVars
<1>9. ASSUME NEW d \in Pairs, ~Exempt(d)' PROVE DownOf(d)'
  <2>1. CASE d # c
    BY <1>1, <1>7, <1>9, <2>1, DownSame, Constants
  <2>2. CASE d = c
    <3> DEFINE o == socketOut[c]
               b == bytes[c]
               f == FlattenSeq(p)
               t == Tape(c, m)
    <3>1. DownOf(c)
      BY <1>9, <2>2, StillExempt DEF ByteInv
    <3>2. cs[c] # "done" => (o \o b) \o f = t
      BY <3>1 DEF DownOf, m
    <3>3. IsPrefix(o, t)
      BY <2>2, <3>1, DownPrefix DEF ByteInv, m
    <3>4. o \in Seq(Byte) /\ b \in Seq(Byte) /\ f \in Seq(Byte) /\ t \in Seq(Byte)
      BY <1>5, <2>2, ByteTypesOf DEF ByteInv
    <3>5. /\ socketOut'[c] = o /\ bytes'[c] = b /\ cs'[c] = cs[c]
          /\ FlattenSeq(inbound'[c]) = f \o x
      BY <1>1, <1>6, <1>7
    <3>6. Tape(c, said'[c] * PacketLen) = t \o x
      BY <1>3, <1>5, <1>7
    <3> HIDE DEF o, b, f, t
    <3>7. (o \o b) \o (f \o x) = ((o \o b) \o f) \o x
      <4> DEFINE ob == o \o b
      <4>1. ob \in Seq(Byte)
        BY <3>4, Joining
      <4> HIDE DEF ob
      <4>2. (ob \o f) \o x = ob \o (f \o x)
        BY <1>5, <3>4, <4>1, Joining, ZenonT(40)
      <4> QED BY <4>2 DEF ob
    <3>8. IsPrefix(o, t \o x)
      BY <1>5, <3>3, <3>4, PrefixMore
    <3> QED BY <2>2, <3>2, <3>5, <3>6, <3>7, <3>8 DEF DownOf
  <2> QED BY <2>1, <2>2
<1> QED BY <1>1, <1>8, <1>9, UpAllSame DEF ByteInv, Buffers

-----------------------------------------------------------------------------
(* The other steps, and the theorem. *)

LEMMA ProgramLooks ==
    ASSUME ByteInv, NEW c \in Pairs, ProgramReads(c)
    PROVE  UNCHANGED <<upVars, downVars, sc, cs>> /\ read' \in [Pairs -> Nat]
<1>1. /\ read' = [read EXCEPT ![c] = Len(socketOut[c])]
      /\ UNCHANGED <<upVars, downVars, sc, cs>>
  BY DEF ProgramReads, Set, OutsideUnchanged, pairVars, scVars, csVars, channelVars, upVars,
         downVars
<1>2. socketOut[c] \in Seq(Byte) /\ read \in [Pairs -> Nat]
  BY DEF ByteInv, ByteTypes
<1>3. Len(socketOut[c]) \in Nat
  BY <1>2
<1> QED BY <1>1, <1>2, <1>3

\* The steps that carry bytes from one place to another, or look at them.
Carries(c) ==
    \/ ScRecvData(c) \/ ScWrite(c) \/ ProgramSends(c) \/ ServerTakes(c)
    \/ CsSend(c) \/ CsSendFails(c) \/ ProgramReads(c)
    \/ CsRead(c) /\ At(c) # None /\ inbound[At(c)] # <<>>

\* All other steps leave the bytes where they are, and who holds some holds them.
LEMMA OthersQuiet ==
    ASSUME TunnelInv, [Next]_vars, \A c \in Pairs : ~Carries(c),
           \A c \in Channels : ~ServerSays(c)
    PROVE  UNCHANGED <<upVars, downVars, read>> /\ StaysBusy
<1> USE DEF threadVars, scVars, csVars, programVars, channelVars, listenerVars, x11Vars, userVars,
            pairVars, socketVars, QuietPair, QuietChannel, OutsideUnchanged, upVars, downVars, Set
<1>3. ASSUME NEW c \in Pairs, CsRead(c)
      PROVE  UNCHANGED <<upVars, downVars, read>> /\ StaysBusy
  <2>1. UNCHANGED <<upVars, downVars, read, sc>> /\ cs[c] = "read"
        /\ \E v \in {"check", "done"} : cs' = [cs EXCEPT ![c] = v]
    BY <1>3 DEF CsRead, CsUnchanged, Carries
  <2> QED BY <2>1 DEF StaysBusy, TunnelInv, Types
<1>5. ASSUME NEW c \in Pairs, socketToChannelThread(c)
      PROVE  UNCHANGED <<upVars, downVars, read>> /\ StaysBusy
  <2>1. /\ UNCHANGED <<upVars, downVars, read, cs>> /\ sc[c] # "write"
        /\ \E v \in {"look", "recv", "end", "join", "close", "channel", "done"} :
             sc' = [sc EXCEPT ![c] = v]
    BY <1>5 DEF socketToChannelThread, ScLook, ScRecvNothing, ScEnd, ScJoin, ScCloseSocket,
       ScCloseChannel, ScUnchanged, Carries
  <2> QED BY <2>1 DEF StaysBusy, TunnelInv, Types
<1>6. ASSUME NEW c \in Pairs, CsCheck(c)
      PROVE  UNCHANGED <<upVars, downVars, read>> /\ StaysBusy
  <2>1. /\ UNCHANGED <<upVars, downVars, read, sc>> /\ cs[c] = "check"
        /\ \E v \in {"done", "read"} : cs' = [cs EXCEPT ![c] = v]
    BY <1>6 DEF CsCheck, CsUnchanged
  <2> QED BY <2>1 DEF StaysBusy, TunnelInv, Types
<1>7. ASSUME OpenChannel \/ ListenerSecond \/ X11Connect \/ X11Second
      PROVE  UNCHANGED <<upVars, downVars, read>> /\ StaysBusy
  <2>1. UNCHANGED <<upVars, downVars, read>>
    BY <1>7 DEF OpenChannel, ListenerSecond, X11Connect, X11Second
  <2>2. CASE OpenChannel
    <3>1. PICK c \in Pairs : c = accepted
      BY <2>2, Constants DEF OpenChannel, TunnelInv, Made
    <3>2. sc[c] = None
      BY <2>2, <3>1 DEF OpenChannel, TunnelInv, Made
    <3>3. UNCHANGED cs /\ (UNCHANGED sc \/ sc' = [sc EXCEPT ![c] = "look"])
      BY <2>2, <3>1 DEF OpenChannel, StartFirst
    <3> QED BY <2>1, <3>2, <3>3 DEF StaysBusy, TunnelInv, Types, None
  <2>3. CASE X11Connect
    <3>1. PICK c \in Pairs : c = x11Pair
      BY <2>3, Constants DEF X11Connect, TunnelInv, Made
    <3>2. sc[c] = None
      BY <2>3, <3>1 DEF X11Connect, TunnelInv, Made
    <3>3. UNCHANGED cs /\ (UNCHANGED sc \/ sc' = [sc EXCEPT ![c] = "look"])
      BY <2>3, <3>1 DEF X11Connect, StartFirst
    <3> QED BY <2>1, <3>2, <3>3 DEF StaysBusy, TunnelInv, Types, None
  <2>4. CASE ListenerSecond \/ X11Second
    <3>1. PICK c \in Pairs : cs[c] = None /\ UNCHANGED sc /\ cs' = [cs EXCEPT ![c] = "read"]
      BY <2>4, Constants DEF ListenerSecond, X11Second, StartSecond, TunnelInv, Made
    <3> QED BY <2>1, <3>1 DEF StaysBusy, TunnelInv, Types, None
  <2> QED BY <1>7, <2>2, <2>3, <2>4
<1>8. ASSUME \/ TcpInit \/ ListenerLook \/ ListenerRegister \/ X11Register
             \/ \E c \in X11 : handleX11Connection(c)
             \/ closeAutomaticDirectTCPIP \/ disconnect \/ UserSteps
             \/ \E c \in Pairs : ProgramConnects(c) \/ ProgramEnds(c) \/ ServerCloses(c)
             \/ OtherOpens \/ UNCHANGED vars
      PROVE  UNCHANGED <<upVars, downVars, read>> /\ StaysBusy
  <2>1. UNCHANGED <<upVars, downVars, read, sc, cs>>
    BY <1>8 DEF TcpInit, ListenerLook, ListenerRegister, X11Register, handleX11Connection,
       closeAutomaticDirectTCPIP, disconnect, UserSteps, PopPair, JoinSocketToChannel, ClosePair,
       X11Pop, X11Shutdown, UserUnchanged, UserQuiet, ProgramConnects, ProgramEnds, ServerCloses,
       OtherOpens, vars
  <2> QED BY <2>1 DEF StaysBusy
<1> QED BY <1>3, <1>5, <1>6, <1>7, <1>8, Constants
        DEF Next, Listener, TransportThread, channelToSocketThread, Carries

LEMMA ByteNext ==
    ASSUME TunnelInv, ByteInv, Monotone, [Next]_vars
    PROVE  ByteInv'
<1>1. CASE \E c \in Pairs : \/ ScRecvData(c) \/ ScWrite(c) \/ ProgramSends(c) \/ ServerTakes(c)
                            \/ CsSend(c) \/ CsSendFails(c)
                            \/ CsRead(c) /\ At(c) # None /\ inbound[At(c)] # <<>>
  BY <1>1, Receives, Writes, ProgramMore, ServerMoves, Sends, SendFails, Reads
<1>2. CASE \E c \in Channels : ServerSays(c)
  BY <1>2, ServerMore
<1>3. CASE \E c \in Pairs : ProgramReads(c)
  <2>1. UNCHANGED <<upVars, downVars, sc, cs>> /\ read' \in [Pairs -> Nat]
    BY <1>3, ProgramLooks
  <2> QED BY <2>1, QuietSteps DEF StaysBusy
<1>4. CASE (\A c \in Pairs : ~Carries(c)) /\ \A c \in Channels : ~ServerSays(c)
  BY <1>4, OthersQuiet, QuietSteps DEF ByteInv, ByteTypes
<1> QED BY <1>1, <1>2, <1>3, <1>4 DEF Carries

LEMMA ByteInit == Init => ByteInv
<1> SUFFICES ASSUME Init PROVE ByteInv
  OBVIOUS
<1>1. <<>> \in Seq(Byte) /\ <<>> \in Seq(Seq(Byte)) /\ <<>> \o <<>> = <<>>
  OBVIOUS
<1>2. ByteTypes
  BY <1>1 DEF Init, All, ByteTypes
<1>3. Buffers
  BY DEF Init, All, Buffers
<1>4. ASSUME NEW c \in Pairs PROVE UpOf(c) /\ DownOf(c)
  <2>1. Tape(c, 0) = <<>>
    BY TapeIs, EmptySeq, Constants
  <2>2. said[c] * PacketLen = 0
    BY Constants, TunnelAssumption DEF Init
  <2>3. /\ toServer[c] = <<>> /\ queue[c] = <<>> /\ sBuf[c] = <<>> /\ socketIn[c] = <<>>
        /\ sent[c] = 0 /\ socketOut[c] = <<>> /\ bytes[c] = <<>> /\ inbound[c] = <<>>
        /\ channel[c] # "closed" /\ cs[c] # "done"
    BY Constants DEF Init, All, None
  <2> QED BY <1>1, <2>1, <2>2, <2>3, FlattenEmpty DEF UpOf, DownOf, Way
<1> QED BY <1>2, <1>3, <1>4 DEF ByteInv

LEMMA ByteInvAlways == Spec => []ByteInv
<1>1. TunnelInv /\ ByteInv /\ [Next]_vars => ByteInv'
  BY TunnelNext, ByteNext
<1> QED BY <1>1, ByteInit, TunnelInvAlways, PTL DEF Spec

\* Every byte a program sent is on the way to the server, in its order and once, and
\* every byte the server sent on the way to the program, through partial reads and
\* sends, full queues and the end of either side, for any number of tunnels; but for
\* a number that is used once more after its pair is done, and for the second thread
\* that was joined before it was made (socketToChannelThread, channelToSocketThread).
THEOREM BytesKeptAlways == Spec => []BytesKept
<1>1. TunnelInv /\ ByteInv => BytesKept
  <2> SUFFICES ASSUME TunnelInv, ByteInv PROVE UpstreamKept /\ DownstreamKept
    BY DEF BytesKept
  <2>1. ASSUME NEW c \in Pairs, ~SecondHand(c)
        PROVE  LET taken == toServer[c] \o FlattenSeq(queue[c])
                   tape == Bytes(c, 1, sent[c]) IN
               IF At(c) = c THEN taken \o sBuf[c] \o socketIn[c] = tape
               ELSE IsPrefix(taken, tape)
    <3>1. UpOf(c) /\ IsPrefix(Way(c), Tape(c, sent[c]))
      BY <2>1, UpPrefix DEF ByteInv
    <3>2. At(c) = c => channel[c] # "closed"
      BY Constants DEF TunnelInv, Numbers, Types, At, Held, None
    <3> QED BY <3>1, <3>2 DEF UpOf, Way, Tape
  <2>2. ASSUME NEW c \in Pairs, ~Stray(c), ~SecondHand(c)
        PROVE  LET tape == Bytes(c, 1, said[c] * PacketLen) IN
               IF cs[c] # "done"
               THEN socketOut[c] \o bytes[c] \o FlattenSeq(inbound[c]) = tape
               ELSE IsPrefix(socketOut[c], tape)
    BY <2>2 DEF ByteInv, Exempt, DownOf, Tape
  <2> HIDE DEF SecondHand, Stray
  <2> QED BY <2>1, <2>2 DEF UpstreamKept, DownstreamKept
<1> QED BY <1>1, ByteInvAlways, TunnelInvAlways, PTL

-----------------------------------------------------------------------------
(* What has been counted so far. *)

\* g sums f over the sets of at most n elements of S, in the order of CHOOSE.
Sums(g, f, S, n) ==
    g = [s \in {t \in SUBSET S : Cardinality(t) <= n} |->
           IF s = {} THEN 0
           ELSE f[CHOOSE x \in s : TRUE] + g[s \ {CHOOSE x \in s : TRUE}]]

LEMMA SmallerSet ==
    ASSUME NEW S, IsFiniteSet(S), NEW s \in SUBSET S, s # {}
    PROVE  \E x \in s : /\ x = CHOOSE y \in s : TRUE
                        /\ s \ {x} \in SUBSET S
                        /\ Cardinality(s) \in Nat \ {0}
                        /\ Cardinality(s \ {x}) = Cardinality(s) - 1
<1>1. IsFiniteSet(s) /\ Cardinality(s) \in Nat
  BY FS_Subset, FS_CardinalityType
<1>2. PICK x \in s : x = CHOOSE y \in s : TRUE
  OBVIOUS
<1>3. Cardinality(s \ {x}) = Cardinality(s) - 1
  BY <1>1, FS_RemoveElement
<1>4. Cardinality(s) # 0
  BY <1>1, FS_EmptySet
<1> QED BY <1>1, <1>2, <1>3, <1>4

LEMMA SumsExist ==
    ASSUME NEW f, NEW S, IsFiniteSet(S), NEW n \in Nat
    PROVE  \E g : Sums(g, f, S, n)
<1> DEFINE T == {k \in Nat : \E g : Sums(g, f, S, k)}
           Of(k) == {t \in SUBSET S : Cardinality(t) <= k}
           Pick(s) == CHOOSE x \in s : TRUE
<1>0. \A s \in SUBSET S : /\ Cardinality(s) \in Nat
                          /\ Cardinality(s) <= 0 => s = {}
                          /\ s # {} => s \ {Pick(s)} \in SUBSET S
                                       /\ Cardinality(s \ {Pick(s)}) = Cardinality(s) - 1
  <2> SUFFICES ASSUME NEW s \in SUBSET S
               PROVE  /\ Cardinality(s) \in Nat
                      /\ Cardinality(s) <= 0 => s = {}
                      /\ s # {} => s \ {Pick(s)} \in SUBSET S
                                   /\ Cardinality(s \ {Pick(s)}) = Cardinality(s) - 1
    OBVIOUS
  <2>1. IsFiniteSet(s) /\ Cardinality(s) \in Nat
    BY FS_Subset, FS_CardinalityType
  <2>2. Cardinality(s) = 0 => s = {}
    BY <2>1, FS_EmptySet
  <2>3. CASE s # {}
    <3>1. PICK x \in s : /\ x = CHOOSE y \in s : TRUE
                         /\ s \ {x} \in SUBSET S
                         /\ Cardinality(s \ {x}) = Cardinality(s) - 1
      BY <2>3, SmallerSet
    <3>2. x = Pick(s)
      BY <3>1
    <3> HIDE DEF Pick
    <3>3. ~(Cardinality(s) <= 0)
      BY <2>1, <2>2, <2>3
    <3> QED BY <2>1, <2>3, <3>1, <3>2, <3>3
  <2>4. CASE s = {}
    BY <2>1, <2>4, FS_EmptySet
  <2> QED BY <2>1, <2>2, <2>3, <2>4
<1>1. 0 \in T
  <2> DEFINE g == [s \in Of(0) |-> 0]
  <2>1. \A s \in Of(0) : s = {}
    BY <1>0
  <2>2. Sums(g, f, S, 0)
    BY <2>1 DEF Sums
  <2> QED BY <2>2
<1>2. ASSUME NEW k \in Nat, k \in T PROVE k + 1 \in T
  <2>1. PICK g : Sums(g, f, S, k)
    BY <1>2
  <2> DEFINE h == [s \in Of(k + 1) |->
                     IF s = {} THEN 0 ELSE f[Pick(s)] + g[s \ {Pick(s)}]]
  <2>2. ASSUME NEW s \in Of(k + 1), s # {}
        PROVE  h[s \ {Pick(s)}] = g[s \ {Pick(s)}]
    <3> DEFINE t == s \ {Pick(s)}
    <3>1. t \in Of(k) /\ t \in Of(k + 1)
      BY <1>0, <2>2
    <3>2. h[t] = IF t = {} THEN 0 ELSE f[Pick(t)] + g[t \ {Pick(t)}]
      BY <3>1
    <3>3. g[t] = IF t = {} THEN 0 ELSE f[Pick(t)] + g[t \ {Pick(t)}]
      BY <2>1, <3>1 DEF Sums
    <3> QED BY <3>2, <3>3
  <2>5. ASSUME NEW s \in Of(k + 1)
        PROVE  h[s] = IF s = {} THEN 0 ELSE f[Pick(s)] + h[s \ {Pick(s)}]
    <3>1. h[s] = IF s = {} THEN 0 ELSE f[Pick(s)] + g[s \ {Pick(s)}]
      OBVIOUS
    <3> HIDE DEF h, Pick
    <3>2. CASE s = {}
      BY <3>1, <3>2
    <3>3. CASE s # {}
      <4>1. h[s \ {Pick(s)}] = g[s \ {Pick(s)}]
        BY <2>2, <3>3
      <4> QED BY <3>1, <3>3, <4>1
    <3> QED BY <3>2, <3>3
  <2>3. h = [s \in Of(k + 1) |-> IF s = {} THEN 0 ELSE f[Pick(s)] + h[s \ {Pick(s)}]]
    <3>1. h = [s \in Of(k + 1) |-> h[s]]
      OBVIOUS
    <3> HIDE DEF h
    <3> QED BY <2>5, <3>1
  <2>4. Sums(h, f, S, k + 1)
    BY <2>3 DEF Sums
  <2> QED BY <2>4
<1>3. Nat \subseteq T
  BY <1>1, <1>2, NatSetInduction
<1> QED BY <1>3

LEMMA TotalDef ==
    ASSUME NEW S, IsFiniteSet(S), NEW f, DOMAIN f = S
    PROVE  \E g : Sums(g, f, S, Cardinality(S)) /\ Total(f) = g[S]
<1> DEFINE Pick(s) == CHOOSE x \in s : TRUE
           Is(g) == g = [s \in SUBSET S |->
                           IF s = {} THEN 0 ELSE f[Pick(s)] + g[s \ {Pick(s)}]]
           iter == CHOOSE g : Is(g)
<1>1. {t \in SUBSET S : Cardinality(t) <= Cardinality(S)} = SUBSET S
  BY FS_Subset
<1>2. Cardinality(S) \in Nat
  BY FS_CardinalityType
<1>3. PICK g : Sums(g, f, S, Cardinality(S))
  BY <1>2, SumsExist
<1>4. Is(g)
  BY <1>1, <1>3 DEF Sums
<1>5. Is(iter)
  <2>1. \E h : Is(h)
    BY <1>4
  <2> QED BY <2>1, Zenon
<1>6. Total(f) = iter[S]
  BY Zenon DEF Total, FoldFunction, FoldFunctionOnSet, MapThenFoldSet
<1>7. Sums(iter, f, S, Cardinality(S))
  BY <1>1, <1>5 DEF Sums
<1> QED BY <1>6, <1>7

\* A sum of natural numbers is one, and none of them is more.
LEMMA TotalBounds ==
    ASSUME NEW S, IsFiniteSet(S), NEW f \in [S -> Nat], NEW c \in S
    PROVE  Total(f) \in Nat /\ f[c] <= Total(f)
<1>1. PICK g : Sums(g, f, S, Cardinality(S)) /\ Total(f) = g[S]
  BY TotalDef
<1>2. Cardinality(S) \in Nat
  BY FS_CardinalityType
<1> DEFINE Bounds(s) == g[s] \in Nat /\ \A d \in s : f[d] <= g[s]
           T == {k \in Nat : \A s \in SUBSET S : Cardinality(s) = k => Bounds(s)}
<1>3. \A s \in SUBSET S : Cardinality(s) <= Cardinality(S) /\ IsFiniteSet(s)
  BY FS_Subset
<1>4. 0 \in T
  <2>1. \A s \in SUBSET S : Cardinality(s) = 0 => s = {}
    BY <1>3, FS_EmptySet
  <2>2. g[{}] = 0
    BY <1>1, <1>3 DEF Sums
  <2> QED BY <2>1, <2>2
<1>5. ASSUME NEW k \in Nat, k \in T PROVE k + 1 \in T
  <2> SUFFICES ASSUME NEW s \in SUBSET S, Cardinality(s) = k + 1 PROVE Bounds(s)
    OBVIOUS
  <2>1. s # {}
    BY FS_EmptySet
  <2>2. PICK x \in s : /\ x = CHOOSE y \in s : TRUE
                       /\ s \ {x} \in SUBSET S
                       /\ Cardinality(s \ {x}) = k
    BY <2>1, SmallerSet
  <2>3. Bounds(s \ {x})
    BY <1>5, <2>2
  <2>4. g[s] = f[x] + g[s \ {x}]
    BY <1>1, <1>3, <2>1, <2>2 DEF Sums
  <2>5. f[x] \in Nat /\ \A d \in s : f[d] \in Nat /\ (d = x \/ d \in s \ {x})
    OBVIOUS
  <2> HIDE DEF Bounds
  <2>6. g[s] \in Nat /\ f[x] <= g[s] /\ g[s \ {x}] <= g[s] /\ g[s \ {x}] \in Nat
    BY <2>3, <2>4, <2>5 DEF Bounds
  <2>7. \A d \in s : f[d] <= g[s]
    BY <2>3, <2>5, <2>6 DEF Bounds
  <2> QED BY <2>6, <2>7 DEF Bounds
<1>6. Nat \subseteq T
  BY <1>4, <1>5, NatSetInduction
<1>7. Bounds(S)
  BY <1>2, <1>6
<1> QED BY <1>1, <1>7

-----------------------------------------------------------------------------
(* The shape of every variable. *)

PairShapes ==
    /\ bShutdown \in [Pairs -> BOOLEAN] /\ bIsSocketAlive \in [Pairs -> BOOLEAN]
    /\ bConnected \in [Pairs -> BOOLEAN]
    /\ errno \in [Pairs -> {None, "EAGAIN", "ECONNRESET"}]
    /\ program \in [Pairs -> {None, "open", "shut", "reset", "dead"}]
MakerShapes ==
    /\ listener \in {None, "look", "open", "second", "register", "done"}
    /\ transport \in {"idle", "connect", "second", "register"}
    /\ accepted \in Tcp \cup {None} /\ x11Pair \in X11 \cup {None}
    /\ m_bShutdown \in BOOLEAN /\ handler \in {None, "live", "deleted"}
UserShapes ==
    /\ user \in {"idle", "pop", "joinSC", "joinCS", "x11", "x11Join", "done"}
    /\ call \in {None, "close", "disconnect"} /\ victim \in Pairs \cup {None}
Shapes == PairShapes /\ MakerShapes /\ UserShapes

Counted == sent \in [Pairs -> 0 .. MaxSent] /\ said \in [Channels -> 0 .. MaxSaid]

\* What a thread, a queue and a socket hold at most, and that who is about to write
\* or to send has something in hand.
SizeOf(c) ==
    /\ Len(sBuf[c]) <= BufLen /\ Len(bytes[c]) <= PacketLen
    /\ Len(queue[c]) <= QueueMax
    /\ read[c] <= Len(socketOut[c]) /\ Room(c) >= 0
    /\ sc[c] = "write" <=> sBuf[c] # <<>>
    /\ cs[c] = "send" <=> bytes[c] # <<>>

Packets == \A c \in Channels : \A i \in 1 .. Len(inbound[c]) : Len(inbound[c][i]) = PacketLen

ShapeInv == Shapes /\ Counted /\ (\A c \in Pairs : SizeOf(c)) /\ Packets

pairFields == <<bShutdown, bIsSocketAlive, bConnected, errno, program>>

LEMMA PairShapesNext ==
    ASSUME TunnelInv, PairShapes, UserShapes, [Next]_vars
    PROVE  PairShapes'
<1> USE DEF threadVars, scVars, csVars, programVars, channelVars, listenerVars, x11Vars, userVars,
            pairVars, socketVars, QuietPair, QuietChannel, OutsideUnchanged, Set, UserUnchanged,
            UserQuiet, ScUnchanged, CsUnchanged, pairFields
<1>1. ASSUME NEW c \in Pairs, socketToChannelThread(c) PROVE PairShapes'
  <2>1. CASE UNCHANGED pairFields
    BY <2>1 DEF PairShapes
  <2>2. ASSUME ScLook(c) \/ ScRecvData(c) \/ ScJoin(c) \/ ScCloseSocket(c) \/ ScCloseChannel(c)
        PROVE  UNCHANGED pairFields
    BY <2>2 DEF ScLook, ScRecvData, ScJoin, ScCloseSocket, ScCloseChannel
  <2>3. CASE ScRecvNothing(c)
    <3>1. \E v \in {errno[c], "EAGAIN", "ECONNRESET"}, p \in {program[c], "dead"},
             l \in {bConnected[c], FALSE}, a \in {bIsSocketAlive[c], FALSE} :
             /\ UNCHANGED bShutdown
             /\ errno' = errno \/ errno' = [errno EXCEPT ![c] = v]
             /\ program' = program \/ program' = [program EXCEPT ![c] = p]
             /\ bConnected' = bConnected \/ bConnected' = [bConnected EXCEPT ![c] = l]
             /\ bIsSocketAlive' = bIsSocketAlive
                  \/ bIsSocketAlive' = [bIsSocketAlive EXCEPT ![c] = a]
      BY <2>3 DEF ScRecvNothing, SocketDied
    <3>2. errno' \in [Pairs -> {None, "EAGAIN", "ECONNRESET"}]
      BY <3>1 DEF PairShapes
    <3>3. program' \in [Pairs -> {None, "open", "shut", "reset", "dead"}]
      BY <3>1 DEF PairShapes
    <3>4. bConnected' \in [Pairs -> BOOLEAN]
      BY <3>1 DEF PairShapes
    <3>5. bIsSocketAlive' \in [Pairs -> BOOLEAN]
      BY <3>1 DEF PairShapes
    <3> QED BY <3>1, <3>2, <3>3, <3>4, <3>5 DEF PairShapes
  <2>4. CASE ScWrite(c)
    <3>1. /\ UNCHANGED <<bShutdown, bIsSocketAlive, errno, program>>
          /\ bConnected' = bConnected \/ bConnected' = [bConnected EXCEPT ![c] = FALSE]
      BY <2>4 DEF ScWrite
    <3> QED BY <3>1 DEF PairShapes
  <2>5. CASE ScEnd(c)
    <3>1. /\ UNCHANGED <<bConnected, errno, program>>
          /\ bIsSocketAlive' = [bIsSocketAlive EXCEPT ![c] = FALSE]
          /\ bShutdown' = [bShutdown EXCEPT ![c] = TRUE]
      BY <2>5 DEF ScEnd
    <3> QED BY <3>1 DEF PairShapes
  <2> QED BY <1>1, <2>1, <2>2, <2>3, <2>4, <2>5 DEF socketToChannelThread
<1>2. CASE \E c \in Pairs, v \in {"open", "shut", "reset", "dead"} :
             /\ UNCHANGED <<bShutdown, bIsSocketAlive, bConnected, errno>>
             /\ program' = program \/ program' = [program EXCEPT ![c] = v]
  BY <1>2 DEF PairShapes
<1>3. ASSUME NEW c \in Pairs, channelToSocketThread(c) \/ ProgramConnects(c) \/ ProgramEnds(c)
      PROVE  \E v \in {"open", "shut", "reset", "dead"} :
             /\ UNCHANGED <<bShutdown, bIsSocketAlive, bConnected, errno>>
             /\ program' = program \/ program' = [program EXCEPT ![c] = v]
  BY <1>3 DEF channelToSocketThread, CsRead, CsSend, CsSendFails, CsCheck, ProgramConnects,
     ProgramEnds
<1>4. ASSUME X11Connect
      PROVE  /\ UNCHANGED <<bShutdown, bIsSocketAlive, bConnected, errno>>
             /\ program' = program \/ program' = [program EXCEPT ![x11Pair] = "open"]
             /\ x11Pair \in Pairs
  BY <1>4, Constants DEF X11Connect, TunnelInv, Made
<1>5. CASE UNCHANGED pairFields
  BY <1>5 DEF PairShapes
<1>6. ASSUME TcpInit \/ Listener \/ X11Second \/ X11Register
             \/ \E c \in X11 : handleX11Connection(c)
      PROVE  UNCHANGED pairFields
  BY <1>6 DEF TcpInit, Listener, ListenerLook, OpenChannel, ListenerSecond, ListenerRegister,
     X11Second, X11Register, handleX11Connection
<1>7. ASSUME closeAutomaticDirectTCPIP \/ disconnect \/ JoinSocketToChannel \/ ClosePair
             \/ X11Shutdown
      PROVE  UNCHANGED pairFields
  BY <1>7 DEF closeAutomaticDirectTCPIP, disconnect, JoinSocketToChannel, ClosePair, X11Shutdown
<1>8. CASE PopPair \/ X11Pop
  <2>1. /\ UNCHANGED <<bIsSocketAlive, bConnected, errno, program>>
        /\ bShutdown' = bShutdown \/ \E c : bShutdown' = [bShutdown EXCEPT ![c] = TRUE]
    BY <1>8 DEF PopPair, X11Pop
  <2> QED BY <2>1 DEF PairShapes
<1>9. ASSUME \/ \E c \in Pairs : \/ ProgramSends(c) \/ ProgramReads(c)
                                 \/ ServerTakes(c) \/ ServerCloses(c)
             \/ OtherOpens \/ UNCHANGED vars \/ \E c \in Channels : ServerSays(c)
      PROVE  UNCHANGED pairFields
  BY <1>9 DEF ProgramSends, ProgramReads, ServerTakes, ServerCloses, OtherOpens, ServerSays, vars
<1> QED BY <1>1, <1>2, <1>3, <1>4, <1>5, <1>6, <1>7, <1>8, <1>9, Constants
        DEF Next, UserSteps, TransportThread

makerFields == <<listener, transport, accepted, x11Pair, m_bShutdown, handler>>
callFields == <<user, call, victim>>

\* The threads of a pair, the programs and the server leave the makers and the user alone.
LEMMA PairsApart ==
    ASSUME NEW c \in Pairs,
           \/ socketToChannelThread(c) \/ channelToSocketThread(c)
           \/ ProgramConnects(c) \/ ProgramSends(c) \/ ProgramReads(c)
           \/ ProgramEnds(c) \/ ServerTakes(c) \/ ServerCloses(c)
    PROVE  UNCHANGED <<makerFields, callFields>>
<1> USE DEF listenerVars, x11Vars, userVars, OutsideUnchanged, ScUnchanged, CsUnchanged,
            makerFields, callFields
<1>1. CASE socketToChannelThread(c)
  BY <1>1 DEF socketToChannelThread, ScLook, ScRecvData, ScRecvNothing, ScWrite, ScEnd, ScJoin,
     ScCloseSocket, ScCloseChannel
<1>2. CASE channelToSocketThread(c)
  BY <1>2 DEF channelToSocketThread, CsRead, CsSend, CsSendFails, CsCheck
<1>3. CASE \/ ProgramConnects(c) \/ ProgramSends(c) \/ ProgramReads(c)
           \/ ProgramEnds(c) \/ ServerTakes(c) \/ ServerCloses(c)
  BY <1>3 DEF ProgramConnects, ProgramSends, ProgramReads, ProgramEnds, ServerTakes, ServerCloses
<1> QED BY <1>1, <1>2, <1>3

LEMMA MakerShapesNext ==
    ASSUME MakerShapes, [Next]_vars
    PROVE  MakerShapes'
<1> USE DEF threadVars, scVars, csVars, programVars, channelVars, listenerVars, x11Vars, userVars,
            pairVars, socketVars, QuietPair, QuietChannel, OutsideUnchanged, UserUnchanged,
            UserQuiet, ScUnchanged, CsUnchanged, makerFields
<1>1. CASE UNCHANGED makerFields
  BY <1>1 DEF MakerShapes
<1>2. ASSUME \E c \in Pairs : \/ socketToChannelThread(c) \/ channelToSocketThread(c)
                             \/ ProgramConnects(c) \/ ProgramSends(c) \/ ProgramReads(c)
                             \/ ProgramEnds(c) \/ ServerTakes(c) \/ ServerCloses(c)
      PROVE  UNCHANGED makerFields
  BY <1>2, PairsApart DEF callFields
<1>3. ASSUME OtherOpens \/ UNCHANGED vars \/ \E c \in Channels : ServerSays(c)
      PROVE  UNCHANGED makerFields
  BY <1>3 DEF OtherOpens, ServerSays, vars
<1>4. CASE TcpInit
  BY <1>4 DEF TcpInit, MakerShapes
<1>5. CASE ListenerLook
  BY <1>5 DEF ListenerLook, MakerShapes
<1>6. CASE OpenChannel \/ ListenerSecond \/ ListenerRegister
  BY <1>6 DEF OpenChannel, ListenerSecond, ListenerRegister, MakerShapes
<1>7. CASE TransportThread \/ \E c \in X11 : handleX11Connection(c)
  BY <1>7 DEF TransportThread, X11Connect, X11Second, X11Register, handleX11Connection,
     MakerShapes
<1>8. CASE closeAutomaticDirectTCPIP \/ disconnect \/ UserSteps
  BY <1>8 DEF closeAutomaticDirectTCPIP, disconnect, Shutdown, UserSteps, PopPair,
     JoinSocketToChannel, ClosePair, X11Pop, X11Shutdown, MakerShapes
<1> QED BY <1>1, <1>2, <1>3, <1>4, <1>5, <1>6, <1>7, <1>8, Constants DEF Next, Listener

LEMMA UserShapesNext ==
    ASSUME TunnelInv, UserShapes, [Next]_vars
    PROVE  UserShapes'
<1> USE DEF threadVars, scVars, csVars, programVars, channelVars, listenerVars, x11Vars, userVars,
            pairVars, socketVars, QuietPair, QuietChannel, OutsideUnchanged, ScUnchanged,
            CsUnchanged
<1>1. CASE UNCHANGED <<user, call, victim>>
  BY <1>1 DEF UserShapes
<1>2. ASSUME \E c \in Pairs : \/ socketToChannelThread(c) \/ channelToSocketThread(c)
                             \/ ProgramConnects(c) \/ ProgramSends(c) \/ ProgramReads(c)
                             \/ ProgramEnds(c) \/ ServerTakes(c) \/ ServerCloses(c)
      PROVE  UNCHANGED <<user, call, victim>>
  BY <1>2, PairsApart DEF callFields
<1>3. ASSUME \/ OtherOpens \/ UNCHANGED vars \/ \E c \in Channels : ServerSays(c)
             \/ TcpInit \/ Listener \/ TransportThread \/ \E c \in X11 : handleX11Connection(c)
      PROVE  UNCHANGED <<user, call, victim>>
  BY <1>3 DEF OtherOpens, ServerSays, vars, TcpInit, Listener, ListenerLook, OpenChannel,
     ListenerSecond, ListenerRegister, TransportThread, X11Connect, X11Second, X11Register,
     handleX11Connection
<1>4. CASE closeAutomaticDirectTCPIP \/ disconnect \/ JoinSocketToChannel \/ ClosePair
           \/ X11Shutdown
  BY <1>4 DEF closeAutomaticDirectTCPIP, disconnect, Shutdown, JoinSocketToChannel, ClosePair,
     X11Shutdown, UserShapes
<1>5. CASE PopPair \/ X11Pop
  <2>1. /\ m_pHandlers # <<>> => Head(m_pHandlers) \in Pairs
        /\ m_pX11Handlers # <<>> => Head(m_pX11Handlers) \in Pairs
    <3>1. \A S : \A s \in Seq(S) : s # <<>> => Head(s) \in S
      OBVIOUS
    <3> QED BY <3>1, Constants DEF TunnelInv, Types
  <2>2. /\ user' \in {"idle", "x11", "joinSC", "done", "x11Join"} /\ call' = call
        /\ \/ victim' = None
           \/ m_pHandlers # <<>> /\ victim' = Head(m_pHandlers)
           \/ m_pX11Handlers # <<>> /\ victim' = Head(m_pX11Handlers)
    BY <1>5 DEF PopPair, X11Pop
  <2> QED BY <2>1, <2>2 DEF UserShapes
<1> QED BY <1>1, <1>2, <1>3, <1>4, <1>5, Constants DEF Next, UserSteps

LEMMA CountedNext ==
    ASSUME TunnelInv, Counted, [Next]_vars
    PROVE  Counted'
<1>1. /\ IsFiniteSet(Pairs) /\ IsFiniteSet(Channels)
      /\ MaxSent \in Nat /\ MaxSaid \in Nat
  BY TunnelAssumption, FS_AddElement DEF Channels
<1>2. ASSUME NEW c \in Pairs, ProgramSends(c) PROVE Counted'
  <2>1. /\ sent' = [sent EXCEPT ![c] = sent[c] + 1] /\ said' = said /\ Total(sent) < MaxSent
    BY <1>2 DEF ProgramSends, Set, channelVars
  <2>2. sent \in [Pairs -> Nat]
    BY DEF Counted
  <2>3. Total(sent) \in Nat /\ sent[c] <= Total(sent)
    BY <1>1, <2>2, TotalBounds
  <2>4. sent[c] + 1 \in 0 .. MaxSent
    BY <1>1, <2>1, <2>2, <2>3
  <2> QED BY <2>1, <2>4 DEF Counted
<1>3. ASSUME NEW c \in Channels, ServerSays(c) PROVE Counted'
  <2>1. /\ said' = [said EXCEPT ![c] = said[c] + 1] /\ sent' = sent /\ Total(said) < MaxSaid
    BY <1>3 DEF ServerSays, Set, programVars
  <2>2. said \in [Channels -> Nat]
    BY DEF Counted
  <2>3. Total(said) \in Nat /\ said[c] <= Total(said)
    BY <1>1, <2>2, TotalBounds
  <2>4. said[c] + 1 \in 0 .. MaxSaid
    BY <1>1, <2>1, <2>2, <2>3
  <2> QED BY <2>1, <2>4 DEF Counted
<1>4. ASSUME NEW c \in Pairs, Carries(c), ~ProgramSends(c) PROVE UNCHANGED <<sent, said>>
  BY <1>4 DEF Carries, ScRecvData, ScWrite, ServerTakes, CsSend, CsSendFails, ProgramReads, CsRead,
     ScUnchanged, CsUnchanged, channelVars, programVars
<1>5. CASE (\A c \in Pairs : ~Carries(c)) /\ \A c \in Channels : ~ServerSays(c)
  BY <1>5, OthersQuiet DEF upVars, downVars, Counted
<1> QED BY <1>2, <1>3, <1>4, <1>5 DEF Counted

LEMMA PacketsNext ==
    ASSUME TunnelInv, ByteInv, Packets, [Next]_vars
    PROVE  Packets'
<1>1. inbound \in [Channels -> Seq(Seq(Byte))] /\ said \in [Channels -> Nat]
  BY DEF ByteInv, ByteTypes
<1>2. ASSUME NEW c \in Pairs, CsRead(c), At(c) # None, inbound[At(c)] # <<>> PROVE Packets'
  <2>1. PICK d \in Channels : d = At(c)
    BY <1>2, Constants DEF TunnelInv, Types, At
  <2>2. inbound' = [inbound EXCEPT ![d] = Tail(inbound[d])]
    BY <1>2, <2>1 DEF CsRead, Set
  <2>3. inbound[d] \in Seq(Seq(Byte)) /\ inbound[d] # <<>>
    BY <1>1, <1>2, <2>1
  <2>4. /\ Len(Tail(inbound[d])) = Len(inbound[d]) - 1
        /\ \A i \in 1 .. Len(inbound[d]) - 1 : Tail(inbound[d])[i] = inbound[d][i + 1]
                                               /\ i + 1 \in 1 .. Len(inbound[d])
    BY <2>3
  <2>5. \A i \in 1 .. Len(Tail(inbound[d])) : Len(Tail(inbound[d])[i]) = PacketLen
    BY <2>4 DEF Packets
  <2> QED BY <1>1, <2>2, <2>5 DEF Packets
<1>3. ASSUME NEW c \in Channels, ServerSays(c) PROVE Packets'
  <2> DEFINE b == Bytes(c, said[c] * PacketLen + 1, (said[c] + 1) * PacketLen)
  <2>1. b \in Seq(Byte) /\ Len(b) = PacketLen
    <3>1. /\ PacketLen \in Nat
          /\ (said[c] + 1) * PacketLen - (said[c] * PacketLen + 1) + 1 = PacketLen
      BY <1>1, TunnelAssumption
    <3>2. b \in Seq(Byte)
      BY <1>1, BytesType
    <3>3. DOMAIN b = 1 .. PacketLen
      BY <3>1 DEF Bytes
    <3> QED BY <3>1, <3>2, <3>3
  <2>2. inbound' = [inbound EXCEPT ![c] = Append(inbound[c], b)]
    BY <1>3 DEF ServerSays, Set
  <2> HIDE DEF b
  <2>3. inbound[c] \in Seq(Seq(Byte))
    BY <1>1
  <2>4. /\ Len(Append(inbound[c], b)) = Len(inbound[c]) + 1
        /\ \A i \in 1 .. Len(inbound[c]) + 1 :
             \/ i \in 1 .. Len(inbound[c]) /\ Append(inbound[c], b)[i] = inbound[c][i]
             \/ Append(inbound[c], b)[i] = b
    <3>1. \A s \in Seq(Seq(Byte)), e \in Seq(Byte) :
            /\ Len(Append(s, e)) = Len(s) + 1 /\ Append(s, e)[Len(s) + 1] = e
            /\ \A i \in 1 .. Len(s) : Append(s, e)[i] = s[i]
      OBVIOUS
    <3>2. \A s \in Seq(Seq(Byte)) : \A i \in 1 .. Len(s) + 1 : i \in 1 .. Len(s) \/ i = Len(s) + 1
      OBVIOUS
    <3> QED BY <2>1, <2>3, <3>1, <3>2
  <2>5. \A i \in 1 .. Len(Append(inbound[c], b)) : Len(Append(inbound[c], b)[i]) = PacketLen
    BY <2>1, <2>4 DEF Packets
  <2> QED BY <1>1, <2>2, <2>5 DEF Packets
<1>4. ASSUME NEW c \in Pairs, Carries(c), ~(CsRead(c) /\ At(c) # None /\ inbound[At(c)] # <<>>)
      PROVE  UNCHANGED inbound
  BY <1>4 DEF Carries, ScRecvData, ScWrite, ServerTakes, CsSend, CsSendFails, ProgramReads,
     ProgramSends, ScUnchanged, CsUnchanged, channelVars, programVars
<1>5. CASE (\A c \in Pairs : ~Carries(c)) /\ \A c \in Channels : ~ServerSays(c)
  BY <1>5, OthersQuiet DEF upVars, downVars, Packets
<1> QED BY <1>2, <1>3, <1>4, <1>5 DEF Packets

\* The first n elements of a sequence, and the rest.
LEMMA CutSizes ==
    ASSUME NEW s \in Seq(Byte), NEW n \in 1 .. Len(s)
    PROVE  /\ SubSeq(s, 1, n) \in Seq(Byte) /\ Len(SubSeq(s, 1, n)) = n
           /\ SubSeq(s, 1, n) # <<>>
           /\ SubSeq(s, n + 1, Len(s)) \in Seq(Byte)
           /\ Len(SubSeq(s, n + 1, Len(s))) = Len(s) - n
<1>1. /\ SubSeq(s, 1, n) \in Seq(Byte) /\ Len(SubSeq(s, 1, n)) = n
      /\ SubSeq(s, n + 1, Len(s)) \in Seq(Byte)
      /\ Len(SubSeq(s, n + 1, Len(s))) = Len(s) - n
  OBVIOUS
<1>2. SubSeq(s, 1, n) # <<>>
  BY <1>1
<1> QED BY <1>1, <1>2

LEMMA SizesUp ==
    ASSUME TunnelInv, ByteInv, \A d \in Pairs : SizeOf(d), NEW c \in Pairs,
           ScRecvData(c) \/ ScWrite(c)
    PROVE  \A d \in Pairs : SizeOf(d)'
<1>1. /\ sc \in [Pairs -> {None, "look", "recv", "write", "end", "join", "close",
                           "channel", "done"}]
      /\ sBuf \in [Pairs -> Seq(Byte)] /\ socketIn[c] \in Seq(Byte)
      /\ queue \in [Channels -> Seq(Seq(Byte))]
      /\ BufLen \in Nat \ {0} /\ QueueMax \in Nat
  BY TunnelAssumption DEF TunnelInv, Types, ByteInv, ByteTypes
<1>2. CASE ScRecvData(c)
  <2> DEFINE n == Min({BufLen, Len(socketIn[c])})
             a == SubSeq(socketIn[c], 1, n)
  <2>1. /\ sc[c] = "recv" /\ sc' = [sc EXCEPT ![c] = "write"] /\ socketIn[c] # <<>>
        /\ sBuf' = [sBuf EXCEPT ![c] = a]
        /\ UNCHANGED <<queue, bytes, read, socketOut, cs>>
    BY <1>2 DEF ScRecvData, HasData, Set, channelVars, ScUnchanged, csVars, programVars
  <2>2. n \in 1 .. Len(socketIn[c]) /\ n <= BufLen
    <3>1. \A x, y \in Nat \ {0} : Min({x, y}) \in 1 .. y /\ Min({x, y}) <= x
      BY DEF Min
    <3>2. Len(socketIn[c]) \in Nat \ {0}
      BY <1>1, <2>1, EmptySeq
    <3> QED BY <1>1, <3>1, <3>2
  <2> HIDE DEF n
  <2>3. Len(a) = n /\ a # <<>>
    BY <1>1, <2>2, CutSizes
  <2> HIDE DEF a
  <2>4. /\ sc'[c] = "write" /\ sBuf'[c] = a
        /\ \A d \in Pairs \ {c} : sc'[d] = sc[d] /\ sBuf'[d] = sBuf[d]
    BY <1>1, <2>1
  <2>5. SizeOf(c)'
    BY <2>1, <2>2, <2>3, <2>4 DEF SizeOf, Room
  <2>6. \A d \in Pairs \ {c} : SizeOf(d)'
    BY <2>1, <2>4 DEF SizeOf, Room
  <2> QED BY <2>5, <2>6
<1>3. CASE ScWrite(c)
  <2>1. /\ sc[c] = "write" /\ sc' = [sc EXCEPT ![c] = "recv"] /\ sBuf' = [sBuf EXCEPT ![c] = <<>>]
        /\ UNCHANGED <<bytes, read, socketOut, cs>>
        /\ \/ queue' = queue
           \/ /\ Len(queue[At(c)]) < QueueMax /\ At(c) # None
              /\ queue' = [queue EXCEPT ![At(c)] = Append(queue[At(c)], sBuf[c])]
    BY <1>3 DEF ScWrite, Set, ScUnchanged, csVars, programVars
  <2>2. \A d \in Channels : queue'[d] = queue[d] \/ Len(queue'[d]) <= QueueMax
    <3>1. \A s \in Seq(Seq(Byte)), e \in Seq(Byte) :
            /\ Len(Append(s, e)) = Len(s) + 1 /\ Len(s) \in Nat
      OBVIOUS
    <3>2. At(c) # None => At(c) \in Channels
      BY Constants DEF TunnelInv, Types, At
    <3>3. sBuf[c] \in Seq(Byte)
      BY <1>1
    <3>4. CASE queue' = queue
      BY <3>4
    <3>5. ASSUME Len(queue[At(c)]) < QueueMax, At(c) # None,
                 queue' = [queue EXCEPT ![At(c)] = Append(queue[At(c)], sBuf[c])]
          PROVE  \A d \in Channels : queue'[d] = queue[d] \/ Len(queue'[d]) <= QueueMax
      <4>1. PICK e \in Channels : e = At(c)
        BY <3>2, <3>5
      <4>2. queue[e] \in Seq(Seq(Byte))
        BY <1>1
      <4>3. Len(Append(queue[e], sBuf[c])) <= QueueMax
        BY <1>1, <3>1, <3>3, <3>5, <4>1, <4>2
      <4> QED BY <1>1, <3>5, <4>1, <4>3
    <3> QED BY <2>1, <3>4, <3>5
  <2>3. \A d \in Pairs : Len(queue'[d]) <= QueueMax
    BY <2>2, Constants DEF SizeOf
  <2>4. /\ sc'[c] = "recv" /\ sBuf'[c] = <<>>
        /\ \A d \in Pairs \ {c} : sc'[d] = sc[d] /\ sBuf'[d] = sBuf[d]
    BY <1>1, <2>1
  <2>5. SizeOf(c)'
    BY <1>1, <2>1, <2>3, <2>4 DEF SizeOf, Room
  <2>6. \A d \in Pairs \ {c} : SizeOf(d)'
    BY <2>1, <2>3, <2>4 DEF SizeOf, Room
  <2> QED BY <2>5, <2>6
<1> QED BY <1>2, <1>3

LEMMA SizesOut ==
    ASSUME TunnelInv, ByteInv, \A d \in Pairs : SizeOf(d), NEW c \in Pairs,
           ProgramSends(c) \/ ServerTakes(c) \/ ProgramReads(c)
    PROVE  \A d \in Pairs : SizeOf(d)'
<1>1. /\ queue \in [Channels -> Seq(Seq(Byte))] /\ socketOut[c] \in Seq(Byte)
      /\ read \in [Pairs -> Nat] /\ QueueMax \in Nat /\ SocketRoom \in Nat
  BY TunnelAssumption DEF ByteInv, ByteTypes
<1>2. UNCHANGED <<sc, cs, sBuf, bytes, socketOut>>
  BY DEF ProgramSends, ServerTakes, ProgramReads, OutsideUnchanged, pairVars, scVars, csVars
<1>3. CASE ProgramSends(c)
  <2>1. UNCHANGED <<queue, read>>
    BY <1>3 DEF ProgramSends, channelVars
  <2> QED BY <1>2, <2>1 DEF SizeOf, Room
<1>4. CASE ServerTakes(c)
  <2>1. /\ queue[c] # <<>> /\ queue' = [queue EXCEPT ![c] = Tail(queue[c])] /\ UNCHANGED read
    BY <1>4 DEF ServerTakes, Set, programVars
  <2>2. Len(Tail(queue[c])) <= Len(queue[c]) /\ Len(Tail(queue[c])) \in Nat /\ Len(queue[c]) \in Nat
    <3>1. queue[c] \in Seq(Seq(Byte))
      BY <1>1, Constants
    <3> QED BY <2>1, <3>1
  <2>3. SizeOf(c)'
    <3>1. queue'[c] = Tail(queue[c])
      BY <1>1, <2>1, Constants
    <3> QED BY <1>1, <1>2, <2>1, <2>2, <3>1 DEF SizeOf, Room
  <2>4. \A d \in Pairs \ {c} : queue'[d] = queue[d]
    BY <1>1, <2>1, Constants
  <2> QED BY <1>2, <2>1, <2>3, <2>4 DEF SizeOf, Room
<1>5. CASE ProgramReads(c)
  <2>1. /\ read' = [read EXCEPT ![c] = Len(socketOut[c])] /\ UNCHANGED queue
    BY <1>5 DEF ProgramReads, Set, channelVars
  <2>2. Len(socketOut[c]) \in Nat
    BY <1>1
  <2>3. read'[c] = Len(socketOut[c]) /\ \A d \in Pairs \ {c} : read'[d] = read[d]
    BY <1>1, <2>1
  <2> QED BY <1>1, <1>2, <2>1, <2>2, <2>3 DEF SizeOf, Room
<1> QED BY <1>3, <1>4, <1>5

LEMMA SizesDown ==
    ASSUME TunnelInv, ByteInv, Packets, \A d \in Pairs : SizeOf(d), NEW c \in Pairs,
           CsSend(c) \/ CsSendFails(c) \/ (CsRead(c) /\ At(c) # None /\ inbound[At(c)] # <<>>)
    PROVE  \A d \in Pairs : SizeOf(d)'
<1>1. /\ cs \in [Pairs -> {None, "read", "send", "check", "done"}]
      /\ bytes \in [Pairs -> Seq(Byte)] /\ socketOut \in [Pairs -> Seq(Byte)]
      /\ read \in [Pairs -> Nat] /\ inbound \in [Channels -> Seq(Seq(Byte))]
      /\ PacketLen \in Nat \ {0} /\ SocketRoom \in Nat
  BY TunnelAssumption DEF TunnelInv, Types, ByteInv, ByteTypes
<1>2. cs[c] \in {"send", "read"} /\ UNCHANGED <<sc, sBuf, queue, read>>
  BY DEF CsSend, CsSendFails, CsRead, CsUnchanged, scVars, channelVars
<1>3. ASSUME NEW d \in Pairs, cs'[d] = cs[d], bytes'[d] = bytes[d], socketOut'[d] = socketOut[d]
      PROVE  SizeOf(d)'
  BY <1>2, <1>3 DEF SizeOf, Room
<1>4. CASE CsRead(c) /\ At(c) # None /\ inbound[At(c)] # <<>>
  <2>1. PICK e \in Channels : e = At(c)
    BY <1>4, Constants DEF TunnelInv, Types, At
  <2>2. /\ bytes' = [bytes EXCEPT ![c] = Head(inbound[e])] /\ cs' = [cs EXCEPT ![c] = "send"]
        /\ UNCHANGED socketOut
    BY <1>4, <2>1 DEF CsRead, Set
  <2>3. inbound[e] \in Seq(Seq(Byte)) /\ inbound[e] # <<>>
    BY <1>1, <1>4, <2>1
  <2>4. Head(inbound[e]) \in Seq(Byte) /\ Head(inbound[e]) = inbound[e][1] /\ 1 \in 1 .. Len(inbound[e])
    BY <2>3
  <2>5. Len(Head(inbound[e])) = PacketLen
    BY <2>4 DEF Packets
  <2>6. Head(inbound[e]) # <<>>
    BY <1>1, <2>5
  <2>7. /\ bytes'[c] = Head(inbound[e]) /\ cs'[c] = "send"
        /\ \A d \in Pairs \ {c} : bytes'[d] = bytes[d] /\ cs'[d] = cs[d]
    BY <1>1, <2>2
  <2>8. SizeOf(c)'
    BY <1>1, <1>2, <2>2, <2>5, <2>6, <2>7 DEF SizeOf, Room
  <2> QED BY <1>3, <2>2, <2>7, <2>8
<1>5. CASE CsSendFails(c)
  <2>1. /\ bytes' = [bytes EXCEPT ![c] = <<>>] /\ cs' = [cs EXCEPT ![c] = "done"]
        /\ UNCHANGED socketOut
    BY <1>5 DEF CsSendFails, Set, channelVars
  <2>2. /\ bytes'[c] = <<>> /\ cs'[c] = "done"
        /\ \A d \in Pairs \ {c} : bytes'[d] = bytes[d] /\ cs'[d] = cs[d]
    BY <1>1, <2>1
  <2>3. SizeOf(c)'
    BY <1>1, <1>2, <2>1, <2>2 DEF SizeOf, Room
  <2> QED BY <1>3, <2>1, <2>2, <2>3
<1>6. CASE CsSend(c)
  <2> DEFINE n == Min({Room(c), Len(bytes[c])})
             a == SubSeq(bytes[c], 1, n)
             r == SubSeq(bytes[c], n + 1, Len(bytes[c]))
  <2>1. /\ cs[c] = "send" /\ n > 0
        /\ socketOut' = [socketOut EXCEPT ![c] = socketOut[c] \o a]
        /\ bytes' = [bytes EXCEPT ![c] = r]
        /\ \E v \in {"read", "done"} :
             cs' = [cs EXCEPT ![c] = IF r # <<>> THEN "send" ELSE v]
    BY <1>6 DEF CsSend, Set
  <2>2. /\ bytes[c] \in Seq(Byte) /\ socketOut[c] \in Seq(Byte) /\ read[c] \in Nat
        /\ Len(bytes[c]) \in Nat /\ Len(socketOut[c]) \in Nat /\ Room(c) \in Nat
        /\ Room(c) = SocketRoom - (Len(socketOut[c]) - read[c])
        /\ Len(bytes[c]) <= PacketLen /\ read[c] <= Len(socketOut[c])
    <3>1. bytes[c] \in Seq(Byte) /\ socketOut[c] \in Seq(Byte) /\ read[c] \in Nat
      BY <1>1
    <3>2. Len(bytes[c]) \in Nat /\ Len(socketOut[c]) \in Nat
      BY <3>1
    <3> QED BY <1>1, <3>1, <3>2 DEF SizeOf, Room
  <2>3. n \in 1 .. Len(bytes[c]) /\ n <= Room(c)
    <3>1. \A x, y \in Nat : Min({x, y}) \in {x, y} /\ Min({x, y}) <= x /\ Min({x, y}) <= y
      <4>1. ASSUME NEW x \in Nat, NEW y \in Nat
            PROVE  \E z \in {x, y} : \A w \in {x, y} : z <= w
        <5>1. x <= y \/ y <= x
          OBVIOUS
        <5> QED BY <5>1
      <4> QED BY <4>1 DEF Min
    <3>2. n \in {Room(c), Len(bytes[c])} /\ n <= Room(c) /\ n <= Len(bytes[c])
      BY <2>2, <3>1
    <3> HIDE DEF n
    <3> QED BY <2>1, <2>2, <3>2
  <2> HIDE DEF n
  <2>4. /\ a \in Seq(Byte) /\ Len(a) = n /\ r \in Seq(Byte) /\ Len(r) = Len(bytes[c]) - n
    BY <2>2, <2>3, CutSizes
  <2> HIDE DEF a, r
  <2>5. Len(socketOut[c] \o a) = Len(socketOut[c]) + n
    <3>1. \A s, t \in Seq(Byte) : Len(s \o t) = Len(s) + Len(t)
      OBVIOUS
    <3> QED BY <2>2, <2>4, <3>1
  <2>6. /\ bytes'[c] = r /\ socketOut'[c] = socketOut[c] \o a /\ (cs'[c] = "send" <=> r # <<>>)
        /\ \A d \in Pairs \ {c} : /\ bytes'[d] = bytes[d] /\ cs'[d] = cs[d]
                                  /\ socketOut'[d] = socketOut[d]
    BY <1>1, <2>1
  <2>7. Len(r) <= PacketLen
    BY <1>1, <2>2, <2>3, <2>4
  <2>8. read'[c] = read[c] /\ read'[c] <= Len(socketOut'[c]) /\ Room(c)' >= 0
    BY <1>1, <1>2, <2>2, <2>3, <2>5, <2>6 DEF Room
  <2>9. SizeOf(c)'
    BY <1>2, <2>6, <2>7, <2>8 DEF SizeOf
  <2> QED BY <1>3, <2>6, <2>9
<1> QED BY <1>4, <1>5, <1>6

LEMMA SizesNext ==
    ASSUME TunnelInv, ByteInv, Packets, \A d \in Pairs : SizeOf(d), [Next]_vars
    PROVE  \A d \in Pairs : SizeOf(d)'
<1>1. CASE \E c \in Pairs : Carries(c)
  BY <1>1, SizesUp, SizesOut, SizesDown DEF Carries
<1>2. CASE \E c \in Channels : ServerSays(c)
  <2>1. UNCHANGED <<sc, cs, sBuf, bytes, socketOut, queue, read>>
    BY <1>2 DEF ServerSays, OutsideUnchanged, pairVars, scVars, csVars, programVars
  <2> QED BY <2>1 DEF SizeOf, Room
<1>3. CASE (\A c \in Pairs : ~Carries(c)) /\ \A c \in Channels : ~ServerSays(c)
  <2>1. /\ UNCHANGED <<sBuf, bytes, socketOut, queue, read>>
        /\ \A d \in Pairs : /\ sc[d] = "write" <=> sc'[d] = "write"
                            /\ cs[d] = "send" <=> cs'[d] = "send"
    BY <1>3, OthersQuiet DEF upVars, downVars, StaysBusy
  <2> QED BY <2>1 DEF SizeOf, Room
<1> QED BY <1>1, <1>2, <1>3

LEMMA ShapeInit == Init => ShapeInv
<1> SUFFICES ASSUME Init PROVE ShapeInv
  OBVIOUS
<1> USE Constants DEF Init, All
<1>1. Shapes
  BY DEF Shapes, PairShapes, MakerShapes, UserShapes
<1>2. Counted
  BY TunnelAssumption DEF Counted
<1>3. ASSUME NEW c \in Pairs PROVE SizeOf(c)
  <2>1. /\ sBuf[c] = <<>> /\ bytes[c] = <<>> /\ queue[c] = <<>> /\ read[c] = 0
        /\ socketOut[c] = <<>> /\ sc[c] = None /\ cs[c] = None /\ Len(<<>>) = 0
    OBVIOUS
  <2>2. {BufLen, PacketLen, QueueMax, SocketRoom} \subseteq Nat
    BY TunnelAssumption
  <2> QED BY <2>1, <2>2 DEF SizeOf, Room, None
<1>4. Packets
  <2>1. \A c \in Channels : Len(inbound[c]) = 0
    OBVIOUS
  <2> QED BY <2>1 DEF Packets
<1> QED BY <1>1, <1>2, <1>3, <1>4 DEF ShapeInv

\* In every reachable state the variables have their types: no thread holds more than
\* one recv or one packet, no queue and no socket more than it has room for, and a thread
\* is about to write or to send exactly when it holds something (socketToChannelThread,
\* channelToSocketThread, PTssh::channelWrite).
THEOREM TunnelTypes == Spec => []TypeOK
<1>1. TunnelInv /\ ByteInv /\ ShapeInv /\ [Next]_vars => ShapeInv'
  BY PairShapesNext, MakerShapesNext, UserShapesNext, CountedNext, PacketsNext, SizesNext
     DEF ShapeInv, Shapes
<1>2. TunnelInv /\ ShapeInv => TypeOK
  BY DEF TunnelInv, Types, ShapeInv, Shapes, PairShapes, MakerShapes, UserShapes, Counted, SizeOf,
         TypeOK
<1> QED BY <1>1, <1>2, ShapeInit, ByteInvAlways, TunnelInvAlways, PTL DEF Spec
=============================================================================
