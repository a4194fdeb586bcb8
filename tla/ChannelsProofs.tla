--------------------------- MODULE ChannelsProofs ---------------------------
(***************************************************************************)
(* Proofs about Channels: the invariant that ties the table, the calls of  *)
(* the users, the handlers of Transport and what is under way to and from  *)
(* the server to each other, for any number of users, slots, objects and   *)
(* messages; and the five properties of the module that follow from it.    *)
(*                                                                         *)
(* The module goes from the inside outwards: the invariant; a sequence of  *)
(* messages; one channel and what is under way about it, as values; one    *)
(* user of one channel, as values; and then the actions, each of which     *)
(* changes one slot and leaves the others as they were.                    *)
(***************************************************************************)
EXTENDS Channels, SelectionLemmas, FiniteSetTheorems

-----------------------------------------------------------------------------
(* The shape of the state. *)

Requests == {"request", "scpSend", "scpReceive"}
Answers == {"success", "failure"}
OutKinds == Requests \cup {"windowChange", "data", "eof", "close"}
Unasked == {"forwarded", "openForwarded", "openX11"}
InKinds == Answers \cup {"confirm", "refuse", "data", "eof", "close"} \cup Unasked
MainKinds == {"open", "forward", "confirmOpen", "refuseOpen"}

Asking == {"request", "requestWait", "requestTake"}
Asleep == {"closeWait", "closeAsleep", "delete"}
Using == {"idle", "global", "creating", "read", "close", "closeQueue"} \cup Asking \cup Asleep
Leaving == {"visit", "visitLost", "close", "closeQueue", "deleteAgain", "deleteLost", "gone"}
           \cup Asleep
Calls == {"none", "create", "close", "disconnect", "windowChange"} \cup Requests

Numbers == {NoSlot} \cup Nat
Channel == [inc : Nat \ {0}, type : Types, status : Statuses, result : Results,
            answered : Nat, closeSent : BOOLEAN, closeRecvd : BOOLEAN,
            placeholder : BOOLEAN, address : BOOLEAN, remote : Numbers, eof : BOOLEAN,
            data : Seq(BOOLEAN), told : BOOLEAN]
Regular == {x \in Channel : ~x.placeholder}
Objects == Channel \cup {NoChannel}
Msg == [kind : OutKinds \cup InKinds \cup MainKinds, c : Slots \cup {NoSlot}, inc : Nat,
        remote : Numbers, id : Nat]
OutMsg(c) == {m \in Msg : m.kind \in OutKinds /\ m.c = c}
InMsg == {m \in Msg : /\ m.kind \in InKinds
                      /\ m.c \in Slots <=> m.kind \notin Unasked
                      /\ m.kind \in {"openForwarded", "openX11"} => m.remote > MaxMade}
MainMsg == {m \in Msg : /\ m.kind \in MainKinds
                        /\ m.c \in Slots <=> m.kind \in {"open", "confirmOpen"}
                        /\ m.kind = "confirmOpen" => m.remote > MaxMade}
Records == [c : Slots, inc : Nat, remote : Nat, closed : BOOLEAN, acks : Nat]
Openings == {NotOpening} \cup [at : {"new", "notify"}, c : Slots \cup {NoSlot}]

TableShape ==
    /\ chan \in [Slots -> Objects] /\ outQ \in [Slots -> Seq(Msg)]
    /\ \A c \in Slots : outQ[c] \in Seq(OutMsg(c))
    /\ mainQ \in Seq(MainMsg) /\ made \in 0 .. MaxMade /\ broken \in BOOLEAN
UserShape ==
    /\ pc \in [Users -> Using \cup Leaving] /\ api \in [Users -> Calls]
    /\ slot \in [Users -> Slots \cup {NoSlot, MaxChannels}]
    /\ asked \in [Users -> Nat] /\ reads \in [Users -> 0 .. 2] /\ asks \in Nat
NetShape ==
    /\ fromServer \in Seq(InMsg) /\ server \in SUBSET Records
    /\ opening \in Openings /\ alive \in BOOLEAN /\ said \in Nat
Shape == TableShape /\ UserShape /\ NetShape

-----------------------------------------------------------------------------
(* Where the users are, and what they make of their channels. *)

Used == {"open", "closed"}

\* A user at p in call a, with its last request n, has the channel x.
Held(p, a, n, x) ==
    /\ p \in Using \ {"global"} /\ x \in Regular /\ ~x.told
    /\ x.closeSent <=> p \in Asleep
    /\ p # "creating" => x.status \in Used
    /\ x.result # "pending" => p \in {"request", "requestTake"} /\ x.answered = n
    /\ p = "requestTake" => x.result # "pending"
    /\ p = "closeAsleep" => x.status = "open"
    /\ p = "delete" => x.status = "closed"
    /\ p = "creating" => a \in {"create", "scpSend", "scpReceive"}
    /\ p \in Asking => a \in Requests \cup {"windowChange"}
    /\ p = "read" => a \in {"scpSend", "scpReceive"}

\* What is always so of a channel.
Lasts(x, leaving) ==
    /\ x \in Channel /\ x.placeholder => x.closeSent /\ x.closeRecvd /\ x.data = <<>>
    /\ x \in Regular => /\ x.closeRecvd <=> x.status = "closed"
                        /\ x.told => x.status = "closed"
                        /\ Len(x.data) <= 1
                        /\ leaving => x.status \in Used

\* While u disconnects, at p, c is what it visits.
Visits(p, c) ==
    /\ p \in Leaving
    /\ p # "gone" => c \in 0 .. MaxChannels
    /\ p \notin {"visit", "visitLost", "gone"} => c \in Slots
    /\ p \in {"visitLost", "deleteLost", "gone"} => ~alive
    /\ p = "closeQueue" => chan[c] \in Regular
    /\ p \in Asleep => chan[c] \in Regular /\ chan[c].closeSent
    /\ p = "closeAsleep" => chan[c].status = "open"
    /\ p = "delete" => chan[c].status = "closed"
    /\ p = "deleteAgain" /\ chan[c] \in Regular => chan[c].status = "closed"
Leaves(u) ==
    /\ Visits(pc[u], slot[u])
    /\ \A v \in Users \ {u} : pc[v] = "gone" /\ api[v] # "disconnect" /\ slot[v] = NoSlot
Departing == \A u \in Users : api[u] = "disconnect" => Leaves(u)
Sent(c) ==
    chan[c] \in Regular /\ chan[c].closeSent => \E u \in Users : slot[u] = c /\ pc[u] \in Asleep

-----------------------------------------------------------------------------
(* The objects, and the numbers of the server. *)

Own(r) == r.remote <= MaxMade
\* The number n is that of no object, or of the one in slot c.
Sits(n, c) == n <= made /\ \A d \in Slots : n = chan[d].inc /\ n # 0 => d = c
Objected == \A c \in Slots : Sits(chan[c].inc, c)
Recorded ==
    /\ \A r \in server : Sits(r.inc, r.c) /\ (Own(r) => r.inc # 0)
    /\ \A r, s \in server : Own(r) /\ Own(s) /\ (r.remote = s.remote \/ r.inc = s.inc) => r = s
Confirming == \A i \in DOMAIN mainQ : Sits(mainQ[i].inc, mainQ[i].c)
NumberInv == Objected /\ Recorded /\ Confirming

-----------------------------------------------------------------------------
(* What is under way about a slot. *)

About(c) == {m \in Msg : m.c = c}
OfKind(K) == {m \in Msg : m.kind \in K}
View(q, c) == Selection(q, About(c))
In(c) == View(fromServer, c)
Main(c) == View(mainQ, c)
Recs(c) == {r \in server : r.c = c}
Mine(x, S) == {r \in S : r.inc = x.inc}
Count(s, K) == Len(Selection(s, OfKind(K)))

Some(s, kind) == \E i \in DOMAIN s : s[i].kind = kind
CloseLast(s) == \A i \in DOMAIN s : s[i].kind = "close" => i = Len(s)
Kinds(s, K) == \A i \in DOMAIN s : s[i].kind \in K
OfInc(s, n) == \A i \in DOMAIN s : s[i].inc = n
OfRemote(s, n) == \A i \in DOMAIN s : s[i].remote = n
Ids(s, K, n) == \A i \in DOMAIN s : s[i].kind \in K => s[i].id = n

\* The answers of scp there are and will be.
Owed(x, f, o, acks) == Len(x.data) + Count(f, {"data"}) + acks + Count(o, {"data", "scpSend"})

\* The server knows the channel as r; or does not any more.
KnownAs(r, x, o, f) ==
    /\ Own(r) /\ r.remote = x.remote
    /\ r.closed <=> x.status = "closed" \/ Some(f, "close")
    /\ CloseLast(o) /\ (Some(o, "close") <=> x.closeSent)
    /\ OfRemote(o, x.remote)
    /\ Owed(x, f, o, r.acks) <= 1
Forgotten(x, o, f) ==
    /\ x.closeSent /\ o = <<>>
    /\ x.status = "closed" \/ Some(f, "close")
    /\ Owed(x, f, o, 0) <= 1

OpenAsked(x, M, f, R) ==
    /\ Len(M) = 1 /\ M[1].kind = "open" /\ M[1].inc = x.inc
    /\ f = <<>> /\ R = {}
ConfirmedAs(r, f) ==
    /\ Own(r) /\ f[1].kind = "confirm" /\ f[1].remote = r.remote /\ r.acks = 0
    /\ IF r.closed THEN Len(f) = 3 /\ f[2].kind = "eof" /\ f[3].kind = "close" ELSE Len(f) = 1
OpenAnswered(M, f, R) ==
    /\ M = <<>>
    /\ \/ Len(f) = 1 /\ f[1].kind = "refuse" /\ R = {}
       \/ \E r \in R : R = {r} /\ ConfirmedAs(r, f)

UnknownLink(x, M, o, f, R) ==
    /\ x.remote = NoSlot /\ x.data = <<>> /\ ~x.closeSent /\ o = <<>>
    /\ OpenAsked(x, M, f, R) \/ OpenAnswered(M, f, R)
UsedLink(x, M, o, f, R) ==
    /\ M = <<>> /\ CloseLast(f) /\ Kinds(f, Answers \cup {"data", "eof", "close"})
    /\ x.status = "closed" => f = <<>>
    /\ \/ \E r \in R : R = {r} /\ KnownAs(r, x, o, f)
       \/ R = {} /\ Forgotten(x, o, f)
RegularLink(x, M, o, f, R) ==
    /\ OfInc(f, x.inc) /\ OfInc(o, x.inc)
    /\ x.status = "unknown" => UnknownLink(x, M, o, f, R)
    /\ x.status \in Used => UsedLink(x, M, o, f, R)
    /\ x.status = "failedToCreate" => M = <<>> /\ o = <<>> /\ f = <<>> /\ R = {}
OtherLink(x, M, o, f, S, leaving) ==
    /\ o = <<>> /\ Kinds(f, {"eof", "close"}) /\ Kinds(M, {"confirmOpen"})
    /\ \A r \in S : r.closed \/ r.acks = 0
    /\ ~leaving => /\ OfInc(f, x.inc) /\ OfInc(M, x.inc)
                   /\ x = NoChannel => f = <<>> /\ M = <<>>

\* x is the object, M and o, f what is under way to the server and from it, S what
\* the server knows of a slot.
LinkOf(x, M, o, f, S, leaving) ==
    /\ x \in Regular => RegularLink(x, M, o, f, Mine(x, S))
    /\ x \notin Regular => OtherLink(x, M, o, f, S, leaving)
    /\ x \in Regular \/ ~leaving =>
         \A r \in S : r.closed \/ (x # NoChannel /\ r.inc = x.inc)
\* When the connection is up.
Stands(up, x, M, o, f, S, leaving) ==
    /\ Lasts(x, leaving)
    /\ up => LinkOf(x, M, o, f, S, leaving)
SlotOf(c) == Stands(alive, chan[c], Main(c), outQ[c], In(c), Recs(c), Disconnecting)

\* A user at p in call a, with its last request n.  A change of the window has no answer.
AskedFor(p, a, n, x, o, f) ==
    IF p \in Asking /\ a # "windowChange"
    THEN /\ x.result # "pending" => Count(o, Requests) + Count(f, Answers) = 0
         /\ Count(o, Requests) + Count(f, Answers) <= 1
         /\ Ids(o, Requests, n) /\ Ids(f, Answers, n)
         /\ x.result = "pending" /\ x.status = "open" =>
              Count(o, Requests) + Count(f, Answers) = 1 \/ Some(f, "close")
    ELSE Count(o, Requests) = 0 /\ Count(f, Answers) = 0
NotOwed(p, a, x, o, f, R) ==
    (p = "creating" /\ x.status \in Used) \/ (p \in Asking /\ a = "scpReceive") =>
        \A r \in R : Owed(x, f, o, r.acks) = 0
AskOf(p, a, n, x, o, f, R) == AskedFor(p, a, n, x, o, f) /\ NotOwed(p, a, x, o, f, R)
Works(up, p, a, n, x, o, f, S) ==
    /\ Held(p, a, n, x)
    /\ up => AskOf(p, a, n, x, o, f, Mine(x, S))
UserOf(u) ==
    IF slot[u] = NoSlot THEN pc[u] \in {"idle", "global"}
    ELSE /\ slot[u] \in Slots
         /\ Works(alive, pc[u], api[u], asked[u], chan[slot[u]], outQ[slot[u]], In(slot[u]),
                  Recs(slot[u]))
Alone ==
    /\ \A u, v \in Users : slot[u] = slot[v] /\ slot[u] # NoSlot => u = v
    /\ \A c \in Slots : chan[c] \in Regular => chan[c].told \/ \E u \in Users : slot[u] = c
Working == (\A u \in Users : UserOf(u)) /\ Alone

\* Where Transport is in handleChannelOpenRequest.
OpeningInv ==
    opening # NotOpening =>
      /\ alive /\ fromServer # <<>> /\ Head(fromServer).kind = "openForwarded"
      /\ opening.at = "notify" =>
           /\ opening.c \in Slots /\ chan[opening.c] \notin Regular
           /\ ~Disconnecting => /\ In(opening.c) = <<>> /\ Main(opening.c) = <<>>
                                /\ chan[opening.c] # NoChannel
                                /\ \A r \in Recs(opening.c) : r.closed

TableInv == \A c \in Slots : SlotOf(c) /\ Sent(c)
UserInv == (~Disconnecting => Working) /\ Departing
ChannelsInv == Shape /\ NumberInv /\ TableInv /\ UserInv /\ OpeningInv

-----------------------------------------------------------------------------
(* What is said about a sequence of messages when one comes and when one goes. *)

LEMMA CountType ==
    ASSUME NEW s \in Seq(Msg), NEW K
    PROVE  Count(s, K) \in Nat
<1>1. Selection(s, OfKind(K)) \in Seq(Msg \cap OfKind(K))
  BY SelectionType
<1> QED BY <1>1 DEF Count

LEMMA CountEmpty ==
    ASSUME NEW K
    PROVE  Count(<<>>, K) = 0
<1>1. Selection(<<>>, OfKind(K)) = <<>>
  BY SelectionEmpty
<1> QED BY <1>1 DEF Count

LEMMA CountAppend ==
    ASSUME NEW s \in Seq(Msg), NEW m \in Msg, NEW K
    PROVE  Count(Append(s, m), K) = Count(s, K) + (IF m.kind \in K THEN 1 ELSE 0)
<1>1. Selection(Append(s, m), OfKind(K)) =
        IF m \in OfKind(K) THEN Append(Selection(s, OfKind(K)), m)
        ELSE Selection(s, OfKind(K))
  BY SelectionAppend
<1>2. PICK t : t = Selection(s, OfKind(K))
  OBVIOUS
<1>3. t \in Seq(Msg \cap OfKind(K))
  BY <1>2, SelectionType
<1>4. m \in OfKind(K) <=> m.kind \in K
  BY DEF OfKind
<1>5. CASE m.kind \in K
  <2>1. Len(Append(t, m)) = Len(t) + 1 /\ Len(t) \in Nat
    BY <1>3
  <2>2. Selection(Append(s, m), OfKind(K)) = Append(t, m)
    BY <1>1, <1>2, <1>4, <1>5
  <2> QED BY <2>1, <2>2, <1>2, <1>5 DEF Count
<1>6. CASE m.kind \notin K
  <2>1. Len(t) \in Nat
    BY <1>3
  <2>2. Selection(Append(s, m), OfKind(K)) = t
    BY <1>1, <1>2, <1>4, <1>6
  <2> QED BY <2>1, <2>2, <1>2, <1>6 DEF Count
<1> QED BY <1>5, <1>6

LEMMA CountHead ==
    ASSUME NEW s \in Seq(Msg), s # <<>>, NEW K
    PROVE  Count(s, K) = Count(Tail(s), K) + (IF Head(s).kind \in K THEN 1 ELSE 0)
<1>0. Head(s) \in Msg /\ Tail(s) \in Seq(Msg)
  OBVIOUS
<1>1. /\ Head(s) \in OfKind(K) =>
           Selection(s, OfKind(K)) = <<Head(s)>> \o Selection(Tail(s), OfKind(K))
      /\ Head(s) \notin OfKind(K) => Selection(s, OfKind(K)) = Selection(Tail(s), OfKind(K))
  BY SelectionHead
<1>2. PICK t : t = Selection(Tail(s), OfKind(K))
  OBVIOUS
<1>3. t \in Seq(Msg \cap OfKind(K))
  BY <1>0, <1>2, SelectionType
<1>4. Head(s) \in OfKind(K) <=> Head(s).kind \in K
  BY <1>0 DEF OfKind
<1>5. CASE Head(s).kind \in K
  <2>1. Len(<<Head(s)>> \o t) = Len(t) + 1 /\ Len(t) \in Nat
    BY <1>3, <1>0
  <2>2. Selection(s, OfKind(K)) = <<Head(s)>> \o t
    BY <1>1, <1>2, <1>4, <1>5
  <2> QED BY <2>1, <2>2, <1>2, <1>5 DEF Count
<1>6. CASE Head(s).kind \notin K
  <2>1. Len(t) \in Nat
    BY <1>3
  <2>2. Selection(s, OfKind(K)) = t
    BY <1>1, <1>2, <1>4, <1>6
  <2> QED BY <2>1, <2>2, <1>2, <1>6 DEF Count
<1> QED BY <1>5, <1>6

LEMMA CountNone ==
    ASSUME NEW s \in Seq(Msg), NEW K, NEW L, Kinds(s, L), L \cap K = {}
    PROVE  Count(s, K) = 0
<1>1. \A i \in 1 .. Len(s) : s[i] \notin OfKind(K)
  BY DEF Kinds, OfKind
<1>2. Selection(s, OfKind(K)) = <<>>
  BY <1>1, SelectionNone
<1> QED BY <1>2 DEF Count

LEMMA MessageAppended ==
    ASSUME NEW s \in Seq(Msg), NEW m \in Msg
    PROVE  /\ Append(s, m) \in Seq(Msg) /\ Append(s, m) # <<>>
           /\ \A k : Some(Append(s, m), k) <=> Some(s, k) \/ m.kind = k
           /\ ~Some(s, "close") => CloseLast(Append(s, m))
           /\ \A K : Kinds(Append(s, m), K) <=> Kinds(s, K) /\ m.kind \in K
           /\ \A n : OfInc(Append(s, m), n) <=> OfInc(s, n) /\ m.inc = n
           /\ \A n : OfRemote(Append(s, m), n) <=> OfRemote(s, n) /\ m.remote = n
           /\ \A K, n : Ids(Append(s, m), K, n) <=> Ids(s, K, n) /\ (m.kind \in K => m.id = n)
<1> DEFINE t == Append(s, m)
           l == Len(s)
<1>1. /\ t \in Seq(Msg) /\ l \in Nat /\ DOMAIN s = 1 .. l /\ DOMAIN t = 1 .. l + 1
      /\ Len(t) = l + 1
      /\ t[l + 1] = m /\ \A i \in 1 .. l : t[i] = s[i]
  OBVIOUS
<1> HIDE DEF t, l
<1>2. t # <<>>
  BY <1>1
<1>3. /\ \A i \in 1 .. l : i \in 1 .. l + 1
      /\ l + 1 \in 1 .. l + 1
      /\ \A i \in 1 .. l + 1 : i \in 1 .. l \/ i = l + 1
  BY <1>1
<1>4. \A k : Some(t, k) <=> Some(s, k) \/ m.kind = k
  BY <1>1, <1>3 DEF Some
<1>5. ~Some(s, "close") => CloseLast(t)
  BY <1>1, <1>3 DEF Some, CloseLast
<1>6. \A K : Kinds(t, K) <=> Kinds(s, K) /\ m.kind \in K
  BY <1>1, <1>3 DEF Kinds
<1>7. \A n : OfInc(t, n) <=> OfInc(s, n) /\ m.inc = n
  BY <1>1, <1>3 DEF OfInc
<1>8. \A n : OfRemote(t, n) <=> OfRemote(s, n) /\ m.remote = n
  BY <1>1, <1>3 DEF OfRemote
<1>9. \A K, n : Ids(t, K, n) <=> Ids(s, K, n) /\ (m.kind \in K => m.id = n)
  BY <1>1, <1>3 DEF Ids
<1> QED BY <1>1, <1>2, <1>4, <1>5, <1>6, <1>7, <1>8, <1>9 DEF t

LEMMA MessageTaken ==
    ASSUME NEW s \in Seq(Msg), s # <<>>
    PROVE  /\ Tail(s) \in Seq(Msg) /\ Head(s) \in Msg
           /\ \A k : Some(s, k) <=> Some(Tail(s), k) \/ Head(s).kind = k
           /\ CloseLast(s) => CloseLast(Tail(s))
           /\ CloseLast(s) /\ Head(s).kind = "close" => Tail(s) = <<>>
           /\ \A K : Kinds(s, K) <=> Kinds(Tail(s), K) /\ Head(s).kind \in K
           /\ \A n : OfInc(s, n) <=> OfInc(Tail(s), n) /\ Head(s).inc = n
           /\ \A n : OfRemote(s, n) <=> OfRemote(Tail(s), n) /\ Head(s).remote = n
           /\ \A K, n : Ids(s, K, n) <=>
                          Ids(Tail(s), K, n) /\ (Head(s).kind \in K => Head(s).id = n)
<1> DEFINE t == Tail(s)
           m == Head(s)
           l == Len(s)
<1>1. /\ t \in Seq(Msg) /\ m \in Msg /\ l \in Nat \ {0} /\ Len(t) = l - 1
      /\ DOMAIN s = 1 .. l /\ DOMAIN t = 1 .. l - 1
      /\ s[1] = m /\ \A i \in 1 .. l - 1 : t[i] = s[i + 1]
  OBVIOUS
<1>0. l = 1 => t = <<>>
  BY <1>1
<1> HIDE DEF t, m, l
<1>3. /\ 1 \in 1 .. l /\ \A i \in 1 .. l - 1 : i + 1 \in 1 .. l
      /\ \A i \in 1 .. l : i = 1 \/ (i - 1 \in 1 .. l - 1 /\ i = (i - 1) + 1)
  BY <1>1
<1>2. \A i \in 1 .. l : i = 1 \/ (i - 1 \in 1 .. l - 1 /\ t[i - 1] = s[i])
  BY <1>1, <1>3
<1>4. \A k : Some(s, k) <=> Some(t, k) \/ m.kind = k
  BY <1>1, <1>2, <1>3 DEF Some
<1>5. CloseLast(s) => CloseLast(t)
  BY <1>1, <1>3 DEF CloseLast
<1>10. CloseLast(s) /\ m.kind = "close" => t = <<>>
  BY <1>0, <1>1, <1>3 DEF CloseLast
<1>11. /\ \A i \in DOMAIN s : s[i] = m \/ \E j \in DOMAIN t : s[i] = t[j]
       /\ \A j \in DOMAIN t : \E i \in DOMAIN s : t[j] = s[i]
       /\ \E i \in DOMAIN s : s[i] = m
  BY <1>1, <1>2, <1>3
<1>6. \A K : Kinds(s, K) <=> Kinds(t, K) /\ m.kind \in K
  BY <1>11, ZenonT(60) DEF Kinds
<1>7. \A n : OfInc(s, n) <=> OfInc(t, n) /\ m.inc = n
  BY <1>11, ZenonT(60) DEF OfInc
<1>8. \A n : OfRemote(s, n) <=> OfRemote(t, n) /\ m.remote = n
  BY <1>11, ZenonT(60) DEF OfRemote
<1>9. \A K, n : Ids(s, K, n) <=> Ids(t, K, n) /\ (m.kind \in K => m.id = n)
  <2>1. ASSUME NEW K, NEW n, Ids(s, K, n)
        PROVE  Ids(t, K, n) /\ (m.kind \in K => m.id = n)
    BY <1>11, <2>1, ZenonT(90) DEF Ids
  <2>2. ASSUME NEW K, NEW n, Ids(t, K, n), m.kind \in K => m.id = n
        PROVE  Ids(s, K, n)
    BY <1>11, <2>2, ZenonT(90) DEF Ids
  <2> QED BY <2>1, <2>2
<1> QED BY <1>1, <1>4, <1>5, <1>6, <1>7, <1>8, <1>9, <1>10 DEF t, m

LEMMA NothingUnderWay ==
    /\ CloseLast(<<>>)
    /\ \A k : ~Some(<<>>, k)
    /\ \A K : Kinds(<<>>, K) /\ Count(<<>>, K) = 0
    /\ \A n : OfInc(<<>>, n) /\ OfRemote(<<>>, n)
    /\ \A K, n : Ids(<<>>, K, n)
  BY CountEmpty DEF Some, CloseLast, Kinds, OfInc, OfRemote, Ids

LEMMA EmptyOrNot ==
    ASSUME NEW s \in Seq(Msg), s # <<>>
    PROVE  /\ Len(s) \in Nat \ {0} /\ s[1] = Head(s) /\ Head(s) \in Msg
           /\ Tail(s) \in Seq(Msg) /\ Len(Tail(s)) = Len(s) - 1
           /\ (Len(s) = 1 => Tail(s) = <<>>)
           /\ \A i \in 1 .. Len(s) - 1 : Tail(s)[i] = s[i + 1]
<1>1. /\ Len(s) \in Nat \ {0} /\ s[1] = Head(s) /\ Head(s) \in Msg
      /\ Tail(s) \in Seq(Msg) /\ Len(Tail(s)) = Len(s) - 1
  OBVIOUS
<1>2. Len(s) = 1 => Tail(s) = <<>>
  <2>1. PICK t \in Seq(Msg) : t = Tail(s)
    BY <1>1
  <2>2. Len(t) = 0 => t = <<>>
    OBVIOUS
  <2> QED BY <1>1, <2>1, <2>2
<1>3. \A i \in 1 .. Len(s) - 1 : Tail(s)[i] = s[i + 1]
  OBVIOUS
<1> QED BY <1>1, <1>2, <1>3

-----------------------------------------------------------------------------
(* What is written to an object. *)

\* closeChannel has succeeded.
LEMMA Told ==
    ASSUME NEW x \in Channel, NEW y, y = [x EXCEPT !.told = TRUE]
    PROVE  /\ y \in Channel /\ (y \in Regular <=> x \in Regular)
           /\ y.inc = x.inc /\ y.status = x.status /\ y.result = x.result
           /\ y.answered = x.answered /\ y.closeSent = x.closeSent /\ y.closeRecvd = x.closeRecvd
           /\ y.placeholder = x.placeholder /\ y.remote = x.remote /\ y.data = x.data
           /\ y.told = TRUE
  BY DEF Channel, Regular, Statuses, Results, Numbers

\* queueOutboundData of the CLOSE.
LEMMA CloseSaid ==
    ASSUME NEW x \in Channel, NEW y, y = [x EXCEPT !.closeSent = TRUE]
    PROVE  /\ y \in Channel /\ (y \in Regular <=> x \in Regular)
           /\ y.inc = x.inc /\ y.status = x.status /\ y.result = x.result
           /\ y.answered = x.answered /\ y.closeSent = TRUE /\ y.closeRecvd = x.closeRecvd
           /\ y.placeholder = x.placeholder /\ y.remote = x.remote /\ y.data = x.data
           /\ y.told = x.told
  BY DEF Channel, Regular, Statuses, Results, Numbers

-----------------------------------------------------------------------------
(* What is known of a slot, step by step. *)

LEMMA ObjectIs ==
    /\ NoChannel \notin Channel /\ NoChannel \notin Regular /\ NoChannel.inc = 0
    /\ Regular \subseteq Channel /\ Regular \subseteq Objects
    /\ \A x \in Objects : x = NoChannel \/ x \in Channel
    /\ \A x \in Channel : x # NoChannel /\ x.inc # 0 /\ x.inc \in Nat
    /\ \A x \in Objects : x.inc \in Nat /\ (x.inc = 0 <=> x = NoChannel)
    /\ \A x \in Regular : x.status \in Statuses /\ x.data \in Seq(BOOLEAN) /\ ~x.placeholder
<1>1. NoChannel.inc = 0
  BY DEF NoChannel
<1>2. \A x \in Channel : x.inc # 0 /\ x.inc \in Nat
  BY DEF Channel
<1>3. \A x \in Channel : x.status \in Statuses /\ x.data \in Seq(BOOLEAN)
  BY DEF Channel
<1> QED BY <1>1, <1>2, <1>3 DEF Objects, Regular

LEMMA OwedTypes ==
    ASSUME NEW x \in Regular, NEW f \in Seq(Msg), NEW o \in Seq(Msg)
    PROVE  /\ Len(x.data) \in Nat /\ Count(f, {"data"}) \in Nat
           /\ Count(o, {"data", "scpSend"}) \in Nat
<1>1. x.data \in Seq(BOOLEAN)
  BY ObjectIs
<1> QED BY <1>1, CountType

LEMMA MineFacts ==
    ASSUME NEW x, NEW S \in SUBSET Records, NEW r, NEW q
    PROVE  /\ Mine(x, S) \subseteq S /\ Mine(x, {}) = {}
           /\ r.inc = x.inc => Mine(x, S \cup {r}) = Mine(x, S) \cup {r}
           /\ r.inc # x.inc => Mine(x, S \cup {r}) = Mine(x, S)
           /\ Mine(x, S) = {r} => r \in S /\ r.inc = x.inc
           /\ Mine(x, S) = {r} => Mine(x, S \ {r}) = {}
           /\ Mine(x, S) = {r} /\ q.inc = r.inc => Mine(x, (S \ {r}) \cup {q}) = {q}
  BY DEF Mine

LEMMA MineSwapped ==
    ASSUME NEW x, NEW S, NEW r, NEW q, Mine(x, S) = {r}, q.inc = r.inc,
           NEW T, T = (S \ {r}) \cup {q}
    PROVE  Mine(x, T) = {q}
<1>1. r.inc = x.inc
  BY DEF Mine
<1>2. \A s \in S : s.inc = x.inc <=> s = r
  BY DEF Mine
<1> QED BY <1>1, <1>2 DEF Mine

\* The link is about these fields.
LEMMA LinkSame ==
    ASSUME NEW x \in Channel, NEW y \in Channel, NEW M, NEW o, NEW f, NEW S, NEW d,
           LinkOf(x, M, o, f, S, d), y.placeholder = x.placeholder, y.inc = x.inc,
           y.status = x.status, y.closeSent = x.closeSent, y.remote = x.remote,
           y.data = x.data
    PROVE  LinkOf(y, M, o, f, S, d)
<1>0. Mine(y, S) = Mine(x, S)
  BY DEF Mine
<1>1. x \in Regular <=> y \in Regular
  BY DEF Regular
<1>2. x # NoChannel /\ y # NoChannel
  BY ObjectIs
<1>3. RegularLink(x, M, o, f, Mine(x, S)) => RegularLink(y, M, o, f, Mine(x, S))
  BY DEF RegularLink, UnknownLink, UsedLink, OpenAsked, KnownAs, Forgotten, Owed
<1>4. OtherLink(x, M, o, f, S, d) => OtherLink(y, M, o, f, S, d)
  BY <1>2 DEF OtherLink
<1> QED BY <1>0, <1>1, <1>2, <1>3, <1>4 DEF LinkOf

LEMMA LinkLeaving ==
    ASSUME NEW x, NEW M, NEW o, NEW f, NEW S, LinkOf(x, M, o, f, S, FALSE)
    PROVE  LinkOf(x, M, o, f, S, TRUE)
  BY DEF LinkOf, OtherLink

LEMMA EmptySlot ==
    ASSUME NEW M, NEW o, NEW f, NEW S, LinkOf(NoChannel, M, o, f, S, FALSE)
    PROVE  M = <<>> /\ o = <<>> /\ f = <<>> /\ \A r \in S : r.closed
  BY ObjectIs DEF LinkOf, OtherLink

\* newChannel, and the request to open it.
LEMMA LinkCreate ==
    ASSUME NEW M, NEW o, NEW f, NEW S, LinkOf(NoChannel, M, o, f, S, FALSE),
           NEW x \in Regular, x.status = "unknown", x.remote = NoSlot, x.data = <<>>,
           ~x.closeSent, \A r \in S : r.inc # x.inc,
           NEW m \in Msg, m.kind = "open", m.inc = x.inc
    PROVE  LinkOf(x, Append(M, m), o, f, S, FALSE)
<1>1. M = <<>> /\ o = <<>> /\ f = <<>> /\ \A r \in S : r.closed
  BY EmptySlot
<1>2. Mine(x, S) = {}
  BY DEF Mine
<1>3. Append(M, m) = <<m>> /\ Len(<<m>>) = 1 /\ <<m>>[1] = m
  BY <1>1
<1>4. OfInc(f, x.inc) /\ OfInc(o, x.inc)
  BY <1>1, NothingUnderWay
<1>5. UnknownLink(x, <<m>>, o, f, {})
  BY <1>1, <1>3 DEF UnknownLink, OpenAsked
<1>6. RegularLink(x, <<m>>, o, f, {})
  BY <1>4, <1>5 DEF RegularLink, Used
<1> QED BY <1>1, <1>2, <1>3, <1>6 DEF LinkOf

\* A placeholder.
LEMMA LinkPlaceholder ==
    ASSUME NEW M, NEW o, NEW f, NEW S, NEW d \in BOOLEAN, LinkOf(NoChannel, M, o, f, S, d),
           NEW x \in Channel, x \notin Regular
    PROVE  LinkOf(x, M, o, f, S, d)
<1>1. OtherLink(NoChannel, M, o, f, S, d) /\ x # NoChannel
  BY ObjectIs DEF LinkOf
<1>2. CASE d
  BY <1>1, <1>2 DEF LinkOf, OtherLink
<1>3. CASE ~d
  <2>1. M = <<>> /\ o = <<>> /\ f = <<>> /\ \A r \in S : r.closed
    BY <1>3, EmptySlot
  <2>2. OtherLink(x, M, o, f, S, d)
    BY <1>1, <2>1, NothingUnderWay DEF OtherLink
  <2> QED BY <2>1, <2>2 DEF LinkOf
<1> QED BY <1>2, <1>3

LEMMA LinkConfirmOpen ==
    ASSUME NEW x \in Objects, NEW M \in Seq(Msg), NEW o, NEW f, NEW S, NEW d \in BOOLEAN,
           LinkOf(x, M, o, f, S, d), x \notin Regular, ~d => x # NoChannel,
           NEW m \in Msg, m.kind = "confirmOpen", m.inc = x.inc
    PROVE  LinkOf(x, Append(M, m), o, f, S, d)
<1>1. Kinds(M, {"confirmOpen"}) => Kinds(Append(M, m), {"confirmOpen"})
  BY MessageAppended
<1>2. OfInc(M, x.inc) => OfInc(Append(M, m), x.inc)
  BY MessageAppended
<1> QED BY <1>1, <1>2 DEF LinkOf, OtherLink

\* deleteChannel: the slot is empty, and what was queued is lost.
LEMMA LinkFree ==
    ASSUME NEW x \in Objects, NEW M, NEW o, NEW f, NEW S \in SUBSET Records, NEW d \in BOOLEAN,
           LinkOf(x, M, o, f, S, d),
           x \in Regular => x.status \in {"closed", "failedToCreate"},
           x \in Regular \/ d \/ (M = <<>> /\ f = <<>> /\ \A r \in S : r.closed)
    PROVE  LinkOf(NoChannel, M, <<>>, f, S, d)
<1>1. CASE x \in Regular
  <2>1. M = <<>> /\ f = <<>> /\ \A r \in Mine(x, S) : r.closed
    BY <1>1 DEF LinkOf, RegularLink, UsedLink, Used, KnownAs
  <2>2. \A r \in S : r.closed \/ r.inc = x.inc
    BY <1>1 DEF LinkOf
  <2>3. \A r \in S : r.closed
    BY <2>1, <2>2 DEF Mine
  <2> QED BY <2>1, <2>3, NothingUnderWay, ObjectIs DEF LinkOf, OtherLink
<1>2. CASE x \notin Regular /\ d
  BY <1>2, ObjectIs DEF LinkOf, OtherLink
<1>3. CASE x \notin Regular /\ ~d
  <2>1. M = <<>> /\ f = <<>> /\ \A r \in S : r.closed
    BY <1>3
  <2> QED BY <2>1, NothingUnderWay, ObjectIs DEF LinkOf, OtherLink
<1> QED BY <1>1, <1>2, <1>3

-----------------------------------------------------------------------------
(* The calls on a channel. *)

LEMMA Known1 ==
    ASSUME NEW x \in Regular, NEW M, NEW o, NEW f, NEW S, NEW d,
           LinkOf(x, M, o, f, S, d), x.status \in Used, ~x.closeSent
    PROVE  \E r : Mine(x, S) = {r} /\ KnownAs(r, x, o, f)
  BY DEF LinkOf, RegularLink, UsedLink, Forgotten

LEMMA LinkQueue ==
    ASSUME NEW x \in Regular, NEW M, NEW o \in Seq(Msg), NEW f \in Seq(Msg),
           NEW S \in SUBSET Records, NEW d, LinkOf(x, M, o, f, S, d), x.status \in Used,
           ~x.closeSent, NEW m \in Msg, m.kind # "close", m.inc = x.inc, m.remote = x.remote,
           m.kind \in {"data", "scpSend"} => \A r \in Mine(x, S) : Owed(x, f, o, r.acks) = 0
    PROVE  LinkOf(x, M, Append(o, m), f, S, d)
<1> DEFINE p == Append(o, m)
<1>1. /\ RegularLink(x, M, o, f, Mine(x, S)) /\ UsedLink(x, M, o, f, Mine(x, S))
      /\ \A r \in S : r.closed \/ r.inc = x.inc
  BY DEF LinkOf, RegularLink
<1>2. PICK r : Mine(x, S) = {r} /\ KnownAs(r, x, o, f)
  BY Known1
<1>3. r \in Records
  BY <1>2 DEF Mine
<1>4. ~Some(o, "close") /\ OfRemote(o, x.remote) /\ OfInc(o, x.inc)
  BY <1>1, <1>2 DEF KnownAs, RegularLink
<1>5. OfInc(p, x.inc) /\ OfRemote(p, x.remote) /\ CloseLast(p) /\ ~Some(p, "close")
  BY <1>4, MessageAppended
<1>6. /\ Len(x.data) \in Nat /\ Count(f, {"data"}) \in Nat /\ Count(o, {"data", "scpSend"}) \in Nat
      /\ Count(p, {"data", "scpSend"}) = Count(o, {"data", "scpSend"})
                                         + (IF m.kind \in {"data", "scpSend"} THEN 1 ELSE 0)
      /\ r.acks \in Nat
  BY <1>3, OwedTypes, CountAppend DEF Records
<1>7. Owed(x, f, o, r.acks) <= 1
  BY <1>2 DEF KnownAs
<1>8. m.kind \in {"data", "scpSend"} => Owed(x, f, o, r.acks) = 0
  BY <1>2
<1>9. Owed(x, f, p, r.acks) <= 1
  BY <1>6, <1>7, <1>8 DEF Owed
<1>10. KnownAs(r, x, p, f)
  BY <1>2, <1>5, <1>9 DEF KnownAs
<1>11. UsedLink(x, M, p, f, Mine(x, S))
  BY <1>1, <1>2, <1>10 DEF UsedLink
<1>12. RegularLink(x, M, p, f, Mine(x, S))
  BY <1>1, <1>5, <1>11 DEF RegularLink, Used
<1> QED BY <1>1, <1>12, ObjectIs DEF LinkOf

LEMMA LinkCloseQueue ==
    ASSUME NEW x \in Regular, NEW M, NEW o \in Seq(Msg), NEW f \in Seq(Msg),
           NEW S \in SUBSET Records, NEW d, LinkOf(x, M, o, f, S, d), x.status \in Used,
           ~x.closeSent, NEW m \in Msg, m.kind = "close", m.inc = x.inc, m.remote = x.remote,
           NEW y \in Regular, y.closeSent, y.inc = x.inc, y.remote = x.remote,
           y.status = x.status, y.data = x.data
    PROVE  LinkOf(y, M, Append(o, m), f, S, d)
<1> DEFINE p == Append(o, m)
<1>1. /\ RegularLink(x, M, o, f, Mine(x, S)) /\ UsedLink(x, M, o, f, Mine(x, S))
      /\ \A r \in S : r.closed \/ r.inc = x.inc
  BY DEF LinkOf, RegularLink
<1>2. PICK r : Mine(x, S) = {r} /\ KnownAs(r, x, o, f)
  BY Known1
<1>3. r \in Records /\ Mine(y, S) = Mine(x, S)
  BY <1>2 DEF Mine
<1>4. ~Some(o, "close") /\ OfRemote(o, x.remote) /\ OfInc(o, x.inc)
  BY <1>1, <1>2 DEF KnownAs, RegularLink
<1>5. OfInc(p, x.inc) /\ OfRemote(p, x.remote) /\ CloseLast(p) /\ Some(p, "close")
  BY <1>4, MessageAppended
<1>6. Count(p, {"data", "scpSend"}) = Count(o, {"data", "scpSend"})
  BY CountType, CountAppend
<1>9. Owed(y, f, p, r.acks) <= 1
  BY <1>2, <1>6 DEF Owed, KnownAs
<1>10. KnownAs(r, y, p, f)
  BY <1>2, <1>5, <1>9 DEF KnownAs
<1>11. UsedLink(y, M, p, f, Mine(x, S))
  BY <1>1, <1>2, <1>10 DEF UsedLink
<1>12. RegularLink(y, M, p, f, Mine(y, S))
  BY <1>1, <1>3, <1>5, <1>11 DEF RegularLink, Used
<1> QED BY <1>1, <1>12, ObjectIs DEF LinkOf

\* channelRead takes an answer of scp: nothing is owed any more.
LEMMA LinkRead ==
    ASSUME NEW x \in Regular, NEW M, NEW o \in Seq(Msg), NEW f \in Seq(Msg),
           NEW S \in SUBSET Records, NEW d, LinkOf(x, M, o, f, S, d), x.status \in Used,
           x.data # <<>>,
           NEW y \in Regular, y.data = Tail(x.data), y.inc = x.inc, y.remote = x.remote,
           y.status = x.status, y.closeSent = x.closeSent
    PROVE  /\ LinkOf(y, M, o, f, S, d) /\ Mine(y, S) = Mine(x, S)
           /\ \A r \in Mine(y, S) : Owed(y, f, o, r.acks) = 0
<1>1. /\ RegularLink(x, M, o, f, Mine(x, S)) /\ UsedLink(x, M, o, f, Mine(x, S))
      /\ \A r \in S : r.closed \/ r.inc = x.inc
  BY DEF LinkOf, RegularLink
<1>2. Mine(y, S) = Mine(x, S)
  BY DEF Mine
<1>3. Len(y.data) = Len(x.data) - 1 /\ Len(x.data) \in Nat /\ Len(y.data) \in Nat
  BY ObjectIs
<1>4. /\ Count(f, {"data"}) \in Nat /\ Count(o, {"data", "scpSend"}) \in Nat
      /\ \A r \in Mine(x, S) : r.acks \in Nat
  BY CountType DEF Mine, Records
<1>5. \A r \in Mine(x, S) : KnownAs(r, x, o, f) => KnownAs(r, y, o, f) /\ Owed(y, f, o, r.acks) = 0
  BY <1>3, <1>4 DEF KnownAs, Owed
<1>6. Forgotten(x, o, f) => Forgotten(y, o, f)
  BY <1>3, <1>4 DEF Forgotten, Owed
<1>7. UsedLink(y, M, o, f, Mine(x, S)) /\ \A r \in Mine(x, S) : Owed(y, f, o, r.acks) = 0
  BY <1>1, <1>5, <1>6 DEF UsedLink
<1>8. RegularLink(y, M, o, f, Mine(y, S))
  BY <1>1, <1>2, <1>7 DEF RegularLink, Used
<1> QED BY <1>1, <1>2, <1>7, <1>8, ObjectIs DEF LinkOf

-----------------------------------------------------------------------------
(* The handlers of Transport. *)

Talk == Answers \cup {"data", "eof", "close"}

LEMMA FirstWord ==
    ASSUME NEW x, NEW M, NEW o, NEW f \in Seq(Msg), NEW S, NEW d, LinkOf(x, M, o, f, S, d),
           f # <<>>
    PROVE  /\ x \in Regular => /\ Head(f).inc = x.inc
                               /\ Head(f).kind \in Talk \cup {"confirm", "refuse"}
           /\ x \in Regular /\ Head(f).kind \in {"confirm", "refuse"} => x.status = "unknown"
           /\ x \in Regular /\ Head(f).kind \in Talk => x.status = "open"
           /\ x \notin Regular => Head(f).kind \in {"eof", "close"}
<1>1. f[1] = Head(f) /\ 1 \in DOMAIN f
  BY EmptyOrNot
<1>2. CASE x \in Regular
  <2>1. RegularLink(x, M, o, f, Mine(x, S))
    BY <1>2 DEF LinkOf
  <2>2. CASE x.status = "unknown"
    <3>1. OpenAnswered(M, f, Mine(x, S))
      BY <2>1, <2>2 DEF RegularLink, UnknownLink, OpenAsked
    <3>2. Head(f).kind \in {"confirm", "refuse"}
      BY <1>1, <3>1 DEF OpenAnswered, ConfirmedAs
    <3> QED BY <1>1, <1>2, <2>1, <2>2, <3>2 DEF RegularLink, OfInc, Talk, Answers
  <2>3. CASE x.status \in Used
    <3>1. x.status = "open" /\ Head(f).kind \in Talk
      BY <1>1, <2>1, <2>3 DEF RegularLink, UsedLink, Used, Kinds, Talk
    <3> QED BY <1>1, <1>2, <2>1, <3>1 DEF RegularLink, OfInc, Talk, Answers
  <2>4. CASE x.status = "failedToCreate"
    BY <2>1, <2>4 DEF RegularLink
  <2> QED BY <1>2, <2>2, <2>3, <2>4, ObjectIs DEF Statuses, Used
<1>3. CASE x \notin Regular
  BY <1>1, <1>3 DEF LinkOf, OtherLink, Kinds
<1> QED BY <1>2, <1>3

LEMMA LinkConfirmed ==
    ASSUME NEW x \in Regular, NEW M, NEW o, NEW f \in Seq(Msg), NEW S \in SUBSET Records,
           NEW d, LinkOf(x, M, o, f, S, d), f # <<>>, Head(f).kind = "confirm",
           NEW y \in Regular, y.status = "open", y.remote = Head(f).remote, y.inc = x.inc,
           y.closeSent = x.closeSent, y.data = x.data
    PROVE  /\ LinkOf(y, M, o, Tail(f), S, d)
           /\ o = <<>> /\ Kinds(Tail(f), {"eof", "close"})
           /\ \A r \in Mine(y, S) : Owed(y, Tail(f), o, r.acks) = 0
<1> DEFINE t == Tail(f)
<1>1. x.status = "unknown"
  BY FirstWord
<1>2. /\ UnknownLink(x, M, o, f, Mine(x, S)) /\ OfInc(f, x.inc)
      /\ \A r \in S : r.closed \/ r.inc = x.inc
  BY <1>1 DEF LinkOf, RegularLink
<1>3. /\ t \in Seq(Msg) /\ f[1] = Head(f) /\ Len(t) = Len(f) - 1 /\ Len(f) \in Nat
      /\ \A i \in 1 .. Len(f) - 1 : t[i] = f[i + 1]
      /\ (Len(f) = 1 => t = <<>>) /\ OfInc(t, x.inc)
  BY <1>2, EmptyOrNot, MessageTaken
<1> HIDE DEF t
<1>4. PICK r : Mine(x, S) = {r} /\ ConfirmedAs(r, f) /\ M = <<>>
  BY <1>2, <1>3 DEF UnknownLink, OpenAsked, OpenAnswered
<1>5. r \in Records /\ Mine(y, S) = {r}
  BY <1>4 DEF Mine
<1>6. o = <<>> /\ Len(y.data) = 0 /\ ~y.closeSent /\ OfInc(o, y.inc)
  BY <1>2, NothingUnderWay DEF UnknownLink
<1>7. CloseLast(t) /\ Kinds(t, {"eof", "close"}) /\ (r.closed <=> Some(t, "close"))
  <2>1. CASE r.closed
    <3>1. Len(t) = 2 /\ t[1].kind = "eof" /\ t[2].kind = "close" /\ DOMAIN t = {1, 2}
      <4>1. Len(f) = 3 /\ f[2].kind = "eof" /\ f[3].kind = "close"
        BY <1>4, <2>1 DEF ConfirmedAs
      <4>2. Len(t) = 2 /\ t[1] = f[1 + 1] /\ t[2] = f[2 + 1] /\ DOMAIN t = 1 .. 2
        BY <1>3, <4>1
      <4> QED BY <4>1, <4>2
    <3> QED BY <2>1, <3>1 DEF CloseLast, Kinds, Some
  <2>2. CASE ~r.closed
    BY <1>3, <1>4, <2>2, NothingUnderWay DEF ConfirmedAs
  <2> QED BY <2>1, <2>2
<1>8. Count(t, {"data"}) = 0 /\ Count(o, {"data", "scpSend"}) = 0 /\ r.acks = 0
  BY <1>3, <1>4, <1>6, <1>7, CountNone, CountEmpty DEF ConfirmedAs
<1>9. Owed(y, t, o, r.acks) = 0
  BY <1>6, <1>8 DEF Owed
<1>10. KnownAs(r, y, o, t)
  BY <1>3, <1>4, <1>6, <1>7, <1>9, NothingUnderWay DEF KnownAs, ConfirmedAs
<1>11. Kinds(t, Answers \cup {"data", "eof", "close"})
  BY <1>7 DEF Kinds
<1>12. UsedLink(y, M, o, t, {r})
  BY <1>4, <1>7, <1>10, <1>11 DEF UsedLink
<1>13. RegularLink(y, M, o, t, {r})
  BY <1>3, <1>6, <1>12 DEF RegularLink, Used
<1> QED BY <1>2, <1>5, <1>6, <1>7, <1>9, <1>13, ObjectIs DEF LinkOf, t

LEMMA LinkRefused ==
    ASSUME NEW x \in Regular, NEW M, NEW o, NEW f \in Seq(Msg), NEW S \in SUBSET Records,
           NEW d, LinkOf(x, M, o, f, S, d), f # <<>>, Head(f).kind = "refuse",
           NEW y \in Regular, y.status = "failedToCreate", y.inc = x.inc
    PROVE  LinkOf(y, M, o, Tail(f), S, d) /\ o = <<>> /\ Tail(f) = <<>>
<1>1. x.status = "unknown"
  BY FirstWord
<1>2. /\ UnknownLink(x, M, o, f, Mine(x, S)) /\ \A r \in S : r.closed \/ r.inc = x.inc
  BY <1>1 DEF LinkOf, RegularLink
<1>3. f[1] = Head(f) /\ (Len(f) = 1 => Tail(f) = <<>>)
  BY EmptyOrNot
<1>4. Len(f) = 1 /\ Mine(x, S) = {} /\ M = <<>> /\ o = <<>>
  BY <1>2, <1>3 DEF UnknownLink, OpenAsked, OpenAnswered, ConfirmedAs
<1>5. Mine(y, S) = {}
  BY <1>4 DEF Mine
<1>6. RegularLink(y, M, o, Tail(f), {})
  BY <1>3, <1>4, NothingUnderWay DEF RegularLink, Used
<1> QED BY <1>2, <1>3, <1>4, <1>5, <1>6, ObjectIs DEF LinkOf

LEMMA LinkTail ==
    ASSUME NEW x \in Objects, NEW M, NEW o \in Seq(Msg), NEW f \in Seq(Msg),
           NEW S \in SUBSET Records, NEW d, LinkOf(x, M, o, f, S, d), f # <<>>,
           Head(f).kind \in Answers \cup {"eof"}
    PROVE  LinkOf(x, M, o, Tail(f), S, d)
<1> DEFINE t == Tail(f)
<1>0. /\ t \in Seq(Msg) /\ (Some(t, "close") <=> Some(f, "close"))
      /\ (CloseLast(f) => CloseLast(t)) /\ \A K : Kinds(f, K) => Kinds(t, K)
      /\ \A n : OfInc(f, n) => OfInc(t, n)
  BY MessageTaken DEF Answers
<1>1. Count(t, {"data"}) = Count(f, {"data"})
  <2>1. Count(f, {"data"}) = Count(t, {"data"}) + (IF Head(f).kind \in {"data"} THEN 1 ELSE 0)
    BY CountHead
  <2>2. Count(t, {"data"}) \in Nat
    BY <1>0, CountType
  <2> QED BY <2>1, <2>2 DEF Answers
<1> HIDE DEF t
<1>2. CASE x \in Regular
  <2>1. x.status = "open"
    BY <1>2, FirstWord DEF Talk
  <2>2. /\ RegularLink(x, M, o, f, Mine(x, S)) /\ UsedLink(x, M, o, f, Mine(x, S))
        /\ \A r \in S : r.closed \/ r.inc = x.inc
    BY <1>2, <2>1 DEF LinkOf, RegularLink, Used
  <2>3. \A r : KnownAs(r, x, o, f) => KnownAs(r, x, o, t)
    BY <1>0, <1>1 DEF KnownAs, Owed
  <2>4. Forgotten(x, o, f) => Forgotten(x, o, t)
    BY <1>0, <1>1 DEF Forgotten, Owed
  <2>5. UsedLink(x, M, o, t, Mine(x, S))
    BY <1>0, <2>1, <2>2, <2>3, <2>4 DEF UsedLink
  <2>6. RegularLink(x, M, o, t, Mine(x, S))
    BY <1>0, <2>1, <2>2, <2>5 DEF RegularLink, Used
  <2> QED BY <1>2, <2>2, <2>6, ObjectIs DEF LinkOf, t
<1>3. CASE x \notin Regular
  <2>1. OtherLink(x, M, o, f, S, d)
    BY <1>3 DEF LinkOf
  <2>2. ~d => x # NoChannel
    BY <2>1 DEF OtherLink
  <2>3. OtherLink(x, M, o, t, S, d)
    BY <1>0, <2>1, <2>2 DEF OtherLink
  <2> QED BY <1>3, <2>3 DEF LinkOf, t
<1> QED BY <1>2, <1>3

LEMMA LinkData ==
    ASSUME NEW x \in Regular, NEW M, NEW o \in Seq(Msg), NEW f \in Seq(Msg),
           NEW S \in SUBSET Records, NEW d, LinkOf(x, M, o, f, S, d), f # <<>>,
           Head(f).kind = "data",
           NEW y \in Regular, NEW b \in BOOLEAN, y.data = Append(x.data, b), y.inc = x.inc,
           y.remote = x.remote, y.status = x.status, y.closeSent = x.closeSent
    PROVE  LinkOf(y, M, o, Tail(f), S, d) /\ Len(y.data) = 1
           /\ \A r \in Mine(x, S) : Owed(y, Tail(f), o, r.acks) = Owed(x, f, o, r.acks)
<1> DEFINE t == Tail(f)
<1>0. /\ t \in Seq(Msg) /\ (Some(t, "close") <=> Some(f, "close"))
      /\ (CloseLast(f) => CloseLast(t)) /\ \A K : Kinds(f, K) => Kinds(t, K)
      /\ \A n : OfInc(f, n) => OfInc(t, n)
  BY MessageTaken
<1>1. Count(f, {"data"}) = Count(t, {"data"}) + 1 /\ Count(t, {"data"}) \in Nat
  BY <1>0, CountHead, CountType
<1> HIDE DEF t
<1>2. /\ Len(y.data) = Len(x.data) + 1 /\ Len(x.data) \in Nat
      /\ Count(o, {"data", "scpSend"}) \in Nat /\ \A r \in Mine(x, S) : r.acks \in Nat
  BY ObjectIs, CountType DEF Mine, Records
<1>3. x.status = "open" /\ Mine(y, S) = Mine(x, S)
  BY FirstWord DEF Talk, Mine
<1>4. /\ RegularLink(x, M, o, f, Mine(x, S)) /\ UsedLink(x, M, o, f, Mine(x, S))
      /\ \A r \in S : r.closed \/ r.inc = x.inc
  BY <1>3 DEF LinkOf, RegularLink, Used
<1>5. \A r \in Mine(x, S) : /\ Owed(y, t, o, r.acks) = Owed(x, f, o, r.acks)
                            /\ Owed(x, f, o, r.acks) <= 1 => Len(y.data) = 1
                            /\ KnownAs(r, x, o, f) => KnownAs(r, y, o, t)
  <2> TAKE r \in Mine(x, S)
  <2>1. Owed(y, t, o, r.acks) = Owed(x, f, o, r.acks)
    <3>1. PICK k, l, n : /\ k = Len(x.data) /\ l = Count(t, {"data"})
                         /\ n = Count(o, {"data", "scpSend"})
      OBVIOUS
    <3>2. /\ k \in Nat /\ l \in Nat /\ n \in Nat /\ r.acks \in Nat
          /\ Owed(x, f, o, r.acks) = k + (l + 1) + r.acks + n
          /\ Owed(y, t, o, r.acks) = (k + 1) + l + r.acks + n
      BY <3>1, <1>1, <1>2 DEF Owed
    <3> QED BY <3>2
  <2>2. Owed(x, f, o, r.acks) <= 1 => Len(y.data) = 1
    BY <1>1, <1>2 DEF Owed
  <2>3. KnownAs(r, x, o, f) => KnownAs(r, y, o, t)
    BY <1>0, <2>1 DEF KnownAs
  <2> QED BY <2>1, <2>2, <2>3
<1>6. Forgotten(x, o, f) => Forgotten(y, o, t) /\ Len(y.data) = 1
  BY <1>0, <1>1, <1>2 DEF Forgotten, Owed
<1>7. UsedLink(y, M, o, t, Mine(x, S)) /\ Len(y.data) = 1
  BY <1>0, <1>3, <1>4, <1>5, <1>6 DEF UsedLink, KnownAs
<1>8. RegularLink(y, M, o, t, Mine(y, S))
  BY <1>0, <1>3, <1>4, <1>7 DEF RegularLink, Used
<1> QED BY <1>4, <1>5, <1>7, <1>8, ObjectIs DEF LinkOf, t

LEMMA LinkClosed ==
    ASSUME NEW x \in Channel, NEW M, NEW o \in Seq(Msg), NEW f \in Seq(Msg),
           NEW S \in SUBSET Records, NEW d, LinkOf(x, M, o, f, S, d), f # <<>>,
           Head(f).kind = "close",
           NEW y \in Channel, y.placeholder = x.placeholder, y.status = "closed",
           y.data = x.data, y.inc = x.inc, y.remote = x.remote, y.closeSent = x.closeSent
    PROVE  LinkOf(y, M, o, Tail(f), S, d)
<1> DEFINE t == Tail(f)
<1>0. /\ t \in Seq(Msg) /\ Some(f, "close")
      /\ (CloseLast(f) => t = <<>>) /\ \A K : Kinds(f, K) => Kinds(t, K)
      /\ \A n : OfInc(f, n) => OfInc(t, n)
  BY MessageTaken
<1>1. Count(t, {"data"}) = Count(f, {"data"})
  <2>1. Count(f, {"data"}) = Count(t, {"data"}) + (IF Head(f).kind \in {"data"} THEN 1 ELSE 0)
    BY CountHead
  <2>2. Count(t, {"data"}) \in Nat
    BY <1>0, CountType
  <2> QED BY <2>1, <2>2
<1> HIDE DEF t
<1>2. /\ (x \in Regular <=> y \in Regular) /\ Mine(y, S) = Mine(x, S)
      /\ x # NoChannel /\ y # NoChannel
  BY ObjectIs DEF Regular, Mine
<1>3. CASE x \in Regular
  <2>1. x.status = "open"
    BY <1>3, FirstWord DEF Talk
  <2>2. /\ RegularLink(x, M, o, f, Mine(x, S)) /\ UsedLink(x, M, o, f, Mine(x, S))
        /\ \A r \in S : r.closed \/ r.inc = x.inc
    BY <1>3, <2>1 DEF LinkOf, RegularLink, Used
  <2>3. \A r : KnownAs(r, x, o, f) => KnownAs(r, y, o, t)
    BY <1>0, <1>1 DEF KnownAs, Owed
  <2>4. Forgotten(x, o, f) => Forgotten(y, o, t)
    BY <1>0, <1>1 DEF Forgotten, Owed
  <2>5. UsedLink(y, M, o, t, Mine(x, S))
    BY <1>0, <2>1, <2>2, <2>3, <2>4, NothingUnderWay DEF UsedLink
  <2>6. RegularLink(y, M, o, t, Mine(y, S))
    BY <1>0, <1>2, <2>1, <2>2, <2>5 DEF RegularLink, Used
  <2> QED BY <1>2, <1>3, <2>2, <2>6 DEF LinkOf, t
<1>4. CASE x \notin Regular
  BY <1>0, <1>2, <1>4 DEF LinkOf, OtherLink, t
<1> QED BY <1>3, <1>4

-----------------------------------------------------------------------------
(* SocketSend, and what the server says. *)

LEMMA MainFirst ==
    ASSUME NEW x \in Objects, NEW M \in Seq(Msg), NEW o, NEW f, NEW S, NEW d,
           LinkOf(x, M, o, f, S, d), M # <<>>
    PROVE  \/ /\ Head(M).kind = "open" /\ x \in Regular /\ x.status = "unknown"
              /\ Head(M).inc = x.inc /\ Tail(M) = <<>> /\ f = <<>> /\ Mine(x, S) = {}
              /\ UnknownLink(x, M, o, f, {})
           \/ /\ Head(M).kind = "confirmOpen" /\ x \notin Regular
              /\ ~d => Head(M).inc = x.inc /\ x # NoChannel
<1>1. M[1] = Head(M) /\ 1 \in DOMAIN M /\ (Len(M) = 1 => Tail(M) = <<>>)
  BY EmptyOrNot
<1>2. CASE x \in Regular
  <2>1. x.status = "unknown" /\ UnknownLink(x, M, o, f, Mine(x, S))
    BY <1>2, ObjectIs DEF LinkOf, RegularLink, UsedLink, Used, Statuses
  <2>2. OpenAsked(x, M, f, Mine(x, S))
    BY <2>1 DEF UnknownLink, OpenAnswered
  <2> QED BY <1>1, <1>2, <2>1, <2>2 DEF OpenAsked
<1>3. CASE x \notin Regular
  <2>1. OtherLink(x, M, o, f, S, d)
    BY <1>3 DEF LinkOf
  <2> QED BY <1>1, <1>3, <2>1 DEF OtherLink, Kinds, OfInc
<1> QED BY <1>2, <1>3

LEMMA LinkOpenConfirmed ==
    ASSUME NEW x \in Objects, NEW M \in Seq(Msg), NEW o, NEW f \in Seq(Msg),
           NEW S \in SUBSET Records, NEW d, LinkOf(x, M, o, f, S, d), M # <<>>,
           Head(M).kind = "open", NEW a \in Msg, a.kind = "confirm", a.inc = x.inc,
           NEW r \in Records, r.inc = x.inc, a.remote = r.remote, Own(r), ~r.closed, r.acks = 0
    PROVE  LinkOf(x, Tail(M), o, Append(f, a), S \cup {r}, d)
<1>1. /\ x \in Regular /\ x.status = "unknown" /\ Tail(M) = <<>> /\ f = <<>>
      /\ Mine(x, S) = {} /\ UnknownLink(x, M, o, f, {})
  BY MainFirst
<1>2. Mine(x, S \cup {r}) = {r}
  BY <1>1 DEF Mine
<1>3. Append(f, a) = <<a>> /\ Len(<<a>>) = 1 /\ <<a>>[1] = a /\ OfInc(<<a>>, x.inc)
  <2>1. Append(f, a) = <<a>> /\ Len(<<a>>) = 1 /\ <<a>>[1] = a
    BY <1>1
  <2>3. OfInc(f, x.inc)
    BY <1>1, NothingUnderWay
  <2>2. OfInc(Append(f, a), x.inc) <=> OfInc(f, x.inc) /\ a.inc = x.inc
    BY MessageAppended
  <2> QED BY <2>1, <2>2, <2>3
<1>4. ConfirmedAs(r, <<a>>)
  BY <1>3 DEF ConfirmedAs
<1>5. UnknownLink(x, <<>>, o, <<a>>, {r})
  BY <1>1, <1>3, <1>4 DEF UnknownLink, OpenAnswered
<1>6. RegularLink(x, <<>>, o, <<a>>, {r})
  BY <1>1, <1>3, <1>5 DEF RegularLink, Used, LinkOf
<1>7. \A s \in S \cup {r} : s.closed \/ s.inc = x.inc
  BY <1>1 DEF LinkOf
<1> QED BY <1>1, <1>2, <1>3, <1>6, <1>7, ObjectIs DEF LinkOf

LEMMA LinkOpenRefused ==
    ASSUME NEW x \in Objects, NEW M \in Seq(Msg), NEW o, NEW f \in Seq(Msg),
           NEW S \in SUBSET Records, NEW d, LinkOf(x, M, o, f, S, d), M # <<>>,
           Head(M).kind = "open", NEW a \in Msg, a.kind = "refuse", a.inc = x.inc
    PROVE  LinkOf(x, Tail(M), o, Append(f, a), S, d)
<1>1. /\ x \in Regular /\ x.status = "unknown" /\ Tail(M) = <<>> /\ f = <<>>
      /\ Mine(x, S) = {} /\ UnknownLink(x, M, o, f, {})
  BY MainFirst
<1>3. Append(f, a) = <<a>> /\ Len(<<a>>) = 1 /\ <<a>>[1] = a /\ OfInc(<<a>>, x.inc)
  <2>1. Append(f, a) = <<a>> /\ Len(<<a>>) = 1 /\ <<a>>[1] = a
    BY <1>1
  <2>3. OfInc(f, x.inc)
    BY <1>1, NothingUnderWay
  <2>2. OfInc(Append(f, a), x.inc) <=> OfInc(f, x.inc) /\ a.inc = x.inc
    BY MessageAppended
  <2> QED BY <2>1, <2>2, <2>3
<1>5. UnknownLink(x, <<>>, o, <<a>>, {})
  BY <1>1, <1>3 DEF UnknownLink, OpenAnswered
<1>6. RegularLink(x, <<>>, o, <<a>>, {})
  BY <1>1, <1>3, <1>5 DEF RegularLink, Used, LinkOf
<1> QED BY <1>1, <1>3, <1>6, ObjectIs DEF LinkOf

LEMMA LinkConfirmTaken ==
    ASSUME NEW x \in Objects, NEW M \in Seq(Msg), NEW o, NEW f \in Seq(Msg),
           NEW S \in SUBSET Records, NEW d, LinkOf(x, M, o, f, S, d), M # <<>>,
           Head(M).kind = "confirmOpen",
           NEW r \in Records, r.inc = Head(M).inc, ~r.closed, r.acks = 0
    PROVE  LinkOf(x, Tail(M), o, f, S \cup {r}, d)
<1>1. x \notin Regular /\ (~d => Head(M).inc = x.inc /\ x # NoChannel)
  BY MainFirst
<1>2. /\ Kinds(M, {"confirmOpen"}) => Kinds(Tail(M), {"confirmOpen"})
      /\ OfInc(M, x.inc) => OfInc(Tail(M), x.inc)
  BY MessageTaken
<1> QED BY <1>1, <1>2 DEF LinkOf, OtherLink

\* The packet SocketSend takes is of a channel that the server knows.
LEMMA OutFirst ==
    ASSUME NEW x \in Objects, NEW M, NEW o \in Seq(Msg), NEW f \in Seq(Msg), NEW S, NEW d,
           LinkOf(x, M, o, f, S, d), o # <<>>
    PROVE  /\ x \in Regular /\ x.status \in Used /\ Head(o).inc = x.inc
           /\ \E r : /\ Mine(x, S) = {r} /\ KnownAs(r, x, o, f) /\ Head(o).remote = r.remote
                     /\ r.closed \/ (x.status = "open" /\ ~Some(f, "close"))
<1>1. x \in Regular
  BY DEF LinkOf, OtherLink
<1>2. x.status \in Used /\ UsedLink(x, M, o, f, Mine(x, S)) /\ OfInc(o, x.inc)
  BY <1>1, ObjectIs DEF LinkOf, RegularLink, UnknownLink, Used, Statuses
<1>3. PICK r : Mine(x, S) = {r} /\ KnownAs(r, x, o, f)
  BY <1>2 DEF UsedLink, Forgotten
<1>4. Head(o).inc = x.inc /\ Head(o).remote = x.remote
  BY <1>2, <1>3, MessageTaken DEF KnownAs
<1> QED BY <1>1, <1>2, <1>3, <1>4 DEF KnownAs, Used

\* The server takes a packet of x, which it knows as r; q is what it knows when it owes one
\* answer more for data.
Sending(x, M, o, f, S, d, r) ==
    /\ x \in Objects /\ o \in Seq(Msg) /\ f \in Seq(Msg) /\ S \in SUBSET Records
    /\ LinkOf(x, M, o, f, S, d) /\ o # <<>> /\ r \in Mine(x, S)
Follows(m, r, q) ==
    /\ q \in Records /\ q.inc = r.inc /\ q.remote = r.remote /\ q.closed = r.closed
    /\ q.acks = r.acks + (IF m.kind \in {"data", "scpSend"} THEN 1 ELSE 0)

\* The server takes a packet that is not the CLOSE.
LEMMA LinkSent ==
    ASSUME NEW x, NEW M, NEW o, NEW f, NEW S, NEW d, NEW r, Sending(x, M, o, f, S, d, r),
           Head(o).kind # "close", NEW q, Follows(Head(o), r, q)
    PROVE  /\ LinkOf(x, M, Tail(o), f, (S \ {r}) \cup {q}, d)
           /\ Mine(x, (S \ {r}) \cup {q}) = {q}
           /\ Owed(x, f, Tail(o), q.acks) = Owed(x, f, o, r.acks)
<1>h. /\ x \in Objects /\ o \in Seq(Msg) /\ f \in Seq(Msg) /\ S \in SUBSET Records
      /\ LinkOf(x, M, o, f, S, d) /\ o # <<>> /\ r \in Mine(x, S)
  BY DEF Sending
<1>q. /\ q \in Records /\ q.inc = r.inc /\ q.remote = r.remote /\ q.closed = r.closed
      /\ q.acks = r.acks + (IF Head(o).kind \in {"data", "scpSend"} THEN 1 ELSE 0)
  BY DEF Follows
<1> USE <1>h, <1>q
<1>f. x \in Regular /\ x.status \in Used
  BY OutFirst
<1>g. \E s : Mine(x, S) = {s} /\ KnownAs(s, x, o, f)
  BY OutFirst
<1>r. Mine(x, S) = {r}
  BY <1>g
<1> DEFINE t == Tail(o)
           T == (S \ {r}) \cup {q}
<1>0. /\ t \in Seq(Msg) /\ (Some(t, "close") <=> Some(o, "close"))
      /\ (CloseLast(o) => CloseLast(t))
      /\ (OfInc(o, x.inc) => OfInc(t, x.inc)) /\ (OfRemote(o, x.remote) => OfRemote(t, x.remote))
  BY MessageTaken
<1>1. Count(o, {"data", "scpSend"}) = Count(t, {"data", "scpSend"})
                                     + (IF Head(o).kind \in {"data", "scpSend"} THEN 1 ELSE 0)
  BY CountHead
<1>2. /\ x \in Regular /\ x.status \in Used /\ RegularLink(x, M, o, f, {r})
      /\ UsedLink(x, M, o, f, {r}) /\ KnownAs(r, x, o, f)
      /\ \A s \in S : s.closed \/ s.inc = x.inc
  <2>0. x \in Regular /\ x.status \in Used /\ \E s : Mine(x, S) = {s} /\ KnownAs(s, x, o, f)
    BY <1>f, <1>g
  <2>1. x \in Regular /\ x.status \in Used /\ KnownAs(r, x, o, f)
    <3>1. PICK s : Mine(x, S) = {s} /\ KnownAs(s, x, o, f)
      BY <2>0
    <3>2. s = r
      BY <1>r, <3>1
    <3> QED BY <2>0, <3>1, <3>2
  <2> QED BY <1>r, <2>1 DEF LinkOf, RegularLink
<1>3. Mine(x, T) = {q} /\ r \in Records
  <2>1. r \in Records
    BY DEF Mine
  <2>2. q.inc = r.inc /\ T = (S \ {r}) \cup {q}
    BY DEF Follows
  <2> HIDE DEF t, T
  <2> QED BY <1>r, <2>1, <2>2, MineSwapped
<1>4. /\ Len(x.data) \in Nat /\ Count(f, {"data"}) \in Nat
      /\ Count(t, {"data", "scpSend"}) \in Nat /\ r.acks \in Nat
  BY <1>0, <1>2, <1>3, OwedTypes DEF Records
<1> HIDE DEF t, T
<1>5. Owed(x, f, t, q.acks) = Owed(x, f, o, r.acks)
  <2>1. PICK k, l, n : k = Len(x.data) /\ l = Count(f, {"data"})
                       /\ n = Count(t, {"data", "scpSend"})
    OBVIOUS
  <2>2. PICK e : e = IF Head(o).kind \in {"data", "scpSend"} THEN 1 ELSE 0
    OBVIOUS
  <2>3. /\ k \in Nat /\ l \in Nat /\ n \in Nat /\ e \in Nat /\ r.acks \in Nat
        /\ Owed(x, f, o, r.acks) = k + l + r.acks + (n + e)
        /\ Owed(x, f, t, q.acks) = k + l + (r.acks + e) + n
    BY <2>1, <2>2, <1>1, <1>4 DEF Owed
  <2> QED BY <2>3
<1>6. KnownAs(q, x, t, f)
  BY <1>0, <1>2, <1>5 DEF KnownAs, Own
<1>7. UsedLink(x, M, t, f, {q})
  BY <1>2, <1>6 DEF UsedLink
<1>8. RegularLink(x, M, t, f, {q})
  BY <1>0, <1>2, <1>7 DEF RegularLink, Used
<1>9. r.inc = x.inc
  BY DEF Mine
<1>10. \A s \in T : s.closed \/ s.inc = x.inc
  BY <1>2, <1>9 DEF T
<1> QED BY <1>2, <1>3, <1>5, <1>8, <1>10, ObjectIs DEF LinkOf, t, T

\* It answers a request.
Replying(f, a, t) == f \in Seq(Msg) /\ a \in Msg /\ a.kind \in Answers /\ t = Append(f, a)
LEMMA LinkReplied ==
    ASSUME NEW x, NEW M, NEW o, NEW f, NEW S, NEW d, LinkOf(x, M, o, f, S, d), x \in Regular,
           x.status = "open", ~Some(f, "close"), NEW a, NEW t, Replying(f, a, t), a.inc = x.inc
    PROVE  LinkOf(x, M, o, t, S, d) /\ \A n : Owed(x, t, o, n) = Owed(x, f, o, n)
<1>h. f \in Seq(Msg) /\ a \in Msg /\ a.kind \in Answers /\ t = Append(f, a)
  BY DEF Replying
<1>0. /\ t \in Seq(Msg) /\ ~Some(t, "close") /\ CloseLast(t)
      /\ \A K : Kinds(f, K) /\ a.kind \in K => Kinds(t, K)
      /\ OfInc(f, x.inc) => OfInc(t, x.inc)
  BY <1>h, MessageAppended DEF Answers
<1>1. Count(t, {"data"}) = Count(f, {"data"})
  BY <1>h, CountAppend, CountType DEF Answers
<1>2. /\ RegularLink(x, M, o, f, Mine(x, S)) /\ UsedLink(x, M, o, f, Mine(x, S))
      /\ \A r \in S : r.closed \/ r.inc = x.inc
  BY DEF LinkOf, RegularLink, Used
<1>3. \A n : Owed(x, t, o, n) = Owed(x, f, o, n)
  BY <1>1 DEF Owed
<1>4. \A r : KnownAs(r, x, o, f) => KnownAs(r, x, o, t)
  BY <1>0, <1>3 DEF KnownAs
<1>5. ~Forgotten(x, o, f)
  BY DEF Forgotten
<1>6. UsedLink(x, M, o, t, Mine(x, S))
  BY <1>h, <1>0, <1>2, <1>4, <1>5 DEF UsedLink
<1>7. RegularLink(x, M, o, t, Mine(x, S))
  BY <1>0, <1>2, <1>6 DEF RegularLink, Used
<1> QED BY <1>2, <1>3, <1>7, ObjectIs DEF LinkOf

\* The CLOSE of a channel that has been deleted already.
LEMMA LinkCloseLost ==
    ASSUME NEW M, NEW o, NEW f \in Seq(Msg), NEW S, NEW d \in BOOLEAN,
           LinkOf(NoChannel, M, o, f, S, d), f # <<>>
    PROVE  LinkOf(NoChannel, M, o, Tail(f), S, d)
<1>1. OtherLink(NoChannel, M, o, f, S, d) /\ NoChannel \notin Regular
  BY ObjectIs DEF LinkOf
<1>2. d
  BY <1>1 DEF OtherLink
<1>3. Kinds(f, {"eof", "close"}) => Kinds(Tail(f), {"eof", "close"})
  BY MessageTaken
<1> QED BY <1>1, <1>2, <1>3 DEF LinkOf, OtherLink

\* The server takes the CLOSE, and forgets the channel; it answers when it has not sent its own.
LEMMA LinkCloseTaken ==
    ASSUME NEW x \in Objects, NEW M, NEW o \in Seq(Msg), NEW f \in Seq(Msg),
           NEW S \in SUBSET Records, NEW d, LinkOf(x, M, o, f, S, d), o # <<>>,
           Head(o).kind = "close", NEW r \in Mine(x, S),
           NEW a \in Msg, a.kind = "close", a.inc = x.inc,
           NEW t, t = IF r.closed THEN f ELSE Append(f, a)
    PROVE  /\ LinkOf(x, M, Tail(o), t, S \ {r}, d) /\ Tail(o) = <<>>
           /\ Mine(x, S \ {r}) = {}
<1>f. x \in Regular /\ x.status \in Used
  BY OutFirst
<1>g. \E s : Mine(x, S) = {s} /\ KnownAs(s, x, o, f)
  BY OutFirst
<1>r. Mine(x, S) = {r}
  BY <1>g
<1>1. KnownAs(r, x, o, f)
  <2>1. PICK s : Mine(x, S) = {s} /\ KnownAs(s, x, o, f)
    BY <1>g
  <2>2. s = r
    BY <1>r, <2>1
  <2> QED BY <2>1, <2>2
<1>2. /\ RegularLink(x, M, o, f, {r}) /\ UsedLink(x, M, o, f, {r})
      /\ \A s \in S : s.closed \/ s.inc = x.inc
  BY <1>f, <1>r DEF LinkOf, RegularLink
<1>3. Mine(x, S \ {r}) = {} /\ r \in Records
  BY <1>r, MineFacts DEF Mine
<1>4. Tail(o) = <<>> /\ Some(o, "close")
  BY <1>1, MessageTaken DEF KnownAs
<1>5. x.closeSent /\ Owed(x, f, o, r.acks) <= 1
  BY <1>1, <1>4 DEF KnownAs
<1>6. /\ t \in Seq(Msg) /\ CloseLast(t) /\ Kinds(t, Answers \cup {"data", "eof", "close"})
      /\ OfInc(t, x.inc) /\ (x.status = "closed" => t = <<>>)
      /\ x.status = "closed" \/ Some(t, "close")
      /\ Count(t, {"data"}) = Count(f, {"data"})
  <2>0. OfInc(f, x.inc) /\ CloseLast(f) /\ Kinds(f, Answers \cup {"data", "eof", "close"})
    BY <1>2 DEF RegularLink, UsedLink
  <2>1. CASE r.closed
    BY <1>1, <1>2, <2>0, <2>1 DEF KnownAs, UsedLink
  <2>2. CASE ~r.closed
    <3>1. x.status = "open" /\ ~Some(f, "close") /\ t = Append(f, a)
      BY <1>f, <1>1, <2>2 DEF KnownAs, Used
    <3>2. /\ t \in Seq(Msg) /\ CloseLast(t) /\ Some(t, "close")
          /\ (Kinds(f, Answers \cup {"data", "eof", "close"}) =>
                Kinds(t, Answers \cup {"data", "eof", "close"}))
          /\ (OfInc(f, x.inc) => OfInc(t, x.inc))
      BY <3>1, MessageAppended
    <3>3. Count(t, {"data"}) = Count(f, {"data"})
      BY <3>1, CountAppend, CountType
    <3> QED BY <2>0, <3>1, <3>2, <3>3
  <2> QED BY <2>1, <2>2
<1>7. Owed(x, t, <<>>, 0) <= 1
  <2>1. CASE x.status = "closed"
    <3>1. t = <<>> /\ f = <<>>
      BY <1>2, <1>6, <2>1 DEF UsedLink
    <3>2. /\ Len(x.data) \in Nat /\ Count(f, {"data"}) \in Nat
          /\ Count(o, {"data", "scpSend"}) \in Nat /\ r.acks \in Nat
          /\ Count(<<>>, {"data", "scpSend"}) = 0
      BY <1>f, <1>3, OwedTypes, CountEmpty DEF Records
    <3> QED BY <1>5, <3>1, <3>2 DEF Owed
  <2>2. CASE x.status # "closed"
    <3>1. Count(t, {"data"}) = Count(f, {"data"})
      BY <1>6, <2>2
    <3>2. /\ Len(x.data) \in Nat /\ Count(f, {"data"}) \in Nat
          /\ Count(o, {"data", "scpSend"}) \in Nat /\ r.acks \in Nat
          /\ Count(<<>>, {"data", "scpSend"}) = 0
      BY <1>f, <1>3, OwedTypes, CountEmpty DEF Records
    <3> QED BY <1>5, <3>1, <3>2 DEF Owed
  <2> QED BY <2>1, <2>2
<1>8. Forgotten(x, <<>>, t)
  BY <1>5, <1>6, <1>7 DEF Forgotten
<1>9. UsedLink(x, M, <<>>, t, {})
  BY <1>2, <1>6, <1>8 DEF UsedLink
<1>10. RegularLink(x, M, <<>>, t, {})
  BY <1>f, <1>6, <1>9, NothingUnderWay DEF RegularLink, Used
<1> QED BY <1>f, <1>2, <1>3, <1>4, <1>10, ObjectIs DEF LinkOf

\* The server says EOF and CLOSE of its own accord.
LEMMA LinkServerCloses ==
    ASSUME NEW x \in Objects, NEW M, NEW o \in Seq(Msg), NEW f \in Seq(Msg),
           NEW S \in SUBSET Records, NEW d \in BOOLEAN, LinkOf(x, M, o, f, S, d),
           NEW r \in S, ~r.closed, NEW q \in Records, q.inc = r.inc, q.remote = r.remote,
           q.closed, q.acks = r.acks,
           NEW a \in Msg, a.kind = "eof", a.inc = r.inc,
           NEW b \in Msg, b.kind = "close", b.inc = r.inc
    PROVE  LinkOf(x, M, o, Append(Append(f, a), b), (S \ {r}) \cup {q}, d)
<1> DEFINE e == Append(f, a)
           t == Append(e, b)
           T == (S \ {r}) \cup {q}
<1>1. /\ e \in Seq(Msg) /\ (Some(e, "close") <=> Some(f, "close"))
      /\ \A K : Kinds(e, K) <=> Kinds(f, K) /\ a.kind \in K
      /\ \A n : OfInc(e, n) <=> OfInc(f, n) /\ a.inc = n
  BY MessageAppended
<1>2. /\ t \in Seq(Msg) /\ Some(t, "close") /\ (~Some(e, "close") => CloseLast(t))
      /\ \A K : Kinds(t, K) <=> Kinds(e, K) /\ b.kind \in K
      /\ \A n : OfInc(t, n) <=> OfInc(e, n) /\ b.inc = n
  <2>1. e \in Seq(Msg)
    BY <1>1
  <2> HIDE DEF e
  <2> QED BY <2>1, MessageAppended
<1>3. Count(t, {"data"}) = Count(f, {"data"})
  <2>1. Count(e, {"data"}) = Count(f, {"data"})
    BY CountAppend, CountType
  <2> HIDE DEF e
  <2>2. Count(t, {"data"}) = Count(e, {"data"})
    BY <1>1, CountAppend, CountType
  <2> QED BY <2>1, <2>2
<1>4. Len(f) = 1 => Len(t) = 3 /\ t[1] = f[1] /\ t[2] = a /\ t[3] = b
  <2>1. /\ Len(e) = Len(f) + 1 /\ e[Len(f) + 1] = a /\ Len(f) \in Nat
        /\ \A i \in 1 .. Len(f) : e[i] = f[i]
    OBVIOUS
  <2> HIDE DEF e
  <2>2. /\ Len(t) = Len(e) + 1 /\ t[Len(e) + 1] = b /\ \A i \in 1 .. Len(e) : t[i] = e[i]
    BY <1>1
  <2> HIDE DEF t
  <2> QED BY <2>1, <2>2
<1> HIDE DEF t, e
<1>5. CASE x \in Regular
  <2>1. r.inc = x.inc /\ \A s \in S : s.closed \/ s.inc = x.inc
    BY <1>5 DEF LinkOf
  <2>2. r \in Mine(x, S) /\ RegularLink(x, M, o, f, Mine(x, S))
    BY <1>5, <2>1 DEF LinkOf, Mine
  <2>3. OfInc(t, x.inc) /\ OfInc(o, x.inc)
    BY <1>1, <1>2, <2>1, <2>2 DEF RegularLink
  <2>4. CASE x.status = "unknown"
    <3>1. UnknownLink(x, M, o, f, Mine(x, S))
      BY <2>2, <2>4 DEF RegularLink
    <3>2. OpenAnswered(M, f, Mine(x, S))
      BY <2>2, <3>1 DEF UnknownLink, OpenAsked
    <3>3. Mine(x, S) = {r} /\ ConfirmedAs(r, f) /\ M = <<>>
      BY <2>2, <3>2 DEF OpenAnswered
    <3>4. Mine(x, T) = {q}
      <4>1. Mine(x, S) = {r} /\ T = (S \ {r}) \cup {q}
        BY <3>3
      <4> HIDE DEF T
      <4> QED BY <4>1, MineSwapped, SMTT(30)
    <3>5. ConfirmedAs(q, t)
      BY <1>4, <3>3 DEF ConfirmedAs, Own
    <3>6. UnknownLink(x, M, o, t, {q})
      BY <3>1, <3>3, <3>5 DEF UnknownLink, OpenAnswered
    <3>7. RegularLink(x, M, o, t, {q})
      BY <2>3, <2>4, <3>6 DEF RegularLink, Used
    <3> QED BY <1>5, <2>1, <3>4, <3>7, ObjectIs DEF LinkOf, t, e
  <2>5. CASE x.status \in Used
    <3>1. UsedLink(x, M, o, f, Mine(x, S))
      BY <2>2, <2>5 DEF RegularLink
    <3>2. Mine(x, S) = {r} /\ KnownAs(r, x, o, f)
      BY <2>2, <3>1 DEF UsedLink
    <3>3. Mine(x, T) = {q}
      <4>1. Mine(x, S) = {r} /\ T = (S \ {r}) \cup {q}
        BY <3>2
      <4> HIDE DEF T
      <4> QED BY <4>1, MineSwapped, SMTT(30)
    <3>4. x.status = "open" /\ ~Some(f, "close")
      BY <2>5, <3>2 DEF KnownAs, Used
    <3>5. KnownAs(q, x, o, t)
      BY <1>1, <1>2, <1>3, <3>2, <3>4 DEF KnownAs, Own, Owed
    <3>6. UsedLink(x, M, o, t, {q})
      BY <1>1, <1>2, <3>1, <3>4, <3>5 DEF UsedLink
    <3>7. RegularLink(x, M, o, t, {q})
      BY <2>3, <2>5, <3>6 DEF RegularLink, Used
    <3> QED BY <1>5, <2>1, <3>3, <3>7, ObjectIs DEF LinkOf, t, e
  <2>6. CASE x.status = "failedToCreate"
    BY <2>2, <2>6 DEF RegularLink
  <2> QED BY <1>5, <2>4, <2>5, <2>6, ObjectIs DEF Statuses, Used
<1>6. CASE x \notin Regular
  <2>1. OtherLink(x, M, o, f, S, d) /\ (~d => x # NoChannel /\ r.inc = x.inc)
    BY <1>6 DEF LinkOf
  <2>2. Kinds(t, {"eof", "close"}) /\ (~d => OfInc(t, x.inc))
    BY <1>1, <1>2, <2>1 DEF OtherLink
  <2>3. OtherLink(x, M, o, t, T, d)
    BY <2>1, <2>2 DEF OtherLink
  <2>4. ~d => \A s \in T : s.closed \/ (x # NoChannel /\ s.inc = x.inc)
    BY <1>6 DEF LinkOf
  <2> QED BY <1>6, <2>3, <2>4 DEF LinkOf, t, e
<1> QED BY <1>5, <1>6

\* The record r of a channel whose link is whole becomes q with what the server says.
Saying(x, M, o, f, S, d, r, q) ==
    /\ x \in Objects /\ o \in Seq(Msg) /\ f \in Seq(Msg) /\ S \in SUBSET Records
    /\ d \in BOOLEAN /\ LinkOf(x, M, o, f, S, d) /\ r \in S /\ ~r.closed
    /\ q \in Records /\ q.inc = r.inc /\ q.remote = r.remote
Closing(r, q, a, b) ==
    /\ q.closed /\ q.acks = r.acks /\ a \in Msg /\ a.kind = "eof" /\ a.inc = r.inc
    /\ b \in Msg /\ b.kind = "close" /\ b.inc = r.inc
ScpAnswers(r, q, a) ==
    /\ r.acks > 0 /\ ~q.closed /\ q.acks = r.acks - 1
    /\ a \in Msg /\ a.kind = "data" /\ a.inc = r.inc
Said(x, M, o, f, S, d, r, q, g, T) ==
    /\ LinkOf(x, M, o, g, T, d) /\ Mine(x, S) = {r} /\ Mine(x, T) = {q}
    /\ Owed(x, g, o, q.acks) = Owed(x, f, o, r.acks)

\* It answers as scp.
LEMMA LinkServerData ==
    ASSUME NEW x, NEW M, NEW o, NEW f, NEW S, NEW d, NEW r, NEW q, NEW a,
           Saying(x, M, o, f, S, d, r, q), ScpAnswers(r, q, a)
    PROVE  Said(x, M, o, f, S, d, r, q, Append(f, a), (S \ {r}) \cup {q})
<1>h. /\ x \in Objects /\ o \in Seq(Msg) /\ f \in Seq(Msg) /\ S \in SUBSET Records
      /\ d \in BOOLEAN /\ LinkOf(x, M, o, f, S, d) /\ r \in S /\ ~r.closed
      /\ q \in Records /\ q.inc = r.inc /\ q.remote = r.remote
      /\ r.acks > 0 /\ ~q.closed /\ q.acks = r.acks - 1
      /\ a \in Msg /\ a.kind = "data" /\ a.inc = r.inc
  BY DEF Saying, ScpAnswers
<1> USE <1>h
<1> DEFINE t == Append(f, a)
           T == (S \ {r}) \cup {q}
<1>0. r \in Records /\ r.acks \in Nat /\ r.acks # 0
  BY DEF Records
<1>1. x \in Regular
  BY <1>0 DEF LinkOf, OtherLink
<1>2. r.inc = x.inc /\ \A s \in S : s.closed \/ s.inc = x.inc
  BY <1>1 DEF LinkOf
<1>3. r \in Mine(x, S) /\ RegularLink(x, M, o, f, Mine(x, S))
  BY <1>1, <1>2 DEF LinkOf, Mine
<1>4. x.status \in Used
  BY <1>0, <1>1, <1>3, ObjectIs DEF RegularLink, UnknownLink, OpenAsked, OpenAnswered,
     ConfirmedAs, Used, Statuses
<1>5. UsedLink(x, M, o, f, Mine(x, S))
  BY <1>3, <1>4 DEF RegularLink
<1>6. Mine(x, S) = {r} /\ KnownAs(r, x, o, f)
  BY <1>3, <1>5 DEF UsedLink
<1>7. x.status = "open" /\ ~Some(f, "close")
  BY <1>4, <1>6 DEF KnownAs, Used
<1>8. Mine(x, T) = {q}
  <2>1. Mine(x, S) = {r} /\ T = (S \ {r}) \cup {q}
    BY <1>6
  <2> HIDE DEF T
  <2> QED BY <2>1, MineSwapped, SMTT(30)
<1>9. /\ t \in Seq(Msg) /\ ~Some(t, "close") /\ CloseLast(t)
      /\ \A K : Kinds(t, K) <=> Kinds(f, K) /\ a.kind \in K
      /\ \A n : OfInc(t, n) <=> OfInc(f, n) /\ a.inc = n
  BY <1>7, MessageAppended
<1>10. Count(t, {"data"}) = Count(f, {"data"}) + 1
  BY CountAppend
<1>11. /\ Len(x.data) \in Nat /\ Count(f, {"data"}) \in Nat
       /\ Count(o, {"data", "scpSend"}) \in Nat
  BY <1>1, OwedTypes
<1> HIDE DEF t, T
<1>12. Owed(x, t, o, q.acks) = Owed(x, f, o, r.acks)
  <2>1. PICK k, l, n : k = Len(x.data) /\ l = Count(f, {"data"})
                       /\ n = Count(o, {"data", "scpSend"})
    OBVIOUS
  <2>2. /\ k \in Nat /\ l \in Nat /\ n \in Nat
        /\ Owed(x, f, o, r.acks) = k + l + r.acks + n
        /\ Owed(x, t, o, q.acks) = k + (l + 1) + (r.acks - 1) + n
    BY <2>1, <1>10, <1>11 DEF Owed
  <2> QED BY <2>2, <1>0
<1>13. KnownAs(q, x, o, t)
  BY <1>6, <1>7, <1>9, <1>12 DEF KnownAs, Own
<1>14. UsedLink(x, M, o, t, {q})
  BY <1>5, <1>7, <1>9, <1>13 DEF UsedLink
<1>15. RegularLink(x, M, o, t, {q})
  BY <1>2, <1>3, <1>4, <1>9, <1>14 DEF RegularLink, Used
<1>16. \A s \in T : s.closed \/ s.inc = x.inc
  BY <1>2 DEF T
<1>17. LinkOf(x, M, o, t, T, d)
  BY <1>1, <1>8, <1>15, <1>16, ObjectIs DEF LinkOf
<1> QED BY <1>6, <1>8, <1>12, <1>17 DEF Said, t, T

-----------------------------------------------------------------------------
(* A user and its channel. *)

Fine(up, p, a, n, x, M, o, f, S) ==
    Works(up, p, a, n, x, o, f, S) /\ Stands(up, x, M, o, f, S, FALSE)

LEMMA LastsSame ==
    ASSUME NEW x \in Channel, NEW y \in Channel, NEW d, Lasts(x, d),
           y.placeholder = x.placeholder, y.status = x.status, y.data = x.data,
           y.closeSent = x.closeSent, y.closeRecvd = x.closeRecvd, y.told = x.told
    PROVE  Lasts(y, d)
<1>1. x \in Regular <=> y \in Regular
  BY DEF Regular
<1> QED BY <1>1 DEF Lasts

LEMMA UncountedAppend ==
    ASSUME NEW s \in Seq(Msg), NEW m \in Msg, NEW K, m.kind \notin K
    PROVE  /\ Count(Append(s, m), K) = Count(s, K)
           /\ \A n : Ids(Append(s, m), K, n) <=> Ids(s, K, n)
  BY CountAppend, CountType, MessageAppended

LEMMA UncountedHead ==
    ASSUME NEW s \in Seq(Msg), s # <<>>, NEW K, Head(s).kind \notin K
    PROVE  /\ Count(Tail(s), K) = Count(s, K)
           /\ \A n : Ids(Tail(s), K, n) <=> Ids(s, K, n)
<1>1. Tail(s) \in Seq(Msg) /\ \A n : Ids(s, K, n) <=> Ids(Tail(s), K, n)
  BY MessageTaken
<1>2. Count(Tail(s), K) \in Nat
  BY <1>1, CountType
<1>3. Count(s, K) = Count(Tail(s), K) + (IF Head(s).kind \in K THEN 1 ELSE 0)
  BY CountHead
<1> QED BY <1>1, <1>2, <1>3

LEMMA NoneCounted ==
    ASSUME NEW s \in Seq(Msg), NEW K, Count(s, K) = 0
    PROVE  \A i \in DOMAIN s : s[i].kind \notin K
<1> SUFFICES ASSUME NEW i \in DOMAIN s, s[i].kind \in K PROVE FALSE
  OBVIOUS
<1>1. s[i] \in OfKind(K)
  BY DEF OfKind
<1>2. Holds(s, s[i])
  BY DEF Holds
<1>3. Holds(Selection(s, OfKind(K)), s[i])
  BY <1>1, <1>2, SelectionHolds
<1>4. PICK t : t = Selection(s, OfKind(K))
  OBVIOUS
<1>5. t \in Seq(Msg \cap OfKind(K))
  BY <1>4, SelectionType
<1>6. Len(t) # 0
  BY <1>3, <1>4, <1>5 DEF Holds
<1> QED BY <1>4, <1>6 DEF Count

\* Nothing about a request has changed.
LEMMA AskKept ==
    ASSUME NEW p, NEW a, NEW n, NEW x, NEW o, NEW f, NEW R, AskOf(p, a, n, x, o, f, R),
           NEW y, NEW q, NEW t, NEW T,
           y.result = x.result, y.status = x.status,
           Count(q, Requests) = Count(o, Requests), Count(t, Answers) = Count(f, Answers),
           Ids(o, Requests, n) => Ids(q, Requests, n),
           Ids(f, Answers, n) => Ids(t, Answers, n),
           Some(f, "close") => Some(t, "close"),
           \A r \in T : \E s \in R : Owed(y, t, q, r.acks) = Owed(x, f, o, s.acks)
    PROVE  AskOf(p, a, n, y, q, t, T)
<1>1. AskedFor(p, a, n, y, q, t)
  BY DEF AskOf, AskedFor
<1>2. NotOwed(p, a, y, q, t, T)
  BY DEF AskOf, NotOwed
<1> QED BY <1>1, <1>2 DEF AskOf

\* The messages of a user that is in no request are about none.
LEMMA AskQuiet ==
    ASSUME NEW p, NEW q, NEW a, NEW b, NEW n, NEW k, NEW x, NEW y, NEW o, NEW t, NEW f, NEW R,
           AskedFor(p, a, n, x, o, f),
           p \notin Asking \/ x.result # "pending", q \notin Asking \cup {"creating"},
           Count(o, Requests) \in Nat, Count(f, Answers) \in Nat,
           Count(t, Requests) = Count(o, Requests)
    PROVE  AskOf(q, b, k, y, t, f, R)
<1>1. Count(o, Requests) = 0 /\ Count(f, Answers) = 0
  BY DEF AskedFor
<1> QED BY <1>1 DEF AskOf, AskedFor, NotOwed

-----------------------------------------------------------------------------
(* The calls. *)

Fresh(x) ==
    /\ x \in Regular /\ x.status = "unknown" /\ x.result = "pending"
    /\ ~x.told /\ ~x.closeSent /\ ~x.closeRecvd /\ x.data = <<>> /\ x.remote = NoSlot
Unheard(x, S) == \A r \in S : r.inc # x.inc
Opens(m, x) == m \in Msg /\ m.kind = "open" /\ m.inc = x.inc
LEMMA FineCreate ==
    ASSUME NEW up \in BOOLEAN, NEW M, NEW o, NEW f, NEW S,
           Stands(up, NoChannel, M, o, f, S, FALSE),
           NEW a \in {"create", "scpSend", "scpReceive"}, NEW n,
           NEW x, Fresh(x), Unheard(x, S), NEW m, Opens(m, x)
    PROVE  Fine(up, "creating", a, n, x, Append(M, m), o, f, S)
<1> USE DEF Fresh, Unheard, Opens
<1>1. Held("creating", a, n, x)
  BY DEF Held, Using, Asleep, Asking
<1>2. Lasts(x, FALSE)
  BY ObjectIs DEF Lasts
<1>3. up => LinkOf(x, Append(M, m), o, f, S, FALSE)
  BY LinkCreate DEF Stands
<1>4. up => AskOf("creating", a, n, x, o, f, Mine(x, S))
  <2>1. up => o = <<>> /\ f = <<>>
    BY EmptySlot DEF Stands
  <2> QED BY <2>1, NothingUnderWay DEF AskOf, AskedFor, NotOwed, Used, Asking
<1> QED BY <1>1, <1>2, <1>3, <1>4 DEF Fine, Works, Stands

\* The user goes on, and nothing is said.
LEMMA FineGo ==
    ASSUME NEW up \in BOOLEAN, NEW p, NEW a, NEW n, NEW x, NEW M, NEW o \in Seq(Msg),
           NEW f \in Seq(Msg), NEW S, Fine(up, p, a, n, x, M, o, f, S),
           NEW q, NEW b,
           \/ p = "creating" /\ x.status = "open" /\ q = "idle"
           \/ p = "idle" /\ q = "close"
           \/ p = "close" /\ q = "closeQueue"
           \/ p = "closeWait" /\ q = IF x.status = "closed" THEN "delete" ELSE "closeAsleep"
    PROVE  Fine(up, q, b, n, x, M, o, f, S)
<1>1. Held(p, a, n, x) /\ p \notin Asking /\ q \notin Asking \cup {"creating"}
  BY DEF Fine, Works, Asking
<1>2. Held(q, b, n, x)
  BY <1>1 DEF Held, Using, Used, Asking, Asleep
<1>3. up => AskOf(q, b, n, x, o, f, Mine(x, S))
  BY <1>1, AskQuiet, CountType DEF Fine, Works, AskOf
<1> QED BY <1>2, <1>3 DEF Fine, Works

LEMMA FineLook ==
    ASSUME NEW up \in BOOLEAN, NEW a, NEW n, NEW x, NEW M, NEW o, NEW f, NEW S,
           Fine(up, "request", a, n, x, M, o, f, S),
           NEW q, q = IF x.result = "pending" THEN "requestWait" ELSE "requestTake"
    PROVE  Fine(up, q, a, n, x, M, o, f, S)
<1>1. Held(q, a, n, x)
  BY DEF Fine, Works, Held, Using, Asking, Asleep
<1>2. up => AskOf(q, a, n, x, o, f, Mine(x, S))
  BY DEF Fine, Works, AskOf, AskedFor, NotOwed, Asking
<1> QED BY <1>1, <1>2 DEF Fine, Works

\* A message is queued that is no CLOSE.
LEMMA StandsQueue ==
    ASSUME NEW up \in BOOLEAN, NEW p, NEW a, NEW n, NEW x, NEW M, NEW o \in Seq(Msg),
           NEW f \in Seq(Msg), NEW S \in SUBSET Records, Fine(up, p, a, n, x, M, o, f, S),
           x.status \in Used, p \notin Asleep, NEW m \in Msg, m.kind # "close", m.inc = x.inc,
           m.remote = x.remote,
           up /\ m.kind \in {"data", "scpSend"} => \A r \in Mine(x, S) : Owed(x, f, o, r.acks) = 0
    PROVE  Stands(up, x, M, Append(o, m), f, S, FALSE)
<1>1. x \in Regular /\ ~x.closeSent
  BY DEF Fine, Works, Held
<1>2. up => LinkOf(x, M, Append(o, m), f, S, FALSE)
  <2>1. ASSUME up PROVE LinkOf(x, M, o, f, S, FALSE)
    BY <2>1 DEF Fine, Stands
  <2>2. ASSUME up PROVE m.kind \in {"data", "scpSend"} =>
                          \A r \in Mine(x, S) : Owed(x, f, o, r.acks) = 0
    BY <2>2
  <2> QED BY <1>1, <2>1, <2>2, LinkQueue
<1> QED BY <1>2 DEF Fine, Stands

LEMMA FineRequest ==
    ASSUME NEW up \in BOOLEAN, NEW p, NEW a, NEW n, NEW x, NEW M, NEW o \in Seq(Msg),
           NEW f \in Seq(Msg), NEW S \in SUBSET Records, Fine(up, p, a, n, x, M, o, f, S),
           NEW b \in Requests \cup {"windowChange"}, NEW k,
           \/ p = "idle" /\ b \in {"request", "windowChange"}
           \/ p = "creating" /\ x.status = "open" /\ a = b,
           NEW m \in Msg, m.kind = b, m.inc = x.inc, m.remote = x.remote, m.id = k
    PROVE  Fine(up, "request", b, k, x, M, Append(o, m), f, S)
<1> DEFINE t == Append(o, m)
<1>1. /\ Held(p, a, n, x) /\ p \notin Asking /\ p \notin Asleep /\ x.status \in Used
      /\ m.kind # "close" /\ x.result = "pending"
  BY DEF Fine, Works, Held, Asking, Asleep, Used, Requests
<1>2. Held("request", b, k, x)
  BY <1>1 DEF Held, Using, Asking, Asleep
<1>3. up /\ m.kind \in {"data", "scpSend"} => \A r \in Mine(x, S) : Owed(x, f, o, r.acks) = 0
  BY <1>1 DEF Fine, Works, AskOf, NotOwed, Requests
<1>4. Stands(up, x, M, t, f, S, FALSE)
  BY <1>1, <1>3, StandsQueue
<1>5. ASSUME up PROVE AskOf("request", b, k, x, t, f, Mine(x, S))
  <2>1. AskedFor(p, a, n, x, o, f) /\ NotOwed(p, a, x, o, f, Mine(x, S))
    BY <1>5 DEF Fine, Works, AskOf
  <2>2. Count(o, Requests) = 0 /\ Count(f, Answers) = 0
    BY <1>1, <2>1 DEF AskedFor
  <2>3. Count(t, Requests) = Count(o, Requests) + (IF m.kind \in Requests THEN 1 ELSE 0)
    BY CountAppend
  <2>4. Ids(t, Requests, k) /\ Ids(f, Answers, k)
    <3>1. Ids(t, Requests, k) <=> Ids(o, Requests, k) /\ (m.kind \in Requests => m.id = k)
      BY MessageAppended
    <3>2. \A i \in DOMAIN o : o[i].kind \notin Requests
      BY <2>2, NoneCounted
    <3>3. \A i \in DOMAIN f : f[i].kind \notin Answers
      BY <2>2, NoneCounted
    <3> QED BY <3>1, <3>2, <3>3 DEF Ids
  <2>5. AskedFor("request", b, k, x, t, f)
    <3>1. CASE b = "windowChange"
      <4>1. Count(t, Requests) = 0
        BY <2>2, <2>3, <3>1 DEF Requests
      <4> QED BY <2>2, <3>1, <4>1 DEF AskedFor
    <3>2. CASE b # "windowChange"
      <4>1. Count(t, Requests) = 1
        BY <2>2, <2>3, <3>2
      <4> QED BY <1>1, <2>2, <2>4, <3>2, <4>1 DEF AskedFor, Asking
    <3> QED BY <3>1, <3>2
  <2>6. NotOwed("request", b, x, t, f, Mine(x, S))
    <3>1. SUFFICES ASSUME b = "scpReceive", NEW r \in Mine(x, S) PROVE Owed(x, f, t, r.acks) = 0
      BY DEF NotOwed
    <3>2. Owed(x, f, o, r.acks) = 0
      BY <1>1, <2>1, <3>1 DEF NotOwed
    <3>3. Count(t, {"data", "scpSend"}) = Count(o, {"data", "scpSend"})
      BY <3>1, UncountedAppend
    <3> QED BY <3>2, <3>3 DEF Owed
  <2> QED BY <2>5, <2>6 DEF AskOf
<1> QED BY <1>2, <1>4, <1>5 DEF Fine, Works

\* getChannelRequestResult takes the result; scpReceiveInit goes on with a byte.
\* What is written, if anything, to the queue o of the channel x; where the call goes on.
Data(m, x) == m \in Msg /\ m.kind = "data" /\ m.inc = x.inc /\ m.remote = x.remote
Written(x, o, t) == t = o \/ \E m : Data(m, x) /\ t = Append(o, m)
Onto(q, b) == q \in {"idle", "close"} \/ (q = "read" /\ b \in {"scpSend", "scpReceive"})
Reset(x, y) == y = [x EXCEPT !.result = "pending", !.answered = 0]
LEMMA FineTaken ==
    ASSUME NEW up \in BOOLEAN, NEW a, NEW n, NEW x, NEW M, NEW o \in Seq(Msg),
           NEW f \in Seq(Msg), NEW S \in SUBSET Records,
           Fine(up, "requestTake", a, n, x, M, o, f, S), NEW y, Reset(x, y),
           NEW q, NEW b, NEW k, Onto(q, b),
           NEW t, Written(x, o, t), t = o \/ a = "scpReceive"
    PROVE  Fine(up, q, b, k, y, M, t, f, S)
<1>1. /\ Held("requestTake", a, n, x) /\ x \in Regular /\ x.result # "pending"
      /\ x.status \in Used /\ ~x.closeSent
  BY DEF Fine, Works, Held, Asleep
<1>2. /\ y \in Channel /\ (y \in Regular <=> x \in Regular)
      /\ y.inc = x.inc /\ y.status = x.status /\ y.result = "pending"
      /\ y.closeSent = x.closeSent /\ y.closeRecvd = x.closeRecvd
      /\ y.placeholder = x.placeholder /\ y.remote = x.remote /\ y.data = x.data
      /\ y.told = x.told
  <2>1. x \in Channel /\ "pending" \in Results /\ 0 \in Nat
    BY <1>1, ObjectIs DEF Results
  <2> QED BY <2>1 DEF Channel, Regular, Reset
<1>3. Held(q, b, k, y)
  BY <1>1, <1>2 DEF Held, Using, Asking, Asleep, Onto
<1>4. Lasts(y, FALSE)
  <2>1. Lasts(x, FALSE)
    BY DEF Fine, Stands
  <2> QED BY <1>1, <1>2, <2>1, ObjectIs, LastsSame
<1>5. Stands(up, x, M, t, f, S, FALSE) /\ (up => Count(t, Requests) = Count(o, Requests))
  <2>1. CASE t = o
    BY <2>1 DEF Fine
  <2>2. ASSUME a = "scpReceive", NEW m, Data(m, x), t = Append(o, m)
        PROVE  /\ Stands(up, x, M, t, f, S, FALSE)
               /\ (up => Count(t, Requests) = Count(o, Requests))
    <3> USE DEF Data
    <3>1. up => \A r \in Mine(x, S) : Owed(x, f, o, r.acks) = 0
      BY <2>2 DEF Fine, Works, AskOf, NotOwed, Asking
    <3>2. Count(t, Requests) = Count(o, Requests)
      BY <2>2, UncountedAppend DEF Requests
    <3>3. "requestTake" \notin Asleep /\ m.kind # "close"
      BY <2>2 DEF Asleep
    <3>4. Stands(up, x, M, Append(o, m), f, S, FALSE)
      BY <1>1, <2>2, <3>1, <3>3, StandsQueue
    <3> QED BY <2>2, <3>2, <3>4
  <2> QED BY <2>1, <2>2 DEF Written
<1>6. up => LinkOf(y, M, t, f, S, FALSE)
  BY <1>1, <1>2, <1>5, ObjectIs, LinkSame DEF Stands
<1>7. up => AskOf(q, b, k, y, t, f, Mine(y, S))
  <2>1. q \notin Asking \cup {"creating"}
    BY DEF Asking, Onto
  <2> QED BY <1>1, <1>5, <2>1, AskQuiet, CountType DEF Fine, Works, AskOf
<1> QED BY <1>3, <1>4, <1>6, <1>7 DEF Fine, Works, Stands

LEMMA OwedRead ==
    ASSUME NEW x \in Regular, NEW M, NEW o \in Seq(Msg), NEW f \in Seq(Msg),
           NEW S \in SUBSET Records, NEW d, LinkOf(x, M, o, f, S, d), x.status \in Used,
           x.data # <<>>, NEW y, y.data = Tail(x.data), NEW r \in Mine(x, S)
    PROVE  Owed(y, f, o, r.acks) = 0
<1>1. UsedLink(x, M, o, f, Mine(x, S))
  BY DEF LinkOf, RegularLink
<1>2. KnownAs(r, x, o, f)
  BY <1>1 DEF UsedLink
<1>3. Len(y.data) = Len(x.data) - 1 /\ Len(x.data) \in Nat /\ Len(y.data) \in Nat
  BY ObjectIs
<1>4. Count(f, {"data"}) \in Nat /\ Count(o, {"data", "scpSend"}) \in Nat /\ r.acks \in Nat
  BY CountType DEF Mine, Records
<1> QED BY <1>2, <1>3, <1>4, SMTT(30) DEF KnownAs, Owed

LEMMA TailType ==
    ASSUME NEW A, NEW s \in Seq(A), s # <<>>
    PROVE  Tail(s) \in Seq(A)
  OBVIOUS

\* An answer of scp is read, and followed by a byte or by nothing.
Fewer(x, y) == y = [x EXCEPT !.data = Tail(x.data)]
LEMMA FineRead ==
    ASSUME NEW up \in BOOLEAN, NEW a, NEW n, NEW x, NEW M, NEW o \in Seq(Msg),
           NEW f \in Seq(Msg), NEW S \in SUBSET Records, Fine(up, "read", a, n, x, M, o, f, S),
           x.data # <<>>, NEW y, Fewer(x, y), NEW q, NEW b, Onto(q, b), NEW t, Written(x, o, t)
    PROVE  Fine(up, q, b, n, y, M, t, f, S)
<1>1. Held("read", a, n, x) /\ x \in Regular /\ x.status \in Used /\ ~x.closeSent
  BY DEF Fine, Works, Held, Asleep
<1>2. /\ y \in Channel /\ (y \in Regular <=> x \in Regular)
      /\ y.inc = x.inc /\ y.status = x.status /\ y.result = x.result
      /\ y.closeSent = x.closeSent /\ y.closeRecvd = x.closeRecvd
      /\ y.placeholder = x.placeholder /\ y.remote = x.remote /\ y.data = Tail(x.data)
      /\ y.told = x.told
  <2>1. x \in Channel
    BY <1>1, ObjectIs
  <2>2. PICK e \in Seq(BOOLEAN) : e = x.data
    BY <1>1, ObjectIs
  <2>3. Tail(e) \in Seq(BOOLEAN)
    BY <2>2, TailType
  <2> QED BY <2>1, <2>2, <2>3 DEF Channel, Regular, Fewer
<1>3. Held("read", a, n, y)
  BY <1>1, <1>2 DEF Held
<1>4. Lasts(y, FALSE)
  <2>1. Lasts(x, FALSE)
    BY DEF Fine, Stands
  <2>2. Len(y.data) = Len(x.data) - 1 /\ Len(x.data) \in Nat
    BY <1>1, <1>2, ObjectIs
  <2> QED BY <1>1, <1>2, <2>1, <2>2 DEF Lasts, Regular
<1>5. ASSUME up PROVE /\ LinkOf(y, M, o, f, S, FALSE) /\ Mine(y, S) = Mine(x, S)
                      /\ \A r \in Mine(y, S) : Owed(y, f, o, r.acks) = 0
  <2>1. LinkOf(x, M, o, f, S, FALSE)
    BY <1>5 DEF Fine, Stands
  <2>2. y \in Regular
    BY <1>1, <1>2
  <2>3. LinkOf(y, M, o, f, S, FALSE)
    BY <1>1, <1>2, <2>1, <2>2, LinkRead
  <2>4. \A r \in Mine(y, S) : Owed(y, f, o, r.acks) = 0
    <3> SUFFICES ASSUME NEW r \in Mine(y, S) PROVE Owed(y, f, o, r.acks) = 0
      OBVIOUS
    <3>1. Mine(y, S) = Mine(x, S)
      BY <1>2 DEF Mine
    <3> QED BY <1>1, <1>2, <2>1, <2>2, <3>1, OwedRead
  <2>5. Mine(y, S) = Mine(x, S)
    BY <1>2 DEF Mine
  <2> QED BY <2>3, <2>4, <2>5
<1>6. Stands(up, y, M, o, f, S, FALSE)
  BY <1>4, <1>5 DEF Stands
<1>7. ASSUME up PROVE AskedFor("read", a, n, x, o, f)
  BY <1>7 DEF Fine, Works, AskOf
<1>8. up => AskOf("read", a, n, y, o, f, Mine(y, S))
  BY <1>7 DEF AskOf, AskedFor, NotOwed, Asking
<1>9. Fine(up, "read", a, n, y, M, o, f, S)
  BY <1>3, <1>6, <1>8 DEF Fine, Works
<1>10. Stands(up, y, M, t, f, S, FALSE) /\ (up => Count(t, Requests) = Count(o, Requests))
  <2>1. CASE t = o
    BY <1>6, <2>1
  <2>2. ASSUME NEW m, Data(m, x), t = Append(o, m)
        PROVE  /\ Stands(up, y, M, t, f, S, FALSE)
               /\ (up => Count(t, Requests) = Count(o, Requests))
    <3> USE DEF Data
    <3>1. up => \A r \in Mine(y, S) : Owed(y, f, o, r.acks) = 0
      BY <1>5
    <3>2. Count(t, Requests) = Count(o, Requests)
      BY <2>2, UncountedAppend DEF Requests
    <3>3. "read" \notin Asleep /\ m.kind # "close" /\ m.inc = y.inc /\ m.remote = y.remote
      BY <1>2, <2>2 DEF Asleep
    <3>4. Stands(up, y, M, Append(o, m), f, S, FALSE)
      BY <1>1, <1>2, <1>9, <2>2, <3>1, <3>3, StandsQueue
    <3> QED BY <2>2, <3>2, <3>4
  <2> QED BY <2>1, <2>2 DEF Written
<1>11. Held(q, b, n, y)
  BY <1>3 DEF Held, Using, Asking, Asleep, Onto
<1>12. up => AskOf(q, b, n, y, t, f, Mine(y, S))
  <2>1. q \notin Asking \cup {"creating"} /\ "read" \notin Asking
    BY DEF Asking, Onto
  <2> QED BY <1>7, <1>10, <2>1, AskQuiet, CountType
<1> QED BY <1>10, <1>11, <1>12 DEF Fine, Works

LEMMA FineEof ==
    ASSUME NEW up \in BOOLEAN, NEW a, NEW n, NEW x, NEW M, NEW o \in Seq(Msg),
           NEW f \in Seq(Msg), NEW S \in SUBSET Records, Fine(up, "idle", a, n, x, M, o, f, S),
           NEW q \in {"idle", "close"}, NEW b,
           NEW m \in Msg, m.kind = "eof", m.inc = x.inc, m.remote = x.remote
    PROVE  Fine(up, q, b, n, x, M, Append(o, m), f, S)
<1>1. Held("idle", a, n, x) /\ x.status \in Used
  BY DEF Fine, Works, Held
<1>2. Stands(up, x, M, Append(o, m), f, S, FALSE)
  <2>1. "idle" \notin Asleep /\ m.kind # "close" /\ m.kind \notin {"data", "scpSend"}
    BY DEF Asleep
  <2> QED BY <1>1, <2>1, StandsQueue
<1>3. Count(Append(o, m), Requests) = Count(o, Requests)
  BY UncountedAppend DEF Requests
<1>4. Held(q, b, n, x)
  BY <1>1 DEF Held, Using, Asking, Asleep
<1>5. up => AskOf(q, b, n, x, Append(o, m), f, Mine(x, S))
  <2>1. q \notin Asking \cup {"creating"} /\ "idle" \notin Asking
    BY DEF Asking
  <2> QED BY <1>3, <2>1, AskQuiet, CountType DEF Fine, Works, AskOf
<1> QED BY <1>2, <1>4, <1>5 DEF Fine, Works

\* A CLOSE is queued.
LEMMA StandsClose ==
    ASSUME NEW up \in BOOLEAN, NEW x \in Regular, NEW M, NEW o \in Seq(Msg), NEW f \in Seq(Msg),
           NEW S \in SUBSET Records, NEW d, Stands(up, x, M, o, f, S, d), x.status \in Used,
           ~x.closeSent, NEW y, y = [x EXCEPT !.closeSent = TRUE],
           NEW m \in Msg, m.kind = "close", m.inc = x.inc, m.remote = x.remote
    PROVE  Stands(up, y, M, Append(o, m), f, S, d) /\ y \in Regular
<1>1. /\ y \in Channel /\ (y \in Regular <=> x \in Regular)
      /\ y.inc = x.inc /\ y.status = x.status /\ y.result = x.result
      /\ y.closeSent /\ y.closeRecvd = x.closeRecvd
      /\ y.placeholder = x.placeholder /\ y.remote = x.remote /\ y.data = x.data
      /\ y.told = x.told
  <2>1. x \in Channel
    BY ObjectIs
  <2> QED BY <2>1 DEF Channel, Regular
<1>2. Lasts(y, d)
  BY <1>1 DEF Stands, Lasts, Regular
<1>3. up => LinkOf(y, M, Append(o, m), f, S, d)
  BY <1>1, LinkCloseQueue DEF Stands
<1> QED BY <1>1, <1>2, <1>3 DEF Stands

LEMMA FineCloseQueue ==
    ASSUME NEW up \in BOOLEAN, NEW a, NEW n, NEW x, NEW M, NEW o \in Seq(Msg),
           NEW f \in Seq(Msg), NEW S \in SUBSET Records,
           Fine(up, "closeQueue", a, n, x, M, o, f, S),
           NEW y, y = [x EXCEPT !.closeSent = TRUE],
           NEW m \in Msg, m.kind = "close", m.inc = x.inc, m.remote = x.remote
    PROVE  Fine(up, "closeWait", a, n, y, M, Append(o, m), f, S)
<1>1. Held("closeQueue", a, n, x) /\ x \in Regular /\ x.status \in Used /\ ~x.closeSent
  BY DEF Fine, Works, Held, Asleep
<1>2. Stands(up, y, M, Append(o, m), f, S, FALSE)
  BY <1>1, StandsClose DEF Fine
<1>3. y.status = x.status /\ y.result = x.result /\ y.told = x.told /\ y.closeSent /\ y \in Regular
  <2>1. x \in Channel
    BY <1>1, ObjectIs
  <2> QED BY <1>1, <2>1 DEF Channel, Regular
<1>4. Held("closeWait", a, n, y)
  BY <1>1, <1>3 DEF Held, Using, Asking, Asleep
<1>5. Count(Append(o, m), Requests) = Count(o, Requests)
  BY UncountedAppend DEF Requests
<1>6. up => AskOf("closeWait", a, n, y, Append(o, m), f, Mine(y, S))
  <2>1. "closeWait" \notin Asking \cup {"creating"} /\ "closeQueue" \notin Asking
    BY DEF Asking
  <2> QED BY <1>5, <2>1, AskQuiet, CountType DEF Fine, Works, AskOf
<1> QED BY <1>2, <1>4, <1>6 DEF Fine, Works

\* closeChannel has found nothing to do, and the user lets go of the channel.
LEMMA StandsTold ==
    ASSUME NEW up \in BOOLEAN, NEW a, NEW n, NEW x, NEW M, NEW o \in Seq(Msg),
           NEW f \in Seq(Msg), NEW S \in SUBSET Records, Fine(up, "close", a, n, x, M, o, f, S),
           x.status # "open" \/ x.closeSent, NEW y, y = [x EXCEPT !.told = TRUE]
    PROVE  Stands(up, y, M, o, f, S, FALSE) /\ y.told /\ ~y.closeSent
<1>1. /\ Held("close", a, n, x) /\ x \in Regular /\ x.status = "closed" /\ ~x.closeSent
      /\ x \in Channel
  BY ObjectIs DEF Fine, Works, Held, Asleep, Used
<1>2. /\ y \in Channel /\ (y \in Regular <=> x \in Regular)
      /\ y.inc = x.inc /\ y.status = x.status
      /\ y.closeSent = x.closeSent /\ y.closeRecvd = x.closeRecvd
      /\ y.placeholder = x.placeholder /\ y.remote = x.remote /\ y.data = x.data
      /\ y.told
  BY <1>1 DEF Channel, Regular
<1>3. Lasts(y, FALSE)
  <2>1. Lasts(x, FALSE)
    BY DEF Fine, Stands
  <2> QED BY <1>1, <1>2, <2>1 DEF Lasts
<1>4. up => LinkOf(y, M, o, f, S, FALSE)
  BY <1>1, <1>2, LinkSame DEF Fine, Stands
<1> QED BY <1>1, <1>2, <1>3, <1>4 DEF Stands

\* The channel is deleted.
LEMMA StandsFree ==
    ASSUME NEW up \in BOOLEAN, NEW x \in Objects, NEW M, NEW o, NEW f, NEW S \in SUBSET Records,
           NEW d \in BOOLEAN, Stands(up, x, M, o, f, S, d),
           up /\ x \in Regular => x.status \in {"closed", "failedToCreate"},
           x \in Regular \/ d \/ (up => M = <<>> /\ f = <<>> /\ \A r \in S : r.closed)
    PROVE  Stands(up, NoChannel, M, <<>>, f, S, d)
<1>1. ASSUME up PROVE LinkOf(NoChannel, M, <<>>, f, S, d)
  <2>1. LinkOf(x, M, o, f, S, d)
    BY <1>1 DEF Stands
  <2> QED BY <1>1, <2>1, LinkFree
<1>2. Lasts(NoChannel, d)
  BY ObjectIs DEF Lasts
<1> QED BY <1>1, <1>2 DEF Stands

-----------------------------------------------------------------------------
(* What Transport makes of the first message about a slot. *)

Handles(m, x, y) ==
    \/ x = NoChannel /\ y = NoChannel
    \/ /\ x \in Channel
       /\ \/ m.kind = "confirm" /\ y = [x EXCEPT !.remote = m.remote, !.status = "open"]
          \/ m.kind = "refuse" /\ y = [x EXCEPT !.status = "failedToCreate"]
          \/ m.kind \in Answers /\ y = [x EXCEPT !.result = m.kind, !.answered = m.id]
          \/ m.kind = "close" /\ y = [x EXCEPT !.closeRecvd = TRUE, !.status = "closed"]
          \/ m.kind = "data" /\ y = [x EXCEPT !.data = Append(x.data, m.id = 1)]
          \/ m.kind = "eof" /\ y = [x EXCEPT !.eof = TRUE]

\* What is not written to.
LEMMA HandlesFields ==
    ASSUME NEW m \in Msg, NEW x \in Objects, NEW y, Handles(m, x, y)
    PROVE  /\ y \in Objects /\ (y \in Regular <=> x \in Regular) /\ y.inc = x.inc
           /\ (y = NoChannel <=> x = NoChannel)
           /\ x # NoChannel =>
                /\ x \in Channel /\ y \in Channel
                /\ y.told = x.told /\ y.closeSent = x.closeSent /\ y.placeholder = x.placeholder
                /\ m.kind # "confirm" => y.remote = x.remote
                /\ m.kind \notin {"confirm", "refuse", "close"} => y.status = x.status
                /\ m.kind \notin Answers => y.result = x.result /\ y.answered = x.answered
                /\ m.kind # "close" => y.closeRecvd = x.closeRecvd
                /\ m.kind # "data" => y.data = x.data
<1>1. CASE x = NoChannel
  BY <1>1, ObjectIs DEF Handles
<1>2. CASE x \in Channel
  <2>0. /\ x # NoChannel /\ m.remote \in Numbers /\ m.id \in Nat /\ (m.id = 1) \in BOOLEAN
        /\ x.data \in Seq(BOOLEAN)
    BY <1>2, ObjectIs DEF Msg, Channel
  <2>7. /\ y \in Channel
        /\ y.told = x.told /\ y.closeSent = x.closeSent /\ y.placeholder = x.placeholder
        /\ y.inc = x.inc
        /\ m.kind # "confirm" => y.remote = x.remote
        /\ m.kind \notin {"confirm", "refuse", "close"} => y.status = x.status
        /\ m.kind \notin Answers => y.result = x.result /\ y.answered = x.answered
        /\ m.kind # "close" => y.closeRecvd = x.closeRecvd
        /\ m.kind # "data" => y.data = x.data
    <3>1. CASE m.kind = "confirm" /\ y = [x EXCEPT !.remote = m.remote, !.status = "open"]
      BY <1>2, <2>0, <3>1 DEF Channel, Statuses, Answers
    <3>2. CASE m.kind = "refuse" /\ y = [x EXCEPT !.status = "failedToCreate"]
      BY <1>2, <2>0, <3>2 DEF Channel, Statuses, Answers
    <3>3. CASE m.kind \in Answers /\ y = [x EXCEPT !.result = m.kind, !.answered = m.id]
      BY <1>2, <2>0, <3>3 DEF Channel, Results, Answers
    <3>4. CASE m.kind = "close" /\ y = [x EXCEPT !.closeRecvd = TRUE, !.status = "closed"]
      BY <1>2, <2>0, <3>4 DEF Channel, Statuses, Answers
    <3>5. CASE m.kind = "data" /\ y = [x EXCEPT !.data = Append(x.data, m.id = 1)]
      <4>1. PICK e \in Seq(BOOLEAN), b \in BOOLEAN : e = x.data /\ b = (m.id = 1)
        BY <2>0
      <4>2. Append(e, b) \in Seq(BOOLEAN)
        OBVIOUS
      <4> QED BY <1>2, <2>0, <3>5, <4>1, <4>2 DEF Channel, Answers
    <3>6. CASE m.kind = "eof" /\ y = [x EXCEPT !.eof = TRUE]
      BY <1>2, <2>0, <3>6 DEF Channel, Answers
    <3> QED BY <1>2, <2>0, <3>1, <3>2, <3>3, <3>4, <3>5, <3>6 DEF Handles
  <2>8. (y \in Regular <=> x \in Regular) /\ y \in Objects
    BY <1>2, <2>7 DEF Regular, Objects
  <2>9. y # NoChannel
    BY <2>7, ObjectIs
  <2> QED BY <1>2, <2>0, <2>7, <2>8, <2>9
<1> QED BY <1>1, <1>2, ObjectIs

\* What is.
LEMMA HandlesWrites ==
    ASSUME NEW m \in Msg, NEW x \in Channel, NEW y, Handles(m, x, y)
    PROVE  /\ m.kind = "confirm" => y.remote = m.remote /\ y.status = "open"
           /\ m.kind = "refuse" => y.status = "failedToCreate"
           /\ m.kind \in Answers => y.result = m.kind /\ y.answered = m.id
           /\ m.kind = "close" => y.closeRecvd /\ y.status = "closed"
           /\ m.kind = "data" => \E b \in BOOLEAN : y.data = Append(x.data, b)
           /\ m.kind \in Answers \cup {"confirm", "refuse", "close", "data", "eof"}
<1>1. x # NoChannel /\ (m.id = 1) \in BOOLEAN
  BY ObjectIs
<1> QED BY <1>1 DEF Handles, Channel, Answers

LEMMA StandsHandled ==
    ASSUME NEW x \in Objects, NEW M, NEW o \in Seq(Msg), NEW f \in Seq(Msg), f # <<>>,
           NEW S \in SUBSET Records, NEW d \in BOOLEAN, Stands(TRUE, x, M, o, f, S, d),
           NEW y, Handles(Head(f), x, y)
    PROVE  Stands(TRUE, y, M, o, Tail(f), S, d)
<1>1. LinkOf(x, M, o, f, S, d) /\ Lasts(x, d) /\ Head(f) \in Msg
  BY DEF Stands
<1> DEFINE m == Head(f)
           t == Tail(f)
<1>2. /\ y \in Objects /\ (y \in Regular <=> x \in Regular) /\ y.inc = x.inc
      /\ (y = NoChannel <=> x = NoChannel)
  BY <1>1, HandlesFields
<1>3. CASE x = NoChannel
  <2>1. LinkOf(NoChannel, M, o, t, S, d)
    BY <1>1, <1>3, LinkCloseLost
  <2> QED BY <1>1, <1>2, <1>3, <2>1 DEF Stands
<1>4. ASSUME x # NoChannel PROVE Stands(TRUE, y, M, o, t, S, d)
  <2>0. x \in Channel /\ y \in Channel
    BY <1>2, <1>4, ObjectIs
  <2>1. /\ y.told = x.told /\ y.closeSent = x.closeSent /\ y.placeholder = x.placeholder
        /\ m.kind # "confirm" => y.remote = x.remote
        /\ m.kind \notin {"confirm", "refuse", "close"} => y.status = x.status
        /\ m.kind # "close" => y.closeRecvd = x.closeRecvd
        /\ m.kind # "data" => y.data = x.data
    BY <1>1, <1>4, HandlesFields
  <2>2. /\ m.kind = "confirm" => y.remote = m.remote /\ y.status = "open"
        /\ m.kind = "refuse" => y.status = "failedToCreate"
        /\ m.kind = "close" => y.closeRecvd /\ y.status = "closed"
        /\ m.kind = "data" => \E b \in BOOLEAN : y.data = Append(x.data, b)
        /\ m.kind \in Answers \cup {"confirm", "refuse", "close", "data", "eof"}
    BY <1>1, <2>0, HandlesWrites
  <2>3. /\ x \in Regular /\ m.kind \in {"confirm", "refuse"} => x.status = "unknown"
        /\ x \in Regular /\ m.kind \in Talk => x.status = "open"
        /\ x \notin Regular => m.kind \in {"eof", "close"}
    BY <1>1, FirstWord
  <2>4. CASE m.kind = "confirm"
    <3>1. x \in Regular /\ y \in Regular
      BY <1>2, <2>3, <2>4
    <3>2. LinkOf(y, M, o, t, S, d)
      BY <1>1, <1>2, <2>1, <2>2, <2>4, <3>1, LinkConfirmed
    <3>3. Lasts(y, d)
      BY <1>1, <2>0, <2>1, <2>2, <2>3, <2>4, <3>1 DEF Lasts, Regular, Used
    <3> QED BY <3>2, <3>3 DEF Stands
  <2>5. CASE m.kind = "refuse"
    <3>1. x \in Regular /\ y \in Regular /\ ~d
      BY <1>1, <1>2, <2>3, <2>5 DEF Lasts, Used
    <3>2. LinkOf(y, M, o, t, S, d)
      BY <1>1, <1>2, <2>1, <2>2, <2>5, <3>1, LinkRefused
    <3>3. Lasts(y, d)
      BY <1>1, <2>0, <2>1, <2>2, <2>3, <2>5, <3>1 DEF Lasts, Regular
    <3> QED BY <3>2, <3>3 DEF Stands
  <2>6. CASE m.kind \in Answers \cup {"eof"}
    <3>1. LinkOf(x, M, o, t, S, d)
      BY <1>1, <2>6, LinkTail
    <3>2. /\ y.remote = x.remote /\ y.status = x.status /\ y.closeRecvd = x.closeRecvd
          /\ y.data = x.data
      BY <2>1, <2>6 DEF Answers
    <3>3. LinkOf(y, M, o, t, S, d)
      BY <1>2, <2>0, <2>1, <3>1, <3>2, LinkSame
    <3>4. Lasts(y, d)
      BY <1>1, <2>0, <2>1, <3>2, LastsSame
    <3> QED BY <3>3, <3>4 DEF Stands
  <2>7. CASE m.kind = "close"
    <3>1. y.remote = x.remote /\ y.data = x.data /\ y.status = "closed" /\ y.closeRecvd
      BY <2>1, <2>2, <2>7
    <3>2. LinkOf(y, M, o, t, S, d)
      BY <1>1, <1>2, <2>0, <2>1, <2>7, <3>1, LinkClosed
    <3>3. Lasts(y, d)
      BY <1>1, <1>2, <2>0, <2>1, <3>1 DEF Lasts, Used
    <3> QED BY <3>2, <3>3 DEF Stands
  <2>8. CASE m.kind = "data"
    <3>1. PICK b \in BOOLEAN : y.data = Append(x.data, b)
      BY <2>2, <2>8
    <3>2. x \in Regular /\ y \in Regular /\ y.remote = x.remote /\ y.status = x.status
          /\ y.closeRecvd = x.closeRecvd
      BY <1>2, <2>1, <2>3, <2>8
    <3>3. LinkOf(y, M, o, t, S, d) /\ Len(y.data) = 1
      BY <1>1, <1>2, <2>1, <2>8, <3>1, <3>2, LinkData, ZenonT(40)
    <3>4. Lasts(y, d)
      BY <1>1, <2>0, <2>1, <3>2, <3>3 DEF Lasts, Regular
    <3> QED BY <3>3, <3>4 DEF Stands
  <2> QED BY <2>2, <2>4, <2>5, <2>6, <2>7, <2>8
<1> QED BY <1>3, <1>4

\* A confirmation, a refusal: what comes with it.
LEMMA ConfirmedTail ==
    ASSUME NEW x \in Regular, NEW M, NEW o \in Seq(Msg), NEW f \in Seq(Msg), NEW S, NEW d,
           LinkOf(x, M, o, f, S, d), f # <<>>, Head(f).kind = "confirm"
    PROVE  /\ o = <<>> /\ Kinds(Tail(f), {"eof", "close"})
           /\ \A r \in Mine(x, S) : r.acks = 0
<1>1. x.status = "unknown"
  BY FirstWord
<1>2. UnknownLink(x, M, o, f, Mine(x, S))
  BY <1>1 DEF LinkOf, RegularLink
<1>3. /\ f[1] = Head(f) /\ Len(Tail(f)) = Len(f) - 1 /\ Len(f) \in Nat
      /\ \A i \in 1 .. Len(f) - 1 : Tail(f)[i] = f[i + 1]
      /\ Tail(f) \in Seq(Msg)
  BY EmptyOrNot
<1>4. PICK r : Mine(x, S) = {r} /\ ConfirmedAs(r, f) /\ o = <<>>
  BY <1>2, <1>3 DEF UnknownLink, OpenAsked, OpenAnswered
<1>5. PICK t \in Seq(Msg) : t = Tail(f)
  BY <1>3
<1>6. \A i \in DOMAIN t : t[i].kind \in {"eof", "close"}
  <2>1. DOMAIN t = 1 .. Len(f) - 1 /\ \A i \in 1 .. Len(f) - 1 : t[i] = f[i + 1]
    BY <1>3, <1>5
  <2>2. CASE Len(f) = 1
    BY <2>1, <2>2
  <2>3. CASE Len(f) = 3 /\ f[2].kind = "eof" /\ f[3].kind = "close"
    <3>1. \A i \in 1 .. 2 : (i = 1 /\ i + 1 = 2) \/ (i = 2 /\ i + 1 = 3)
      OBVIOUS
    <3>2. DOMAIN t = 1 .. 2 /\ \A i \in 1 .. 2 : t[i] = f[i + 1]
      BY <2>1, <2>3
    <3>3. \A i \in 1 .. 2 : t[i] = f[2] \/ t[i] = f[3]
      BY <3>1, <3>2
    <3> QED BY <2>3, <3>2, <3>3
  <2> QED BY <1>4, <2>2, <2>3 DEF ConfirmedAs
<1> QED BY <1>4, <1>5, <1>6 DEF Kinds, ConfirmedAs

LEMMA RefusedTail ==
    ASSUME NEW x \in Regular, NEW M, NEW o \in Seq(Msg), NEW f \in Seq(Msg), NEW S, NEW d,
           LinkOf(x, M, o, f, S, d), f # <<>>, Head(f).kind = "refuse"
    PROVE  o = <<>> /\ Tail(f) = <<>>
<1>1. x.status = "unknown"
  BY FirstWord
<1>2. UnknownLink(x, M, o, f, Mine(x, S))
  BY <1>1 DEF LinkOf, RegularLink
<1>3. f[1] = Head(f) /\ (Len(f) = 1 => Tail(f) = <<>>)
  BY EmptyOrNot
<1>4. Len(f) = 1 /\ o = <<>>
  BY <1>2, <1>3 DEF UnknownLink, OpenAsked, OpenAnswered, ConfirmedAs
<1> QED BY <1>3, <1>4

\* An answer of scp is handed on, and stays one that there is.
LEMMA OwedData ==
    ASSUME NEW x \in Regular, NEW o \in Seq(Msg), NEW f \in Seq(Msg), f # <<>>,
           Head(f).kind = "data", NEW b \in BOOLEAN, NEW y, y.data = Append(x.data, b),
           NEW r, r.acks \in Nat
    PROVE  Owed(y, Tail(f), o, r.acks) = Owed(x, f, o, r.acks)
<1>0. PICK t \in Seq(Msg) : t = Tail(f)
  BY EmptyOrNot
<1>1. Count(f, {"data"}) = Count(t, {"data"}) + 1
  BY <1>0, CountHead
<1>2. PICK k, l, n : /\ k = Len(x.data) /\ l = Count(t, {"data"})
                     /\ n = Count(o, {"data", "scpSend"})
  OBVIOUS
<1>3. k \in Nat /\ l \in Nat /\ n \in Nat /\ Len(y.data) = k + 1
  BY <1>2, ObjectIs, CountType
<1>4. Owed(y, t, o, r.acks) = (k + 1) + l + r.acks + n
  BY <1>2, <1>3 DEF Owed
<1>5. Owed(x, f, o, r.acks) = k + (l + 1) + r.acks + n
  BY <1>1, <1>2 DEF Owed
<1> QED BY <1>0, <1>3, <1>4, <1>5

\* Where the user is after it.
WokenAt(p, m) ==
    IF m.kind \in Answers /\ p = "requestWait" THEN "requestTake"
    ELSE IF m.kind = "close" /\ p = "closeAsleep" THEN "delete" ELSE p

LEMMA WorksHandled ==
    ASSUME NEW p, NEW a, NEW n, NEW x, NEW M, NEW o \in Seq(Msg), NEW f \in Seq(Msg), f # <<>>,
           NEW S \in SUBSET Records, Fine(TRUE, p, a, n, x, M, o, f, S),
           NEW y, Handles(Head(f), x, y)
    PROVE  Works(TRUE, WokenAt(p, Head(f)), a, n, y, o, Tail(f), S)
<1> DEFINE m == Head(f)
           t == Tail(f)
           q == WokenAt(p, m)
<1>1. /\ LinkOf(x, M, o, f, S, FALSE) /\ Lasts(x, FALSE) /\ m \in Msg /\ t \in Seq(Msg)
      /\ Held(p, a, n, x) /\ x \in Regular /\ x \in Channel /\ x \in Objects /\ x # NoChannel
      /\ AskOf(p, a, n, x, o, f, Mine(x, S))
  <2>1. /\ LinkOf(x, M, o, f, S, FALSE) /\ Lasts(x, FALSE) /\ Held(p, a, n, x)
        /\ AskOf(p, a, n, x, o, f, Mine(x, S))
    BY DEF Fine, Works, Stands
  <2>2. x \in Regular
    BY <2>1 DEF Held
  <2>3. m \in Msg /\ t \in Seq(Msg)
    OBVIOUS
  <2> QED BY <2>1, <2>2, <2>3, ObjectIs
<1>2. /\ y \in Regular /\ y.inc = x.inc /\ Mine(y, S) = Mine(x, S)
      /\ y.told = x.told /\ y.closeSent = x.closeSent /\ y.placeholder = x.placeholder
      /\ m.kind # "confirm" => y.remote = x.remote
      /\ m.kind \notin {"confirm", "refuse", "close"} => y.status = x.status
      /\ m.kind \notin Answers => y.result = x.result /\ y.answered = x.answered
      /\ m.kind # "data" => y.data = x.data
  BY <1>1, HandlesFields DEF Mine
<1>3. /\ m.kind = "confirm" => y.remote = m.remote /\ y.status = "open"
      /\ m.kind = "refuse" => y.status = "failedToCreate"
      /\ m.kind \in Answers => y.result = m.kind /\ y.answered = m.id
      /\ m.kind = "close" => y.closeRecvd /\ y.status = "closed"
      /\ m.kind = "data" => \E b \in BOOLEAN : y.data = Append(x.data, b)
      /\ m.kind \in Answers \cup {"confirm", "refuse", "close", "data", "eof"}
  BY <1>1, HandlesWrites
<1>4. /\ m.kind \in {"confirm", "refuse"} => x.status = "unknown"
      /\ m.kind \in Talk => x.status = "open"
  BY <1>1, FirstWord
<1>5. Count(o, Requests) \in Nat /\ Count(f, Answers) \in Nat /\ Count(t, Answers) \in Nat
  BY <1>1, CountType
<1> HIDE DEF m, t
<1>6. CASE m.kind \in {"confirm", "refuse"}
  <2>1. p = "creating" /\ q = p
    BY <1>1, <1>4, <1>6 DEF Held, Used, WokenAt, Answers
  <2>2. Held(q, a, n, y)
    BY <1>1, <1>2, <1>6, <2>1 DEF Held, Answers, Asking, Asleep
  <2>3. AskedFor(q, a, n, y, o, t)
    <3>1. o = <<>> /\ Count(t, Answers) = 0
      <4>1. CASE m.kind = "confirm"
        <5>1. o = <<>> /\ Kinds(t, {"eof", "close"})
          BY <1>1, <4>1, ConfirmedTail DEF m, t
        <5> QED BY <1>1, <5>1, CountNone DEF Answers
      <4>2. CASE m.kind = "refuse"
        <5>1. o = <<>> /\ t = <<>>
          BY <1>1, <4>2, RefusedTail DEF m, t
        <5> QED BY <5>1, CountEmpty
      <4> QED BY <1>6, <4>1, <4>2
    <3>2. Count(o, Requests) = 0
      BY <3>1, CountEmpty
    <3> QED BY <2>1, <3>1, <3>2 DEF AskedFor, Asking
  <2>4. NotOwed(q, a, y, o, t, Mine(y, S))
    <3>1. CASE m.kind = "confirm"
      <4>1. x.data = <<>> /\ y.data = x.data
        BY <1>1, <1>2, <1>4, <3>1 DEF LinkOf, RegularLink, UnknownLink
      <4>2. o = <<>> /\ Kinds(t, {"eof", "close"}) /\ \A r \in Mine(x, S) : r.acks = 0
        BY <1>1, <3>1, ConfirmedTail DEF m, t
      <4>3. Count(t, {"data"}) = 0 /\ Count(o, {"data", "scpSend"}) = 0
        BY <1>1, <4>2, CountNone, CountEmpty
      <4>4. Len(y.data) = 0
        BY <4>1
      <4>5. \A r \in Mine(y, S) : Owed(y, t, o, r.acks) = 0
        BY <1>2, <4>2, <4>3, <4>4 DEF Owed
      <4> QED BY <4>5 DEF NotOwed
    <3>2. CASE m.kind = "refuse"
      BY <1>3, <2>1, <3>2 DEF NotOwed, Used, Asking
    <3> QED BY <1>6, <3>1, <3>2
  <2> QED BY <2>2, <2>3, <2>4 DEF Works, AskOf, m, t
<1>7. CASE m.kind \in Answers
  <2>0. y.status = x.status /\ y.data = x.data /\ y.result # "pending" /\ y.answered = m.id
        /\ x.status = "open" /\ m.kind \notin {"data", "close"}
    BY <1>2, <1>3, <1>4, <1>7 DEF Answers, Talk
  <2>1. Count(f, Answers) = Count(t, Answers) + 1
    <3>1. Count(f, Answers) = Count(t, Answers) + (IF m.kind \in Answers THEN 1 ELSE 0)
      BY CountHead DEF m, t
    <3> QED BY <1>7, <3>1
  <2>2. AskedFor(p, a, n, x, o, f)
    BY <1>1 DEF AskOf
  <2>3. /\ p \in Asking /\ a # "windowChange" /\ x.result = "pending"
        /\ Count(o, Requests) = 0 /\ Count(t, Answers) = 0
    BY <1>5, <2>1, <2>2 DEF AskedFor
  <2>4. m.id = n
    <3>1. Ids(f, Answers, n)
      BY <2>2, <2>3 DEF AskedFor
    <3>2. Ids(f, Answers, n) <=> Ids(t, Answers, n) /\ (m.kind \in Answers => m.id = n)
      BY MessageTaken DEF m, t
    <3> QED BY <1>7, <3>1, <3>2
  <2>5. p \in {"request", "requestWait"} /\ q \in {"request", "requestTake"}
    BY <1>1, <1>7, <2>3 DEF Held, Asking, WokenAt
  <2>6. Held(q, a, n, y)
    BY <1>1, <1>2, <2>0, <2>3, <2>4, <2>5 DEF Held, Asking, Asleep, Using
  <2>7. AskedFor(q, a, n, y, o, t)
    <3>1. Ids(o, Requests, n) /\ Ids(t, Answers, n)
      <4>1. \A i \in DOMAIN o : o[i].kind \notin Requests
        BY <2>3, NoneCounted
      <4>2. \A i \in DOMAIN t : t[i].kind \notin Answers
        BY <1>1, <2>3, NoneCounted
      <4> QED BY <4>1, <4>2 DEF Ids
    <3> QED BY <2>0, <2>3, <2>5, <3>1 DEF AskedFor, Asking
  <2>8. NotOwed(q, a, y, o, t, Mine(y, S))
    <3>1. Count(t, {"data"}) = Count(f, {"data"})
      BY <2>0, UncountedHead DEF m, t
    <3>2. \A r : Owed(y, t, o, r.acks) = Owed(x, f, o, r.acks)
      BY <2>0, <3>1 DEF Owed
    <3>3. NotOwed(p, a, x, o, f, Mine(x, S))
      BY <1>1 DEF AskOf
    <3> QED BY <1>2, <2>3, <2>5, <3>2, <3>3 DEF NotOwed, Asking
  <2> QED BY <2>6, <2>7, <2>8 DEF Works, AskOf, m, t
<1>8. CASE m.kind \in {"close", "data", "eof"}
  <2>0. /\ m.kind \notin Answers /\ m.kind \in Talk
        /\ y.result = x.result /\ y.answered = x.answered /\ x.status = "open"
    BY <1>2, <1>4, <1>8 DEF Answers, Talk
  <2>1. Held(q, a, n, y)
    BY <1>1, <1>2, <1>3, <1>8, <2>0 DEF Held, Using, Asking, Asleep, Used, WokenAt
  <2>2. /\ Count(t, Answers) = Count(f, Answers)
        /\ \A k : Ids(t, Answers, k) <=> Ids(f, Answers, k)
    BY <2>0, UncountedHead DEF m, t
  <2>3. \A k : Some(f, k) <=> Some(t, k) \/ m.kind = k
    BY MessageTaken DEF m, t
  <2>4. \A r \in Mine(x, S) : Owed(y, t, o, r.acks) = Owed(x, f, o, r.acks)
    <3>1. CASE m.kind = "data"
      <4>1. PICK b \in BOOLEAN : y.data = Append(x.data, b)
        BY <1>3, <3>1
      <4>2. \A r \in Mine(x, S) : r.acks \in Nat
        BY DEF Mine, Records
      <4> QED BY <1>1, <3>1, <4>1, <4>2, OwedData DEF m, t
    <3>2. CASE m.kind # "data"
      <4>1. Count(t, {"data"}) = Count(f, {"data"})
        BY <3>2, UncountedHead DEF m, t
      <4> QED BY <1>2, <3>2, <4>1 DEF Owed
    <3> QED BY <3>1, <3>2
  <2>5. AskedFor(p, a, n, x, o, f) /\ NotOwed(p, a, x, o, f, Mine(x, S))
    BY <1>1 DEF AskOf
  <2>6. /\ q \in Asking <=> p \in Asking
        /\ q = "creating" <=> p = "creating"
    BY <2>0 DEF WokenAt, Asking
  <2>7. y.status = "open" => m.kind # "close"
    BY <1>3
  <2>8. AskedFor(q, a, n, y, o, t)
    BY <2>0, <2>2, <2>3, <2>5, <2>6, <2>7 DEF AskedFor
  <2>9. p = "creating" => x.status \in Used
    BY <2>0 DEF Used
  <2>10. NotOwed(q, a, y, o, t, Mine(y, S))
    BY <1>2, <2>4, <2>5, <2>6, <2>9 DEF NotOwed
  <2> QED BY <2>1, <2>8, <2>10 DEF Works, AskOf, m, t
<1> QED BY <1>3, <1>6, <1>7, <1>8

-----------------------------------------------------------------------------
(* What is under way, and the user that waits for it. *)

\* The server answers the request to open a channel.
LEMMA WorksOpenAnswered ==
    ASSUME NEW p, NEW a, NEW n, NEW x \in Objects, NEW M \in Seq(Msg), NEW o \in Seq(Msg),
           NEW f \in Seq(Msg), NEW S, NEW d, LinkOf(x, M, o, f, S, d), M # <<>>,
           Head(M).kind = "open", Works(TRUE, p, a, n, x, o, f, S),
           NEW m \in Msg, m.kind \in {"confirm", "refuse"}, NEW T
    PROVE  Works(TRUE, p, a, n, x, o, Append(f, m), T)
<1>1. x \in Regular /\ x.status = "unknown"
  BY MainFirst
<1>2. Held(p, a, n, x) /\ AskedFor(p, a, n, x, o, f)
  BY DEF Works, AskOf
<1>3. p = "creating" /\ p \notin Asking /\ x.status \notin Used
  BY <1>1, <1>2 DEF Held, Used, Asking
<1>4. Count(Append(f, m), Answers) = Count(f, Answers)
  BY UncountedAppend DEF Answers
<1>5. AskedFor(p, a, n, x, o, Append(f, m))
  BY <1>2, <1>3, <1>4 DEF AskedFor
<1>6. NotOwed(p, a, x, o, Append(f, m), Mine(x, T))
  BY <1>3 DEF NotOwed
<1> QED BY <1>2, <1>5, <1>6 DEF Works, AskOf

\* The server takes the packet m of a channel it knows as r, and knows it as q; t is what
\* is under way to the client then.
Takes(m, r, q, f, t) ==
    /\ q \in Records /\ q.inc = r.inc /\ q.remote = r.remote /\ q.closed = r.closed
    /\ \/ m.kind \in {"eof", "windowChange"} /\ q.acks = r.acks /\ t = f
       \/ m.kind = "data" /\ q.acks = r.acks + 1 /\ t = f
       \/ /\ m.kind \in Requests
          /\ q.acks = IF m.kind = "scpSend" THEN 1 ELSE r.acks
          /\ \/ r.closed /\ t = f
             \/ /\ ~r.closed
                /\ \E a \in Msg : /\ a.kind \in Answers /\ a.inc = m.inc /\ a.id = m.id
                                  /\ t = Append(f, a)

\* A file is asked for when nothing is owed.
LEMMA TakesOwed ==
    ASSUME NEW x, NEW M, NEW o, NEW f, NEW S, NEW d, NEW r, Sending(x, M, o, f, S, d, r),
           NEW q, NEW t, Takes(Head(o), r, q, f, t)
    PROVE  Follows(Head(o), r, q)
<1>h. /\ x \in Objects /\ o \in Seq(Msg) /\ f \in Seq(Msg) /\ S \in SUBSET Records
      /\ LinkOf(x, M, o, f, S, d) /\ o # <<>> /\ r \in Mine(x, S)
  BY DEF Sending
<1> USE <1>h
<1>f. x \in Regular /\ x.status \in Used
  BY OutFirst
<1>g. \E s : Mine(x, S) = {s} /\ KnownAs(s, x, o, f)
  BY OutFirst
<1>r. r \in Records
  BY DEF Mine
<1>s. Mine(x, S) = {r}
  BY <1>g
<1>a. r.acks \in Nat
  BY <1>r DEF Records
<1>1. Owed(x, f, o, r.acks) <= 1
  <2>1. PICK s : Mine(x, S) = {s} /\ KnownAs(s, x, o, f)
    BY <1>g
  <2>2. s = r
    BY <1>s, <2>1
  <2>3. KnownAs(r, x, o, f)
    BY <2>1, <2>2
  <2> QED BY <2>3 DEF KnownAs
<1>2. CASE Head(o).kind = "scpSend"
  <2>0. PICK u \in Seq(Msg) : u = Tail(o)
    BY EmptyOrNot
  <2>a. Count(o, {"data", "scpSend"}) =
          Count(u, {"data", "scpSend"}) + (IF Head(o).kind \in {"data", "scpSend"} THEN 1 ELSE 0)
    BY <2>0, CountHead
  <2>1. Count(o, {"data", "scpSend"}) = Count(u, {"data", "scpSend"}) + 1
    BY <1>2, <2>a
  <2>b. Len(x.data) \in Nat /\ Count(f, {"data"}) \in Nat
    BY <1>f, OwedTypes
  <2>c. Count(u, {"data", "scpSend"}) \in Nat
    BY CountType
  <2>3. r.acks = 0
    <3>1. PICK k, l, n : /\ k = Len(x.data) /\ l = Count(f, {"data"})
                         /\ n = Count(u, {"data", "scpSend"})
      OBVIOUS
    <3>2. k + l + r.acks + (n + 1) <= 1
      BY <1>1, <2>1, <3>1 DEF Owed
    <3>3. k \in Nat /\ l \in Nat /\ n \in Nat
      BY <2>b, <2>c, <3>1
    <3> QED BY <1>a, <3>2, <3>3
  <2>4. q.acks = 1
    BY <1>2 DEF Takes, Requests
  <2> QED BY <1>2, <2>3, <2>4 DEF Follows, Takes
<1>3. CASE Head(o).kind # "scpSend"
  BY <1>a, <1>3 DEF Takes, Requests, Follows
<1> QED BY <1>2, <1>3

SameOwed(x, f, o, r, t, u, q) == Owed(x, t, u, q.acks) = Owed(x, f, o, r.acks)
LEMMA LinkTakes ==
    ASSUME NEW x, NEW M, NEW o, NEW f, NEW S, NEW d, NEW r, Sending(x, M, o, f, S, d, r),
           NEW q, NEW t, Takes(Head(o), r, q, f, t)
    PROVE  /\ LinkOf(x, M, Tail(o), t, (S \ {r}) \cup {q}, d) /\ t \in Seq(Msg)
           /\ SameOwed(x, f, o, r, t, Tail(o), q)
<1>1. Follows(Head(o), r, q)
  BY TakesOwed
<1>2. q \in Records /\ Head(o).kind # "close"
  BY DEF Takes, Requests
<1>3. /\ LinkOf(x, M, Tail(o), f, (S \ {r}) \cup {q}, d)
      /\ Mine(x, (S \ {r}) \cup {q}) = {q}
      /\ Owed(x, f, Tail(o), q.acks) = Owed(x, f, o, r.acks)
  BY <1>1, <1>2, LinkSent
<1>h. /\ x \in Objects /\ o \in Seq(Msg) /\ f \in Seq(Msg) /\ S \in SUBSET Records
      /\ LinkOf(x, M, o, f, S, d) /\ o # <<>> /\ r \in Mine(x, S)
  BY DEF Sending
<1> USE <1>h
<1>4. CASE t = f
  BY <1>3, <1>4 DEF SameOwed
<1>5. ASSUME ~r.closed, Head(o).kind \in Requests,
             NEW a \in Msg, a.kind \in Answers, a.inc = Head(o).inc, a.id = Head(o).id,
             t = Append(f, a)
      PROVE  /\ LinkOf(x, M, Tail(o), t, (S \ {r}) \cup {q}, d) /\ t \in Seq(Msg)
             /\ SameOwed(x, f, o, r, t, Tail(o), q)
  <2>f. x \in Regular /\ x.status \in Used /\ Head(o).inc = x.inc
    BY OutFirst
  <2>g. \E s : Mine(x, S) = {s} /\ KnownAs(s, x, o, f)
    BY OutFirst
  <2>1. x.status = "open" /\ ~Some(f, "close")
    <3>1. PICK s : Mine(x, S) = {s} /\ KnownAs(s, x, o, f)
      BY <2>g
    <3>2. s = r
      BY <2>g, <3>1
    <3> QED BY <1>5, <2>f, <3>1, <3>2 DEF KnownAs, Used
  <2>2. PICK u \in Seq(Msg) : u = Tail(o)
    BY EmptyOrNot
  <2>3. a.inc = x.inc
    BY <1>5, <2>f
  <2>5. PICK T \in SUBSET Records : T = (S \ {r}) \cup {q}
    BY <1>2
  <2>6. LinkOf(x, M, u, f, T, d) /\ Owed(x, f, u, q.acks) = Owed(x, f, o, r.acks)
    BY <1>3, <2>2, <2>5
  <2>7. Replying(f, a, t)
    BY <1>5 DEF Replying
  <2>4. LinkOf(x, M, u, t, T, d) /\ \A n : Owed(x, t, u, n) = Owed(x, f, u, n)
    BY <2>f, <2>1, <2>3, <2>6, <2>7, LinkReplied
  <2> QED BY <1>5, <2>2, <2>4, <2>5, <2>6 DEF SameOwed
<1> QED BY <1>3, <1>4, <1>5 DEF Takes

LEMMA WorksTakes ==
    ASSUME NEW p, NEW a, NEW n, NEW x, NEW M, NEW o, NEW f, NEW S, NEW d, NEW r,
           Sending(x, M, o, f, S, d, r), Works(TRUE, p, a, n, x, o, f, S),
           NEW q, NEW t, Takes(Head(o), r, q, f, t)
    PROVE  Works(TRUE, p, a, n, x, Tail(o), t, (S \ {r}) \cup {q})
<1>a. t \in Seq(Msg) /\ SameOwed(x, f, o, r, t, Tail(o), q)
  BY LinkTakes
<1>h. /\ x \in Objects /\ o \in Seq(Msg) /\ f \in Seq(Msg) /\ S \in SUBSET Records
      /\ LinkOf(x, M, o, f, S, d) /\ o # <<>> /\ r \in Mine(x, S)
  BY DEF Sending
<1> USE <1>h
<1>1. PICK u \in Seq(Msg) : u = Tail(o)
  BY EmptyOrNot
<1>s. Mine(x, S) = {r}
  <2>1. \E s : Mine(x, S) = {s} /\ KnownAs(s, x, o, f)
    BY OutFirst
  <2> QED BY <2>1
<1>2. /\ t \in Seq(Msg) /\ Mine(x, (S \ {r}) \cup {q}) = {q}
      /\ Owed(x, t, Tail(o), q.acks) = Owed(x, f, o, r.acks)
  <2>1. PICK T : T = (S \ {r}) \cup {q}
    OBVIOUS
  <2>2. q.inc = r.inc
    BY DEF Takes
  <2>3. Mine(x, T) = {q}
    BY <1>s, <2>1, <2>2, MineSwapped, SMTT(30)
  <2> QED BY <1>a, <2>1, <2>3 DEF SameOwed
<1>3. /\ AskedFor(p, a, n, x, o, f) /\ NotOwed(p, a, x, o, f, {r}) /\ Held(p, a, n, x)
  BY <1>s DEF Works, AskOf
<1>4. NotOwed(p, a, x, u, t, {q})
  BY <1>1, <1>2, <1>3 DEF NotOwed
<1>5. AskedFor(p, a, n, x, u, t)
  <2>1. CASE Head(o).kind \notin Requests
    <3>1. t = f
      BY <2>1 DEF Takes
    <3>2. /\ Count(u, Requests) = Count(o, Requests)
          /\ \A k : Ids(u, Requests, k) <=> Ids(o, Requests, k)
      BY <1>1, <2>1, UncountedHead
    <3> QED BY <1>3, <3>1, <3>2 DEF AskedFor
  <2>2. CASE Head(o).kind \in Requests
    <3>1. Count(o, Requests) = Count(u, Requests) + 1 /\ Count(u, Requests) \in Nat
      <4>1. Count(o, Requests) =
              Count(u, Requests) + (IF Head(o).kind \in Requests THEN 1 ELSE 0)
        BY <1>1, CountHead
      <4> QED BY <2>2, <4>1, CountType
    <3>2. Count(f, Answers) \in Nat
      BY CountType
    <3>3. /\ p \in Asking /\ a # "windowChange" /\ x.result = "pending"
          /\ Count(u, Requests) = 0 /\ Count(f, Answers) = 0
      BY <1>3, <3>1, <3>2 DEF AskedFor
    <3>4. Head(o).id = n /\ Ids(u, Requests, n) /\ Ids(f, Answers, n)
      <4>1. Ids(o, Requests, n) /\ Ids(f, Answers, n)
        BY <1>3, <3>3 DEF AskedFor
      <4>2. Ids(o, Requests, n) <=> Ids(Tail(o), Requests, n)
                                    /\ (Head(o).kind \in Requests => Head(o).id = n)
        BY MessageTaken
      <4> QED BY <1>1, <2>2, <4>1, <4>2
    <3>5. CASE r.closed
      <4>1. t = f
        BY <2>2, <3>5 DEF Takes, Requests
      <4>2. x.status = "closed" \/ Some(f, "close")
        <5>g. \E s : Mine(x, S) = {s} /\ KnownAs(s, x, o, f)
          BY OutFirst
        <5>1. PICK s : Mine(x, S) = {s} /\ KnownAs(s, x, o, f)
          BY <5>g
        <5>2. s = r
          BY <5>1
        <5> QED BY <3>5, <5>1, <5>2 DEF KnownAs
      <4> QED BY <3>3, <3>4, <4>1, <4>2 DEF AskedFor
    <3>6. CASE ~r.closed
      <4>1. PICK b \in Msg : b.kind \in Answers /\ b.id = Head(o).id /\ t = Append(f, b)
        BY <2>2, <3>6 DEF Takes, Requests
      <4>2. Count(t, Answers) = 1
        <5>1. Count(t, Answers) = Count(f, Answers) + (IF b.kind \in Answers THEN 1 ELSE 0)
          BY <4>1, CountAppend
        <5> QED BY <3>3, <4>1, <5>1
      <4>3. Ids(t, Answers, n)
        <5>1. Ids(t, Answers, n) <=> Ids(f, Answers, n) /\ (b.kind \in Answers => b.id = n)
          BY <4>1, MessageAppended
        <5> QED BY <3>4, <4>1, <5>1
      <4> QED BY <3>3, <3>4, <4>2, <4>3 DEF AskedFor
    <3> QED BY <3>5, <3>6
  <2> QED BY <2>1, <2>2
<1> QED BY <1>1, <1>2, <1>3, <1>4, <1>5 DEF Works, AskOf

\* The server takes the CLOSE.
LEMMA WorksCloseTaken ==
    ASSUME NEW p, NEW a, NEW n, NEW x, NEW M, NEW o, NEW f, NEW S, NEW d, NEW r,
           Sending(x, M, o, f, S, d, r), Head(o).kind = "close", Works(TRUE, p, a, n, x, o, f, S),
           NEW t, t = f \/ \E b \in Msg : b.kind = "close" /\ t = Append(f, b), NEW T
    PROVE  Works(TRUE, p, a, n, x, Tail(o), t, T)
<1>h. /\ x \in Objects /\ o \in Seq(Msg) /\ f \in Seq(Msg) /\ S \in SUBSET Records
      /\ LinkOf(x, M, o, f, S, d) /\ o # <<>>
  BY DEF Sending
<1>1. x \in Regular /\ \E s : Mine(x, S) = {s} /\ KnownAs(s, x, o, f)
  BY <1>h, OutFirst, ZenonT(40)
<1>2. x.closeSent
  <2>1. Some(o, "close")
    BY <1>h, MessageTaken
  <2> QED BY <1>1, <2>1 DEF KnownAs
<1>3. Held(p, a, n, x) /\ AskedFor(p, a, n, x, o, f)
  BY DEF Works, AskOf
<1>4. p \notin Asking \cup {"creating"}
  BY <1>2, <1>3 DEF Held, Asleep, Asking
<1>5. Count(o, Requests) = 0 /\ Count(f, Answers) = 0
  BY <1>3, <1>4 DEF AskedFor
<1>6. Count(Tail(o), Requests) = 0
  BY <1>h, <1>5, UncountedHead DEF Requests
<1>7. Count(t, Answers) = 0
  <2>1. ASSUME NEW b \in Msg, b.kind = "close", t = Append(f, b)
        PROVE  Count(t, Answers) = 0
    BY <1>h, <1>5, <2>1, UncountedAppend DEF Answers
  <2> QED BY <1>5, <2>1
<1> QED BY <1>3, <1>4, <1>6, <1>7 DEF Works, AskOf, AskedFor, NotOwed

\* The server says EOF and CLOSE.
LEMMA WorksServerCloses ==
    ASSUME NEW p, NEW a, NEW n, NEW x, NEW o, NEW f \in Seq(Msg), NEW S,
           Works(TRUE, p, a, n, x, o, f, S), NEW r \in S, NEW q, q.inc = r.inc, q.acks = r.acks,
           NEW b \in Msg, b.kind = "eof", NEW e \in Msg, e.kind = "close",
           NEW t, t = Append(Append(f, b), e), NEW T, T = (S \ {r}) \cup {q}
    PROVE  Works(TRUE, p, a, n, x, o, t, T)
<1>0. Append(f, b) \in Seq(Msg)
  OBVIOUS
<1>1. PICK g \in Seq(Msg) : g = Append(f, b)
  BY <1>0
<1>2. /\ Count(g, Answers) = Count(f, Answers) /\ Count(g, {"data"}) = Count(f, {"data"})
      /\ \A k : Ids(g, Answers, k) <=> Ids(f, Answers, k)
  BY <1>1, UncountedAppend DEF Answers
<1>3. /\ Count(t, Answers) = Count(g, Answers) /\ Count(t, {"data"}) = Count(g, {"data"})
      /\ \A k : Ids(t, Answers, k) <=> Ids(g, Answers, k)
  BY <1>1, UncountedAppend DEF Answers
<1>4. Some(t, "close")
  BY <1>1, MessageAppended
<1>5. \A k : Owed(x, t, o, k) = Owed(x, f, o, k)
  BY <1>2, <1>3 DEF Owed
<1>6. \A y \in Mine(x, T) : \E s \in Mine(x, S) : s.acks = y.acks
  BY DEF Mine
<1>7. Held(p, a, n, x) /\ AskOf(p, a, n, x, o, f, Mine(x, S))
  BY DEF Works
<1>8. AskOf(p, a, n, x, o, t, Mine(x, T))
  <2>0. PICK R, U : R = Mine(x, S) /\ U = Mine(x, T)
    OBVIOUS
  <2>1. \A y \in U : \E s \in R : Owed(x, t, o, y.acks) = Owed(x, f, o, s.acks)
    BY <1>5, <1>6, <2>0
  <2>3. AskOf(p, a, n, x, o, f, R)
    BY <1>7, <2>0
  <2>2. /\ Count(t, Answers) = Count(f, Answers)
        /\ Ids(f, Answers, n) => Ids(t, Answers, n)
    BY <1>2, <1>3
  <2>4. AskOf(p, a, n, x, o, t, U)
    BY <1>4, <2>1, <2>2, <2>3, AskKept
  <2> QED BY <2>0, <2>4
<1> QED BY <1>7, <1>8 DEF Works

\* It answers as scp.
LEMMA WorksServerData ==
    ASSUME NEW p, NEW a, NEW n, NEW x, NEW o, NEW f \in Seq(Msg), NEW S,
           Works(TRUE, p, a, n, x, o, f, S), NEW r, Mine(x, S) = {r},
           NEW q, NEW T, Mine(x, T) = {q},
           NEW b \in Msg, b.kind = "data", NEW t, t = Append(f, b), SameOwed(x, f, o, r, t, o, q)
    PROVE  Works(TRUE, p, a, n, x, o, t, T)
<1>1. Held(p, a, n, x) /\ AskOf(p, a, n, x, o, f, Mine(x, S))
  BY DEF Works
<1>2. /\ Count(t, Answers) = Count(f, Answers)
      /\ \A k : Ids(t, Answers, k) <=> Ids(f, Answers, k)
  BY UncountedAppend DEF Answers
<1>3. Some(f, "close") => Some(t, "close")
  BY MessageAppended
<1>4. AskOf(p, a, n, x, o, t, Mine(x, T))
  <2>1. \A y \in Mine(x, T) : \E s \in Mine(x, S) : Owed(x, t, o, y.acks) = Owed(x, f, o, s.acks)
    BY DEF SameOwed
  <2>2. Ids(f, Answers, n) => Ids(t, Answers, n)
    BY <1>2
  <2> QED BY <1>1, <1>2, <1>3, <2>1, <2>2, AskKept
<1> QED BY <1>1, <1>4 DEF Works

-----------------------------------------------------------------------------
(* What is under way about one slot. *)

LEMMA ViewType ==
    ASSUME NEW q \in Seq(Msg), NEW c
    PROVE  View(q, c) \in Seq(Msg) /\ \A i \in DOMAIN View(q, c) : View(q, c)[i].c = c
<1>1. View(q, c) \in Seq(Msg \cap About(c))
  BY SelectionType DEF View
<1> HIDE DEF View
<1>2. \A m \in Msg \cap About(c) : m \in Msg /\ m.c = c
  BY DEF About
<1>3. PICK v \in Seq(Msg \cap About(c)) : v = View(q, c)
  BY <1>1
<1>4. v \in Seq(Msg) /\ \A i \in DOMAIN v : v[i].c = c
  BY <1>2
<1> QED BY <1>3, <1>4

Appends(t, q, m) == q \in Seq(Msg) /\ m \in Msg /\ t = Append(q, m)
LEMMA ViewAppended ==
    ASSUME NEW q, NEW m, NEW t, Appends(t, q, m), NEW c
    PROVE  /\ t \in Seq(Msg)
           /\ m.c = c => Appends(View(t, c), View(q, c), m)
           /\ m.c # c => View(t, c) = View(q, c)
<1>1. q \in Seq(Msg) /\ m \in Msg /\ t = Append(q, m)
  BY DEF Appends
<1>2. m \in About(c) <=> m.c = c
  BY <1>1 DEF About
<1>3. View(t, c) = IF m \in About(c) THEN Append(View(q, c), m) ELSE View(q, c)
  BY <1>1, SelectionAppend DEF View
<1>4. View(q, c) \in Seq(Msg)
  BY <1>1, ViewType
<1> QED BY <1>1, <1>2, <1>3, <1>4 DEF Appends

Takesoff(t, q) == q \in Seq(Msg) /\ q # <<>> /\ t = Tail(q)
LEMMA ViewTaken ==
    ASSUME NEW q, NEW t, Takesoff(t, q), NEW c
    PROVE  /\ t \in Seq(Msg)
           /\ Head(q).c = c => Takesoff(View(t, c), View(q, c)) /\ Head(View(q, c)) = Head(q)
           /\ Head(q).c # c => View(t, c) = View(q, c)
<1>1. q \in Seq(Msg) /\ q # <<>> /\ t = Tail(q) /\ t \in Seq(Msg) /\ Head(q) \in Msg
  BY EmptyOrNot DEF Takesoff
<1>2. Head(q) \in About(c) <=> Head(q).c = c
  BY <1>1 DEF About
<1>3. /\ Head(q) \in About(c) => View(q, c) = <<Head(q)>> \o View(t, c)
      /\ Head(q) \notin About(c) => View(q, c) = View(t, c)
  BY <1>1, SelectionHead DEF View
<1>4. View(q, c) \in Seq(Msg) /\ View(t, c) \in Seq(Msg)
  BY <1>1, ViewType
<1>5. ASSUME NEW h \in Msg, NEW v \in Seq(Msg), NEW w \in Seq(Msg), w = <<h>> \o v
      PROVE  w # <<>> /\ Head(w) = h /\ Tail(w) = v
  BY <1>5
<1>6. Head(q).c = c => /\ View(q, c) # <<>> /\ Head(View(q, c)) = Head(q)
                       /\ Tail(View(q, c)) = View(t, c)
  BY <1>1, <1>2, <1>3, <1>4, <1>5
<1> QED BY <1>1, <1>2, <1>3, <1>4, <1>6 DEF Takesoff

-----------------------------------------------------------------------------
(* The numbers of the objects. *)

\* At most one slot takes another object: none, or the one that is made.
Renumbered(c) ==
    /\ c \in Slots /\ made' \in {made, made + 1}
    /\ \A d \in Slots \ {c} : chan'[d].inc = chan[d].inc
    /\ chan'[c].inc \in {chan[c].inc, 0} \/ (made' = made + 1 /\ chan'[c].inc = made + 1)

LEMMA SitsKept ==
    ASSUME made \in Nat, NEW c, Renumbered(c), NEW n \in Nat, NEW k, Sits(n, k)
    PROVE  Sits(n, k)'
<1>1. n <= made /\ \A d \in Slots : n = chan[d].inc /\ n # 0 => d = k
  BY DEF Sits
<1>2. n <= made'
  BY <1>1 DEF Renumbered
<1>3. ASSUME NEW d \in Slots, n = chan'[d].inc, n # 0
      PROVE  d = k
  <2>1. chan'[d].inc # made + 1
    BY <1>1, <1>3
  <2>2. chan'[d].inc = chan[d].inc
    BY <1>3, <2>1 DEF Renumbered
  <2> QED BY <1>1, <1>3, <2>2
<1> QED BY <1>2, <1>3 DEF Sits

LEMMA ObjectedKept ==
    ASSUME made \in Nat, \A d \in Slots : chan[d].inc \in Nat, Objected, NEW c, Renumbered(c)
    PROVE  Objected'
<1>1. ASSUME NEW k \in Slots
      PROVE  Sits(chan[k].inc, k)'
  <2>1. PICK n : n = chan[k].inc /\ n \in Nat
    OBVIOUS
  <2>2. Sits(n, k)'
    BY <2>1, SitsKept DEF Objected
  <2>3. CASE chan'[k].inc = n
    BY <2>2, <2>3 DEF Sits
  <2>4. CASE chan'[k].inc = 0
    BY <2>4 DEF Sits, Renumbered
  <2>5. CASE made' = made + 1 /\ chan'[k].inc = made + 1 /\ k = c
    <3>1. ASSUME NEW d \in Slots, d # k
          PROVE  chan'[d].inc # made + 1
      <4>1. chan[d].inc <= made /\ chan[d].inc \in Nat
        BY DEF Objected, Sits
      <4> QED BY <2>5, <3>1, <4>1 DEF Renumbered
    <3> QED BY <2>5, <3>1 DEF Sits
  <2> QED BY <2>1, <2>3, <2>4, <2>5 DEF Renumbered
<1> QED BY <1>1 DEF Objected

LEMMA RecordedKept ==
    ASSUME made \in Nat, NEW c, Renumbered(c), Recorded, server \in SUBSET Records,
           server' \subseteq server
    PROVE  Recorded'
<1>1. ASSUME NEW r \in server'
      PROVE  Sits(r.inc, r.c)' /\ (Own(r) => r.inc # 0)
  <2>1. r \in server /\ r.inc \in Nat
    BY <1>1 DEF Records
  <2>2. PICK n, k : n = r.inc /\ k = r.c
    OBVIOUS
  <2>3. Sits(n, k) /\ n \in Nat /\ (Own(r) => r.inc # 0)
    BY <2>1, <2>2 DEF Recorded
  <2>4. Sits(n, k)'
    BY <2>3, SitsKept
  <2> QED BY <2>2, <2>3, <2>4
<1>2. ASSUME NEW r \in server', NEW s \in server', Own(r), Own(s),
             r.remote = s.remote \/ r.inc = s.inc
      PROVE  r = s
  BY <1>2 DEF Recorded
<1> QED BY <1>1, <1>2 DEF Recorded, Own

LEMMA RecordedSwapped ==
    ASSUME made \in Nat, NEW c, Renumbered(c), Recorded, server \in SUBSET Records,
           NEW r \in server, NEW q, q.c = r.c, q.inc = r.inc, q.remote = r.remote,
           server' = (server \ {r}) \cup {q}
    PROVE  Recorded'
<1>1. ASSUME NEW s \in server
      PROVE  Sits(s.inc, s.c)' /\ (Own(s) => s.inc # 0)
  <2>1. s.inc \in Nat
    BY <1>1 DEF Records
  <2>2. PICK n, k : n = s.inc /\ k = s.c
    OBVIOUS
  <2>3. Sits(n, k) /\ n \in Nat /\ (Own(s) => s.inc # 0)
    BY <2>1, <2>2 DEF Recorded
  <2>4. Sits(n, k)'
    BY <2>3, SitsKept
  <2> QED BY <2>2, <2>3, <2>4
<1>2. ASSUME NEW s \in server'
      PROVE  Sits(s.inc, s.c)' /\ (Own(s) => s.inc # 0)
  <2>1. CASE s \in server
    BY <1>1, <2>1
  <2>2. CASE s = q
    <3>1. PICK n, k : n = r.inc /\ k = r.c
      OBVIOUS
    <3>2. Sits(n, k)' /\ (Own(r) => r.inc # 0)
      BY <1>1, <3>1
    <3> QED BY <2>2, <3>1, <3>2 DEF Own
  <2> QED BY <1>2, <2>1, <2>2
<1>3. ASSUME NEW y \in server', NEW s \in server', Own(y), Own(s),
             y.remote = s.remote \/ y.inc = s.inc
      PROVE  y = s
  BY <1>3 DEF Recorded, Own
<1> QED BY <1>2, <1>3 DEF Recorded, Own

LEMMA RecordedAdded ==
    ASSUME made \in Nat, NEW c, Renumbered(c), Recorded, server \in SUBSET Records,
           NEW q \in Records, server' = server \cup {q}, Sits(q.inc, q.c),
           Own(q) => /\ q.inc # 0
                     /\ \A r \in server : Own(r) => r.remote # q.remote /\ r.inc # q.inc
    PROVE  Recorded'
<1>1. ASSUME NEW s \in server'
      PROVE  Sits(s.inc, s.c)' /\ (Own(s) => s.inc # 0)
  <2>1. s.inc \in Nat
    BY <1>1 DEF Records
  <2>2. PICK n, k : n = s.inc /\ k = s.c
    OBVIOUS
  <2>3. Sits(n, k) /\ n \in Nat /\ (Own(s) => s.inc # 0)
    BY <1>1, <2>1, <2>2 DEF Recorded
  <2>4. Sits(n, k)'
    BY <2>3, SitsKept
  <2> QED BY <2>2, <2>3, <2>4
<1>2. ASSUME NEW y \in server', NEW s \in server', Own(y), Own(s),
             y.remote = s.remote \/ y.inc = s.inc
      PROVE  y = s
  BY <1>2 DEF Recorded
<1> QED BY <1>1, <1>2 DEF Recorded, Own

LEMMA ConfirmingKept ==
    ASSUME made \in Nat, NEW c, Renumbered(c), Confirming, mainQ \in Seq(Msg),
           \/ mainQ' = mainQ
           \/ mainQ # <<>> /\ mainQ' = Tail(mainQ)
           \/ \E m \in Msg : mainQ' = Append(mainQ, m) /\ Sits(m.inc, m.c)'
    PROVE  Confirming'
<1>1. ASSUME NEW i \in DOMAIN mainQ
      PROVE  Sits(mainQ[i].inc, mainQ[i].c) /\ mainQ[i].inc \in Nat
  <2>1. mainQ[i] \in Msg
    BY <1>1
  <2>2. mainQ[i].inc \in Nat
    BY <2>1 DEF Msg
  <2> QED BY <1>1, <2>2 DEF Confirming
<1>2. ASSUME NEW j \in DOMAIN mainQ', NEW i \in DOMAIN mainQ, mainQ'[j] = mainQ[i]
      PROVE  Sits(mainQ[j].inc, mainQ[j].c)'
  <2>1. PICK n, k : n = mainQ[i].inc /\ k = mainQ[i].c
    OBVIOUS
  <2>2. Sits(n, k) /\ n \in Nat
    BY <1>1, <2>1
  <2>3. Sits(n, k)'
    BY <2>2, SitsKept
  <2> QED BY <1>2, <2>1, <2>3
<1>3. CASE mainQ' = mainQ
  BY <1>2, <1>3 DEF Confirming
<1>4. CASE mainQ # <<>> /\ mainQ' = Tail(mainQ)
  <2>1. \A j \in DOMAIN mainQ' : j + 1 \in DOMAIN mainQ /\ mainQ'[j] = mainQ[j + 1]
    BY <1>4
  <2> QED BY <1>2, <2>1 DEF Confirming
<1>5. ASSUME NEW m \in Msg, mainQ' = Append(mainQ, m), Sits(m.inc, m.c)'
      PROVE  Confirming'
  <2>1. ASSUME NEW j \in DOMAIN mainQ'
        PROVE  Sits(mainQ[j].inc, mainQ[j].c)'
    <3>1. CASE j \in DOMAIN mainQ
      <4>1. mainQ'[j] = mainQ[j]
        BY <1>5, <3>1
      <4> QED BY <1>2, <3>1, <4>1
    <3>2. CASE j \notin DOMAIN mainQ
      <4>1. mainQ'[j] = m
        BY <1>5, <2>1, <3>2
      <4> QED BY <1>5, <4>1
    <3> QED BY <3>1, <3>2
  <2> QED BY <2>1 DEF Confirming
<1> QED BY <1>3, <1>4, <1>5

-----------------------------------------------------------------------------
(* A step is about one slot, and the users of it. *)

Unmoved(d) ==
    /\ chan'[d] = chan[d] /\ outQ'[d] = outQ[d]
    /\ Main(d)' = Main(d) /\ In(d)' = In(d) /\ Recs(d)' = Recs(d)
Stays(v) == pc'[v] = pc[v] /\ api'[v] = api[v] /\ slot'[v] = slot[v] /\ asked'[v] = asked[v]
Elsewhere(c, W) ==
    /\ alive' = alive /\ Disconnecting' = Disconnecting
    /\ \A d \in Slots \ {c} : Unmoved(d)
    /\ \A v \in Users \ W : Stays(v) /\ slot[v] # c
    /\ \A v \in W : slot[v] \in {c, NoSlot}
Settled(c, W) ==
    /\ \A v \in W : UserOf(v) /\ slot[v] \in {c, NoSlot}
    /\ \A v, w \in W : slot[v] = slot[w] /\ slot[v] # NoSlot => v = w
    /\ chan[c] \in Regular => \/ \E v \in W : slot[v] = c
                              \/ chan[c].told /\ ~chan[c].closeSent

LEMMA SlotStep ==
    ASSUME TableInv, UserInv, NEW c \in Slots, NEW W \in SUBSET Users, Elsewhere(c, W),
           SlotOf(c)',
           Disconnecting => Departing' /\ Sent(c)', ~Disconnecting => Settled(c, W)'
    PROVE  TableInv' /\ UserInv'
<1>0. \A d \in Slots : d # NoSlot
  BY ChannelsAssumption DEF Slots, NoSlot
<1>1. ASSUME NEW d \in Slots, d # c
      PROVE  SlotOf(d)'
  <2>1. Unmoved(d) /\ SlotOf(d)
    BY <1>1 DEF Elsewhere, TableInv
  <2>2. alive' = alive /\ Disconnecting' = Disconnecting
    BY DEF Elsewhere
  <2> QED BY <2>1, <2>2 DEF SlotOf, Unmoved
<1>2. ASSUME NEW d \in Slots, d # c
      PROVE  Sent(d)'
  <2>1. Unmoved(d) /\ Sent(d)
    BY <1>1, <1>2 DEF Elsewhere, TableInv
  <2>2. ASSUME NEW u \in Users, slot[u] = d, pc[u] \in Asleep
        PROVE  slot'[u] = d /\ pc'[u] \in Asleep
    BY <1>0, <1>2, <2>2 DEF Elsewhere, Stays
  <2> QED BY <2>1, <2>2 DEF Sent, Unmoved
<1>3. CASE Disconnecting
  <2>1. Departing' /\ Sent(c)' /\ Disconnecting'
    BY <1>3 DEF Elsewhere
  <2> QED BY <1>1, <1>2, <2>1 DEF TableInv, UserInv
<1>4. CASE ~Disconnecting
  <2>1. Settled(c, W)' /\ ~Disconnecting'
    BY <1>4 DEF Elsewhere
  <2>2. Sent(c)'
    <3>1. ASSUME NEW v \in W, slot'[v] = c, chan'[c].closeSent
          PROVE  pc'[v] \in Asleep
      <4>1. UserOf(v)' /\ slot'[v] # NoSlot
        BY <1>0, <2>1, <3>1 DEF Settled
      <4>2. Held(pc[v], api[v], asked[v], chan[slot[v]])'
        BY <4>1 DEF UserOf, Works
      <4> QED BY <3>1, <4>2 DEF Held
    <3> QED BY <2>1, <3>1 DEF Settled, Sent
  <2>3. Departing'
    BY <2>1 DEF Departing, Disconnecting
  <2>4. Working
    BY <1>4 DEF UserInv
  <2>5. ASSUME NEW v \in Users \ W
        PROVE  UserOf(v)'
    <3>1. Stays(v) /\ slot[v] # c /\ UserOf(v)
      BY <2>4, <2>5 DEF Elsewhere, Working
    <3>2. CASE slot[v] = NoSlot
      BY <3>1, <3>2 DEF UserOf, Stays
    <3>3. CASE slot[v] # NoSlot
      <4>1. PICK d \in Slots : d = slot[v]
        BY <3>1, <3>3 DEF UserOf
      <4>2. Unmoved(d) /\ alive' = alive
        BY <3>1, <4>1 DEF Elsewhere
      <4>3. Works(alive, pc[v], api[v], asked[v], chan[d], outQ[d], In(d), Recs(d))
        BY <3>1, <3>3, <4>1 DEF UserOf
      <4>4. Works(alive, pc[v], api[v], asked[v], chan[d], outQ[d], In(d), Recs(d))'
        BY <3>1, <4>2, <4>3 DEF Unmoved, Stays
      <4>5. slot'[v] = d /\ d # NoSlot
        BY <3>1, <3>3, <4>1 DEF Stays
      <4> QED BY <4>4, <4>5 DEF UserOf
    <3> QED BY <3>2, <3>3
  <2>6. \A v \in Users : UserOf(v)'
    BY <2>1, <2>5 DEF Settled
  <2>7. ASSUME NEW v \in Users, NEW w \in Users, slot'[v] = slot'[w], slot'[v] # NoSlot
        PROVE  v = w
    <3>1. CASE v \in W /\ w \in W
      BY <2>1, <2>7, <3>1 DEF Settled
    <3>2. CASE v \notin W /\ w \notin W
      BY <2>4, <2>7, <3>2 DEF Elsewhere, Stays, Working, Alone
    <3>3. CASE v \in W /\ w \notin W
      BY <2>1, <2>7, <3>3 DEF Elsewhere, Stays, Settled
    <3>4. CASE v \notin W /\ w \in W
      BY <2>1, <2>7, <3>4 DEF Elsewhere, Stays, Settled
    <3> QED BY <3>1, <3>2, <3>3, <3>4
  <2>8. ASSUME NEW d \in Slots, chan'[d] \in Regular
        PROVE  chan'[d].told \/ \E u \in Users : slot'[u] = d
    <3>1. CASE d = c
      BY <2>1, <2>8, <3>1 DEF Settled
    <3>2. CASE d # c
      <4>1. Unmoved(d)
        BY <3>2 DEF Elsewhere
      <4>2. chan[d].told \/ \E u \in Users : slot[u] = d
        BY <2>4, <2>8, <4>1 DEF Unmoved, Working, Alone
      <4>3. ASSUME NEW u \in Users, slot[u] = d
            PROVE  slot'[u] = d
        BY <1>0, <3>2, <4>3 DEF Elsewhere, Stays
      <4> QED BY <4>1, <4>2, <4>3 DEF Unmoved
    <3> QED BY <3>1, <3>2
  <2>9. Working'
    BY <2>6, <2>7, <2>8 DEF Working, Alone
  <2> QED BY <1>1, <1>2, <2>2, <2>3, <2>9 DEF TableInv, UserInv
<1> QED BY <1>3, <1>4

-----------------------------------------------------------------------------
(* The steps of the users, as long as nobody disconnects. *)

LEMMA FirstFree ==
    ASSUME FreeSlots # {}
    PROVE  Min(FreeSlots) \in Slots /\ chan[Min(FreeSlots)] = NoChannel
<1>1. FreeSlots \in SUBSET Nat
  BY ChannelsAssumption DEF FreeSlots, Slots
<1>2. \E c \in FreeSlots : \A d \in FreeSlots : c <= d
  BY <1>1, LeastNumber
<1>3. Min(FreeSlots) \in FreeSlots
  BY <1>2, Zenon DEF Min
<1> QED BY <1>3 DEF FreeSlots

LEMMA InCall ==
    ASSUME UserInv, NEW u \in Users, pc[u] # "gone", api[u] # "disconnect"
    PROVE  ~Disconnecting
<1>1. ASSUME NEW w \in Users, api[w] = "disconnect"
      PROVE  FALSE
  <2>1. Leaves(w) /\ w # u
    BY <1>1 DEF UserInv, Departing
  <2> QED BY <2>1 DEF Leaves
<1> QED BY <1>1 DEF Disconnecting

LEMMA InCallAt ==
    ASSUME UserInv, NEW u \in Users, pc[u] \notin Leaving
    PROVE  ~Disconnecting /\ api[u] # "disconnect"
<1>1. api[u] # "disconnect"
  BY DEF UserInv, Departing, Leaves, Visits
<1>2. pc[u] # "gone"
  BY DEF Leaving
<1> QED BY <1>1, <1>2, InCall

LEMMA OpeningKept ==
    ASSUME OpeningInv, opening' = opening, alive' = alive, Disconnecting' = Disconnecting,
           NEW c, \A d \in Slots \ {c} : Unmoved(d),
           fromServer # <<>> => fromServer' # <<>> /\ Head(fromServer') = Head(fromServer),
           opening # NotOpening /\ opening.at = "notify" /\ opening.c = c =>
             chan'[c] \notin Regular /\ Disconnecting
    PROVE  OpeningInv'
<1> SUFFICES ASSUME opening # NotOpening
             PROVE  OpeningInv'
  BY DEF OpeningInv
<1>1. alive' /\ fromServer' # <<>> /\ Head(fromServer').kind = "openForwarded"
  BY DEF OpeningInv
<1>2. ASSUME opening.at = "notify"
      PROVE  /\ opening.c \in Slots /\ chan'[opening.c] \notin Regular
             /\ ~Disconnecting => /\ In(opening.c)' = <<>> /\ Main(opening.c)' = <<>>
                                  /\ chan'[opening.c] # NoChannel
                                  /\ \A r \in Recs(opening.c)' : r.closed
  <2>1. PICK d \in Slots : d = opening.c
    BY <1>2 DEF OpeningInv
  <2>2. /\ chan[d] \notin Regular
        /\ ~Disconnecting => /\ In(d) = <<>> /\ Main(d) = <<>> /\ chan[d] # NoChannel
                             /\ \A r \in Recs(d) : r.closed
    BY <1>2, <2>1 DEF OpeningInv
  <2>3. CASE d # c
    <3>1. Unmoved(d)
      BY <2>3
    <3>2. /\ chan'[d] \notin Regular
          /\ ~Disconnecting => /\ In(d)' = <<>> /\ Main(d)' = <<>> /\ chan'[d] # NoChannel
                               /\ \A r \in Recs(d)' : r.closed
      BY <2>2, <3>1 DEF Unmoved
    <3> QED BY <2>1, <3>2
  <2>4. CASE d = c
    BY <1>2, <2>1, <2>4
  <2> QED BY <2>3, <2>4
<1> QED BY <1>1, <1>2 DEF OpeningInv

\* A user, its channel, and all there is about it.
FineAt(u, c) ==
    Fine(alive, pc[u], api[u], asked[u], chan[c], Main(c), outQ[c], In(c), Recs(c))

LEMMA OwnFine ==
    ASSUME ChannelsInv, ~Disconnecting, NEW u \in Users, slot[u] # NoSlot
    PROVE  /\ slot[u] \in Slots /\ FineAt(u, slot[u])
           /\ chan[slot[u]] \in Regular /\ chan[slot[u]] # NoChannel
<1>1. UserOf(u) /\ slot[u] \in Slots
  BY DEF ChannelsInv, UserInv, Working, UserOf
<1>2. Works(alive, pc[u], api[u], asked[u], chan[slot[u]], outQ[slot[u]], In(slot[u]),
            Recs(slot[u]))
  BY <1>1 DEF UserOf
<1>3. Stands(alive, chan[slot[u]], Main(slot[u]), outQ[slot[u]], In(slot[u]), Recs(slot[u]),
             FALSE)
  <2>1. SlotOf(slot[u]) /\ Disconnecting = FALSE
    BY <1>1 DEF ChannelsInv, TableInv, Disconnecting
  <2> QED BY <2>1 DEF SlotOf
<1>4. chan[slot[u]] \in Regular
  BY <1>2 DEF Works, Held
<1> QED BY <1>1, <1>2, <1>3, <1>4, ObjectIs DEF FineAt, Fine

\* What a step of u on the slot c leaves alone.
Mostly(u, c) ==
    /\ Renumbered(c) /\ UNCHANGED netVars
    /\ \A d \in Slots \ {c} : chan'[d] = chan[d] /\ outQ'[d] = outQ[d] /\ Main(d)' = Main(d)
    /\ \A v \in Users \ {u} : Stays(v)

LEMMA OwnStep ==
    ASSUME ChannelsInv, ~Disconnecting, NEW u \in Users, NEW c \in Slots,
           slot[u] = c \/ (slot[u] = NoSlot /\ chan[c] = NoChannel),
           Mostly(u, c), api'[u] # "disconnect", Confirming', SlotOf(c)', UserOf(u)',
           slot'[u] \in {c, NoSlot},
           chan'[c] \in Regular => slot'[u] = c \/ (chan'[c].told /\ ~chan'[c].closeSent)
    PROVE  NumberInv' /\ TableInv' /\ UserInv' /\ OpeningInv'
<1>0. c # NoSlot /\ slot[u] # MaxChannels
  BY ChannelsAssumption DEF Slots, NoSlot
<1>1. Disconnecting' = Disconnecting /\ alive' = alive
  <2>1. ~Disconnecting'
    BY DEF Disconnecting, Mostly, Stays
  <2> QED BY <2>1 DEF Disconnecting, Mostly, netVars
<1>2. \A d \in Slots \ {c} : Unmoved(d)
  <2>1. ASSUME NEW d
        PROVE  In(d)' = In(d) /\ Recs(d)' = Recs(d)
    BY DEF Mostly, netVars, In, Recs
  <2> QED BY <2>1 DEF Mostly, Unmoved
<1>3. ASSUME NEW v \in Users \ {u}
      PROVE  slot[v] # c
  <2>1. CASE slot[u] = c
    BY <1>0, <1>3, <2>1 DEF ChannelsInv, UserInv, Working, Alone
  <2>2. CASE chan[c] = NoChannel
    BY <1>0, <1>3, <2>2, OwnFine
  <2> QED BY <2>1, <2>2
<1>4. PICK W \in SUBSET Users : W = {u}
  OBVIOUS
<1>5. Elsewhere(c, W)
  BY <1>1, <1>2, <1>3, <1>4 DEF Elsewhere, Mostly
<1>6. Settled(c, W)'
  BY <1>4 DEF Settled
<1>7. TableInv' /\ UserInv'
  BY <1>5, <1>6, SlotStep DEF ChannelsInv
<1>8. made \in Nat /\ (\A d \in Slots : chan[d].inc \in Nat) /\ server \in SUBSET Records
  BY ChannelsAssumption, ObjectIs DEF ChannelsInv, Shape, TableShape, NetShape
<1>9. NumberInv'
  <2>1. Objected'
    BY <1>8, ObjectedKept DEF ChannelsInv, NumberInv, Mostly
  <2>2. Recorded'
    BY <1>8, RecordedKept DEF ChannelsInv, NumberInv, Mostly, netVars
  <2> QED BY <2>1, <2>2 DEF NumberInv
<1>10. OpeningInv'
  <2>1. ~(opening # NotOpening /\ opening.at = "notify" /\ opening.c = c)
    <3>1. CASE slot[u] = c
      BY <1>0, <3>1, OwnFine DEF ChannelsInv, OpeningInv
    <3>2. CASE chan[c] = NoChannel
      BY <3>2 DEF ChannelsInv, OpeningInv
    <3> QED BY <3>1, <3>2
  <2>2. opening' = opening /\ fromServer' = fromServer
    BY DEF Mostly, netVars
  <2> QED BY <1>1, <1>2, <2>1, <2>2, OpeningKept DEF ChannelsInv
<1> QED BY <1>7, <1>9, <1>10

\* The user keeps the channel.
LEMMA OwnKept ==
    ASSUME ChannelsInv, ~Disconnecting, NEW u \in Users, NEW c \in Slots,
           slot[u] = c \/ (slot[u] = NoSlot /\ chan[c] = NoChannel),
           Mostly(u, c), api'[u] # "disconnect", Confirming', slot'[u] = c, FineAt(u, c)'
    PROVE  NumberInv' /\ TableInv' /\ UserInv' /\ OpeningInv'
<1>0. c # NoSlot
  BY ChannelsAssumption DEF Slots, NoSlot
<1>1. Disconnecting' = FALSE
  BY DEF Disconnecting, Mostly, Stays
<1>2. SlotOf(c)'
  BY <1>1 DEF FineAt, Fine, SlotOf
<1>3. UserOf(u)'
  BY <1>0 DEF FineAt, Fine, UserOf
<1> QED BY <1>2, <1>3, OwnStep

\* It has none any more, or has none yet.
LEMMA OwnLeft ==
    ASSUME ChannelsInv, ~Disconnecting, NEW u \in Users, NEW c \in Slots,
           slot[u] = c \/ (slot[u] = NoSlot /\ chan[c] = NoChannel),
           Mostly(u, c), api'[u] # "disconnect", Confirming', slot'[u] = NoSlot,
           pc'[u] \in {"idle", "global"},
           Stands(alive, chan[c], Main(c), outQ[c], In(c), Recs(c), FALSE)',
           chan'[c] \in Regular => chan'[c].told /\ ~chan'[c].closeSent
    PROVE  NumberInv' /\ TableInv' /\ UserInv' /\ OpeningInv'
<1>1. Disconnecting' = FALSE
  BY DEF Disconnecting, Mostly, Stays
<1>2. SlotOf(c)'
  BY <1>1 DEF SlotOf
<1>3. UserOf(u)'
  BY DEF UserOf
<1> QED BY <1>2, <1>3, OwnStep

\* Nothing is written to the main queue.
LEMMA ConfirmingSame ==
    ASSUME ChannelsInv, NEW c, Renumbered(c), mainQ' = mainQ
    PROVE  Confirming' /\ \A d : Main(d)' = Main(d)
<1>1. made \in Nat /\ mainQ \in Seq(Msg)
  <2>1. mainQ \in Seq(MainMsg)
    BY DEF ChannelsInv, Shape, TableShape
  <2> QED BY <2>1 DEF ChannelsInv, Shape, TableShape, MainMsg
<1>2. Confirming'
  BY <1>1, ConfirmingKept DEF ChannelsInv, NumberInv
<1>3. ASSUME NEW d
      PROVE  Main(d)' = Main(d)
  BY DEF Main
<1> QED BY <1>2, <1>3

-----------------------------------------------------------------------------
(* What the user threads call. *)

LEMMA StateTypes ==
    ASSUME Shape
    PROVE  /\ mainQ \in Seq(Msg) /\ fromServer \in Seq(Msg) /\ server \in SUBSET Records
           /\ made \in Nat /\ alive \in BOOLEAN
           /\ \A c \in Slots : chan[c] \in Objects /\ outQ[c] \in Seq(Msg)
           /\ \A c : Main(c) \in Seq(Msg) /\ In(c) \in Seq(Msg) /\ Recs(c) \in SUBSET Records
<1>1. mainQ \in Seq(MainMsg) /\ fromServer \in Seq(InMsg)
  BY DEF Shape, TableShape, NetShape
<1>2. mainQ \in Seq(Msg) /\ fromServer \in Seq(Msg)
  BY <1>1 DEF MainMsg, InMsg
<1>3. server \in SUBSET Records /\ made \in Nat /\ alive \in BOOLEAN
  BY ChannelsAssumption DEF Shape, TableShape, NetShape
<1>4. ASSUME NEW c
      PROVE  Main(c) \in Seq(Msg) /\ In(c) \in Seq(Msg) /\ Recs(c) \in SUBSET Records
  BY <1>2, <1>3, ViewType DEF Main, In, Recs
<1>5. ASSUME NEW c \in Slots
      PROVE  chan[c] \in Objects /\ outQ[c] \in Seq(Msg)
  BY DEF Shape, TableShape
<1> QED BY <1>2, <1>3, <1>4, <1>5

\* A table that is full, or a look through a null pointer: the program is at its end.
LEMMA OnlyBroken ==
    ASSUME ChannelsInv, broken' \in BOOLEAN, UNCHANGED <<chan, outQ, mainQ, made>>,
           UNCHANGED userVars, UNCHANGED netVars
    PROVE  ChannelsInv'
<1> USE DEF userVars, netVars
<1>0. Disconnecting' = Disconnecting
  BY DEF Disconnecting
<1>1. Shape'
  BY DEF ChannelsInv, Shape, TableShape, UserShape, NetShape
<1>2. NumberInv'
  BY DEF ChannelsInv, NumberInv, Objected, Recorded, Confirming, Sits
<1>3. TableInv'
  BY <1>0 DEF ChannelsInv, TableInv, SlotOf, Sent, Main, In, Recs
<1>4. UserInv'
  <2>1. Departing => Departing'
    BY DEF Departing, Leaves, Visits
  <2>2. Working => Working'
    BY DEF Working, UserOf, Alone, In, Recs
  <2> QED BY <1>0, <2>1, <2>2 DEF ChannelsInv, UserInv
<1>5. OpeningInv'
  BY <1>0 DEF ChannelsInv, OpeningInv, Main, In, Recs
<1> QED BY <1>1, <1>2, <1>3, <1>4, <1>5 DEF ChannelsInv

\* The number of a new object is that of no record.
LEMMA NewNumber ==
    ASSUME ChannelsInv, NEW c, NEW r \in Recs(c)
    PROVE  r.inc # made + 1
<1>1. r \in server /\ r.inc <= made
  BY DEF Recs, ChannelsInv, NumberInv, Recorded, Sits
<1>2. r.inc \in Nat /\ made \in Nat
  BY <1>1, StateTypes DEF ChannelsInv, Records
<1> QED BY <1>1, <1>2

LEMMA NewRegular ==
    ASSUME made \in Nat, NEW type \in {"session", "direct_tcpip"}, NEW x, x = NewObject(type)
    PROVE  Fresh(x) /\ x.inc = made + 1
<1>1. x = [inc |-> made + 1, type |-> type, status |-> "unknown", result |-> "pending",
           answered |-> 0, closeSent |-> FALSE, closeRecvd |-> FALSE,
           placeholder |-> FALSE, address |-> FALSE, remote |-> NoSlot, eof |-> FALSE,
           data |-> <<>>, told |-> FALSE]
  BY DEF NewObject
<1>2. made + 1 \in Nat \ {0} /\ NoSlot \in Numbers /\ <<>> \in Seq(BOOLEAN)
  BY DEF Numbers
<1>3. type \in Types /\ "unknown" \in Statuses /\ "pending" \in Results /\ 0 \in Nat
  BY DEF Types, Statuses, Results
<1>4. x \in Channel
  BY <1>1, <1>2, <1>3 DEF Channel
<1> QED BY <1>1, <1>4 DEF Regular, Fresh

LEMMA Creates ==
    ASSUME ChannelsInv, NEW u \in Users, NEW call \in {"create", "scpSend", "scpReceive"},
           NEW type \in {"session", "direct_tcpip"}, Create(u, call, type)
    PROVE  ChannelsInv'
<1>s. Shape /\ UserInv
  BY DEF ChannelsInv
<1>1. CASE FreeSlots = {}
  BY <1>1, OnlyBroken DEF Create, TableFull
<1>2. CASE FreeSlots # {}
  <2>1. PICK c \in Slots : c = Min(FreeSlots) /\ chan[c] = NoChannel
    BY <1>2, FirstFree
  <2>2. PICK x : x = NewObject(type)
    OBVIOUS
  <2>3. PICK m : m = MainMessage("open", c, made + 1, NoSlot)
    OBVIOUS
  <2>t. made \in Nat /\ mainQ \in Seq(Msg)
    BY <1>s, StateTypes
  <2>4. Fresh(x) /\ x.inc = made + 1
    BY <2>2, <2>t, NewRegular
  <2>5. m \in Msg /\ m \in MainMsg /\ m.kind = "open" /\ m.c = c /\ m.inc = made + 1
    BY <2>3, <2>t DEF MainMessage, Msg, MainMsg, MainKinds, Numbers, NoSlot
  <2>6. /\ pc[u] = "idle" /\ slot[u] = NoSlot /\ made < MaxMade
        /\ chan' = [chan EXCEPT ![c] = x] /\ made' = made + 1
        /\ mainQ' = Append(mainQ, m)
        /\ api' = [api EXCEPT ![u] = call] /\ slot' = [slot EXCEPT ![u] = c]
        /\ pc' = [pc EXCEPT ![u] = "creating"]
        /\ UNCHANGED <<outQ, broken, reads, asked, asks>> /\ UNCHANGED netVars
    BY <1>2, <2>1, <2>2, <2>3 DEF Create, newChannel, Goto
  <2>7. ~Disconnecting
    BY <1>s, <2>6, InCallAt DEF Leaving, Asleep
  <2>8. Shape'
    <3>1. TableShape'
      BY <1>s, <2>4, <2>5, <2>6, ObjectIs, ChannelsAssumption DEF Shape, TableShape, Fresh
    <3>2. UserShape'
      <4>1. "creating" \in Using \cup Leaving /\ call \in Calls
        BY DEF Using, Calls, Requests
      <4> QED BY <1>s, <2>6, <4>1 DEF Shape, UserShape
    <3>3. NetShape'
      BY <1>s, <2>6 DEF Shape, NetShape, netVars
    <3> QED BY <3>1, <3>2, <3>3 DEF Shape
  <2>9. chan'[c] = x /\ \A d \in Slots \ {c} : chan'[d] = chan[d]
    BY <1>s, <2>6 DEF Shape, TableShape
  <2>10. Appends(mainQ', mainQ, m)
    BY <2>t, <2>5, <2>6 DEF Appends
  <2>11. Main(c)' = Append(Main(c), m) /\ \A d \in Slots \ {c} : Main(d)' = Main(d)
    <3>1. /\ Appends(View(mainQ', c), View(mainQ, c), m)
          /\ \A d \in Slots \ {c} : View(mainQ', d) = View(mainQ, d)
      BY <2>5, <2>10, ViewAppended
    <3> QED BY <3>1 DEF Main, Appends
  <2>12. Renumbered(c)
    BY <2>4, <2>6, <2>9 DEF Renumbered
  <2>13. Mostly(u, c)
    BY <1>s, <2>6, <2>9, <2>11, <2>12 DEF Mostly, Stays, Shape, UserShape
  <2>14. Confirming'
    <3>1. Sits(m.inc, m.c)'
      <4>1. Objected'
        BY <1>s, <2>12, ObjectedKept, StateTypes, ObjectIs DEF ChannelsInv, NumberInv
      <4>2. chan'[c].inc = m.inc /\ m.c = c
        BY <2>4, <2>5, <2>9
      <4> QED BY <4>1, <4>2 DEF Objected
    <3> QED BY <2>t, <2>5, <2>6, <2>12, <3>1, ConfirmingKept DEF ChannelsInv, NumberInv
  <2>15. pc'[u] = "creating" /\ api'[u] = call /\ slot'[u] = c /\ asked'[u] = asked[u]
    BY <1>s, <2>6 DEF Shape, UserShape
  <2>16. FineAt(u, c)'
    <3>1. PICK up, M, o, f, S : /\ up = alive /\ M = Main(c) /\ o = outQ[c] /\ f = In(c)
                                /\ S = Recs(c) /\ up \in BOOLEAN
      BY <1>s, StateTypes
    <3>2. Stands(up, NoChannel, M, o, f, S, FALSE)
      <4>1. SlotOf(c) /\ Disconnecting = FALSE
        BY <2>7 DEF ChannelsInv, TableInv, Disconnecting
      <4> QED BY <2>1, <3>1, <4>1 DEF SlotOf
    <3>3. Unheard(x, S)
      BY <2>4, <3>1, NewNumber DEF Unheard
    <3>n. PICK n : n = asked[u]
      OBVIOUS
    <3>m. Opens(m, x) /\ up \in BOOLEAN
      BY <2>4, <2>5, <3>1 DEF Opens
    <3>4. Fine(up, "creating", call, n, x, Append(M, m), o, f, S)
      BY <2>4, <3>2, <3>3, <3>m, FineCreate
    <3>5. outQ'[c] = o /\ In(c)' = f /\ Recs(c)' = S /\ alive' = up
      BY <2>6, <3>1 DEF netVars, In, Recs
    <3> QED BY <2>9, <2>11, <2>15, <3>1, <3>n, <3>4, <3>5 DEF FineAt
  <2>17. api'[u] # "disconnect"
    BY <2>15
  <2> QED BY <2>1, <2>6, <2>7, <2>8, <2>13, <2>14, <2>15, <2>16, <2>17, OwnKept DEF ChannelsInv
<1> QED BY <1>1, <1>2

\* u goes on at q in call b, its last request is k; its channel becomes y, with the queue t.
Moves(u, c, y, t, q, b, k) ==
    /\ chan' = [chan EXCEPT ![c] = y] /\ outQ' = [outQ EXCEPT ![c] = t]
    /\ UNCHANGED <<mainQ, made, broken>> /\ UNCHANGED netVars
    /\ pc' = [pc EXCEPT ![u] = q] /\ api' = [api EXCEPT ![u] = b]
    /\ asked' = [asked EXCEPT ![u] = k]
    /\ reads' \in [Users -> 0 .. 2] /\ asks' \in Nat

LEMMA MovesShape ==
    ASSUME ChannelsInv, NEW u \in Users, NEW c \in Slots, NEW y \in Objects,
           NEW t \in Seq(OutMsg(c)), NEW q \in Using \cup Leaving, NEW b \in Calls, NEW k \in Nat,
           Moves(u, c, y, t, q, b, k),
           slot' \in [Users -> Slots \cup {NoSlot, MaxChannels}]
    PROVE  Shape'
<1>1. t \in Seq(Msg)
  BY DEF OutMsg
<1>2. TableShape'
  <2>1. chan' \in [Slots -> Objects] /\ outQ' \in [Slots -> Seq(Msg)]
    BY <1>1 DEF ChannelsInv, Shape, TableShape, Moves
  <2>2. \A d \in Slots : outQ'[d] \in Seq(OutMsg(d))
    BY DEF ChannelsInv, Shape, TableShape, Moves
  <2> QED BY <2>1, <2>2 DEF ChannelsInv, Shape, TableShape, Moves
<1>3. UserShape'
  BY DEF ChannelsInv, Shape, UserShape, Moves
<1>4. NetShape'
  BY DEF ChannelsInv, Shape, NetShape, Moves, netVars
<1> QED BY <1>2, <1>3, <1>4 DEF Shape

LEMMA MovesMostly ==
    ASSUME ChannelsInv, NEW u \in Users, NEW c \in Slots, NEW y, y.inc \in {chan[c].inc, 0},
           NEW t, NEW q, NEW b, NEW k, Moves(u, c, y, t, q, b, k),
           \A v \in Users \ {u} : slot'[v] = slot[v]
    PROVE  /\ Mostly(u, c) /\ Confirming'
           /\ chan'[c] = y /\ outQ'[c] = t /\ pc'[u] = q /\ api'[u] = b /\ asked'[u] = k
           /\ Main(c)' = Main(c) /\ In(c)' = In(c) /\ Recs(c)' = Recs(c) /\ alive' = alive
<1>1. /\ chan'[c] = y /\ outQ'[c] = t /\ pc'[u] = q /\ api'[u] = b /\ asked'[u] = k
      /\ \A d \in Slots \ {c} : chan'[d] = chan[d] /\ outQ'[d] = outQ[d]
      /\ \A v \in Users \ {u} : pc'[v] = pc[v] /\ api'[v] = api[v] /\ asked'[v] = asked[v]
  BY DEF Moves, ChannelsInv, Shape, TableShape, UserShape
<1>2. Renumbered(c)
  BY <1>1 DEF Renumbered, Moves
<1>3. Confirming' /\ \A d : Main(d)' = Main(d)
  BY <1>2, ConfirmingSame DEF Moves
<1>4. Mostly(u, c)
  BY <1>1, <1>2, <1>3 DEF Mostly, Stays, Moves
<1>5. In(c)' = In(c) /\ Recs(c)' = Recs(c) /\ alive' = alive
  BY DEF Moves, netVars, In, Recs
<1> QED BY <1>1, <1>3, <1>4, <1>5

LEMMA OwnMoves ==
    ASSUME ChannelsInv, NEW u \in Users, NEW c \in Slots, ~Disconnecting, slot[u] = c,
           NEW y \in Channel, y.inc = chan[c].inc, NEW t \in Seq(OutMsg(c)),
           NEW q \in Using \cup Leaving, NEW b \in Calls \ {"disconnect"}, NEW k \in Nat,
           Moves(u, c, y, t, q, b, k), slot' = slot,
           Fine(alive, q, b, k, y, Main(c), t, In(c), Recs(c))
    PROVE  ChannelsInv'
<1>1. y \in Objects
  BY DEF Objects
<1>2. Shape'
  BY <1>1, MovesShape DEF ChannelsInv, Shape, UserShape
<1>3. /\ Mostly(u, c) /\ Confirming'
      /\ chan'[c] = y /\ outQ'[c] = t /\ pc'[u] = q /\ api'[u] = b /\ asked'[u] = k
      /\ Main(c)' = Main(c) /\ In(c)' = In(c) /\ Recs(c)' = Recs(c) /\ alive' = alive
  BY MovesMostly
<1>4. FineAt(u, c)'
  BY <1>3 DEF FineAt
<1>5. NumberInv' /\ TableInv' /\ UserInv' /\ OpeningInv'
  BY <1>3, <1>4, OwnKept
<1> QED BY <1>2, <1>5 DEF ChannelsInv

LEMMA OwnGoes ==
    ASSUME ChannelsInv, NEW u \in Users, NEW c \in Slots, ~Disconnecting, slot[u] = c,
           NEW y \in Objects, y.inc \in {chan[c].inc, 0}, NEW t \in Seq(OutMsg(c)),
           NEW k \in Nat, Moves(u, c, y, t, "idle", "none", k),
           slot' = [slot EXCEPT ![u] = NoSlot],
           Stands(alive, y, Main(c), t, In(c), Recs(c), FALSE),
           y \in Regular => y.told /\ ~y.closeSent
    PROVE  ChannelsInv'
<1>1. "idle" \in Using \cup Leaving /\ "none" \in Calls
  BY DEF Using, Calls
<1>2. /\ slot' \in [Users -> Slots \cup {NoSlot, MaxChannels}] /\ slot'[u] = NoSlot
      /\ \A v \in Users \ {u} : slot'[v] = slot[v]
  BY DEF ChannelsInv, Shape, UserShape
<1>3. Shape'
  BY <1>1, <1>2, MovesShape
<1>4. /\ Mostly(u, c) /\ Confirming'
      /\ chan'[c] = y /\ outQ'[c] = t /\ pc'[u] = "idle" /\ api'[u] = "none" /\ asked'[u] = k
      /\ Main(c)' = Main(c) /\ In(c)' = In(c) /\ Recs(c)' = Recs(c) /\ alive' = alive
  BY <1>2, MovesMostly
<1>5. Stands(alive, chan[c], Main(c), outQ[c], In(c), Recs(c), FALSE)'
  BY <1>4
<1>6. NumberInv' /\ TableInv' /\ UserInv' /\ OpeningInv'
  BY <1>2, <1>4, <1>5, OwnLeft
<1> QED BY <1>3, <1>6 DEF ChannelsInv

-----------------------------------------------------------------------------
(* The calls on a channel. *)

At(u, c, up, p, a, n, x, M, o, f, S) ==
    /\ c = slot[u] /\ up = alive /\ p = pc[u] /\ a = api[u] /\ n = asked[u]
    /\ x = chan[c] /\ M = Main(c) /\ o = outQ[c] /\ f = In(c) /\ S = Recs(c)
Typed(c, up, n, x, M, o, f, S) ==
    /\ c \in Slots /\ up \in BOOLEAN /\ n \in Nat /\ x \in Regular /\ x \in Channel
    /\ x # NoChannel
    /\ M \in Seq(Msg) /\ o \in Seq(Msg) /\ o \in Seq(OutMsg(c)) /\ f \in Seq(Msg)
    /\ S \in SUBSET Records
Entries(u, c, a, n, x, o) ==
    /\ chan = [chan EXCEPT ![c] = x] /\ outQ = [outQ EXCEPT ![c] = o]
    /\ api = [api EXCEPT ![u] = a] /\ asked = [asked EXCEPT ![u] = n]
    /\ reads \in [Users -> 0 .. 2] /\ asks \in Nat

LEMMA UserAt ==
    ASSUME ChannelsInv, NEW u \in Users, pc[u] # "gone", api[u] # "disconnect",
           slot[u] # NoSlot \/ pc[u] \notin {"idle", "global"}
    PROVE  /\ ~Disconnecting
           /\ \E c, up, p, a, n, x, M, o, f, S :
                /\ At(u, c, up, p, a, n, x, M, o, f, S) /\ Typed(c, up, n, x, M, o, f, S)
                /\ Entries(u, c, a, n, x, o) /\ Fine(up, p, a, n, x, M, o, f, S)
<1>1. ~Disconnecting
  BY InCall DEF ChannelsInv
<1>2. slot[u] # NoSlot
  BY <1>1 DEF ChannelsInv, UserInv, Working, UserOf
<1>3. PICK c : c = slot[u] /\ c \in Slots /\ FineAt(u, c) /\ chan[c] \in Regular
               /\ chan[c] # NoChannel
  BY <1>1, <1>2, OwnFine
<1>4. PICK up, p, a, n, x, M, o, f, S : At(u, c, up, p, a, n, x, M, o, f, S)
  BY <1>3 DEF At
<1>5. /\ M \in Seq(Msg) /\ o \in Seq(Msg) /\ f \in Seq(Msg) /\ S \in SUBSET Records
      /\ up \in BOOLEAN
  BY <1>3, <1>4, StateTypes DEF At, ChannelsInv
<1>6. o \in Seq(OutMsg(c)) /\ n \in Nat
  BY <1>3, <1>4 DEF At, ChannelsInv, Shape, TableShape, UserShape
<1>7. Typed(c, up, n, x, M, o, f, S)
  BY <1>3, <1>4, <1>5, <1>6, ObjectIs DEF At, Typed
<1>8. Entries(u, c, a, n, x, o)
  BY <1>3, <1>4 DEF At, Entries, ChannelsInv, Shape, TableShape, UserShape
<1>9. Fine(up, p, a, n, x, M, o, f, S)
  BY <1>3, <1>4 DEF At, FineAt
<1> QED BY <1>1, <1>4, <1>7, <1>8, <1>9

LEMMA MessageIs ==
    ASSUME NEW c \in Slots, chan[c] \in Regular, NEW kind \in OutKinds, NEW id \in Nat,
           NEW m, m = Message(kind, c, id)
    PROVE  /\ m \in Msg /\ m \in OutMsg(c) /\ m.kind = kind /\ m.c = c /\ m.id = id
           /\ m.inc = chan[c].inc /\ m.remote = chan[c].remote
<1>1. chan[c].inc \in Nat /\ chan[c].remote \in Numbers
  BY DEF Regular, Channel
<1>2. m = [kind |-> kind, c |-> c, inc |-> chan[c].inc, remote |-> chan[c].remote, id |-> id]
  BY DEF Message, getRemoteChannelNumber
<1>3. m \in Msg
  BY <1>1, <1>2 DEF Msg, Numbers
<1> QED BY <1>2, <1>3 DEF OutMsg

LEMMA Looks ==
    ASSUME ChannelsInv, NEW u \in Users, RequestLook(u)
    PROVE  ChannelsInv'
<1>1. pc[u] = "request" /\ pc[u] \notin Leaving
  BY DEF RequestLook, Leaving, Asleep
<1>2. ~Disconnecting /\ api[u] # "disconnect"
  BY <1>1, InCallAt DEF ChannelsInv
<1>3. PICK c, up, p, a, n, x, M, o, f, S :
         /\ At(u, c, up, p, a, n, x, M, o, f, S) /\ Typed(c, up, n, x, M, o, f, S)
         /\ Entries(u, c, a, n, x, o) /\ Fine(up, p, a, n, x, M, o, f, S)
  BY <1>1, <1>2, UserAt
<1>4. PICK q : q = IF x.result = "pending" THEN "requestWait" ELSE "requestTake"
  OBVIOUS
<1>5. Fine(up, q, a, n, x, M, o, f, S)
  BY <1>1, <1>3, <1>4, FineLook DEF At, Typed
<1>6. Moves(u, c, x, o, q, a, n) /\ slot' = slot
  BY <1>3, <1>4 DEF RequestLook, Moves, At, Entries, Goto, tableVars
<1>7. q \in Using \cup Leaving /\ a \in Calls \ {"disconnect"}
  BY <1>2, <1>3, <1>4 DEF Using, Asking, At, ChannelsInv, Shape, UserShape
<1> QED BY <1>2, <1>3, <1>5, <1>6, <1>7, OwnMoves DEF At, Typed

LEMMA ClosesChannel ==
    ASSUME ChannelsInv, NEW u \in Users, closeChannel(u)
    PROVE  ChannelsInv'
<1>1. pc[u] = "idle" /\ slot[u] # NoSlot /\ pc[u] \notin Leaving
  BY DEF closeChannel, Leaving, Asleep
<1>2. ~Disconnecting /\ api[u] # "disconnect"
  BY <1>1, InCallAt DEF ChannelsInv
<1>3. PICK c, up, p, a, n, x, M, o, f, S :
         /\ At(u, c, up, p, a, n, x, M, o, f, S) /\ Typed(c, up, n, x, M, o, f, S)
         /\ Entries(u, c, a, n, x, o) /\ Fine(up, p, a, n, x, M, o, f, S)
  BY <1>1, <1>2, UserAt
<1>4. p = "idle"
  BY <1>1, <1>3 DEF At
<1>5. Fine(up, "close", "close", n, x, M, o, f, S)
  BY <1>3, <1>4, FineGo DEF Typed
<1>6. Moves(u, c, x, o, "close", "close", n) /\ slot' = slot
  BY <1>3 DEF closeChannel, Moves, At, Entries, Goto, tableVars
<1>7. "close" \in Using \cup Leaving /\ "close" \in Calls \ {"disconnect"}
  BY DEF Using, Calls
<1> QED BY <1>2, <1>3, <1>5, <1>6, <1>7, OwnMoves DEF At, Typed

LEMMA WaitsForClose ==
    ASSUME ChannelsInv, NEW u \in Users, waitForChannelClose(u), api[u] # "disconnect"
    PROVE  ChannelsInv'
<1>1. pc[u] = "closeWait"
  BY DEF waitForChannelClose
<1>3. PICK c, up, p, a, n, x, M, o, f, S :
         /\ At(u, c, up, p, a, n, x, M, o, f, S) /\ Typed(c, up, n, x, M, o, f, S)
         /\ Entries(u, c, a, n, x, o) /\ Fine(up, p, a, n, x, M, o, f, S)
  BY <1>1, UserAt
<1>2. ~Disconnecting
  BY <1>1, UserAt
<1>4. PICK q : q = IF x.status = "closed" THEN "delete" ELSE "closeAsleep"
  OBVIOUS
<1>5. p = "closeWait"
  BY <1>1, <1>3 DEF At
<1>6. Fine(up, q, a, n, x, M, o, f, S)
  BY <1>3, <1>4, <1>5, FineGo DEF Typed
<1>7. Moves(u, c, x, o, q, a, n) /\ slot' = slot
  BY <1>3, <1>4 DEF waitForChannelClose, Moves, At, Entries, Goto, tableVars
<1>8. q \in Using \cup Leaving /\ a \in Calls \ {"disconnect"}
  BY <1>3, <1>4 DEF Using, Asleep, At, ChannelsInv, Shape, UserShape
<1> QED BY <1>2, <1>3, <1>6, <1>7, <1>8, OwnMoves DEF At, Typed

LEMMA QueueEntry ==
    ASSUME Shape, NEW c \in Slots, NEW m \in OutMsg(c), Queue(m)
    PROVE  /\ outQ' = [outQ EXCEPT ![c] = Append(outQ[c], m)]
           /\ Append(outQ[c], m) \in Seq(OutMsg(c))
<1>1. m.c = c
  BY DEF OutMsg
<1>2. outQ[c] \in Seq(OutMsg(c))
  BY DEF Shape, TableShape
<1> QED BY <1>1, <1>2 DEF Queue

\* A channel request, of a user that has its channel or has just created it.
LEMMA Requested ==
    ASSUME ChannelsInv, NEW u \in Users, NEW b \in Requests \cup {"windowChange"},
           Request(u, b),
           \/ pc[u] = "idle" /\ b \in {"request", "windowChange"} /\ slot[u] # NoSlot
           \/ pc[u] = "creating" /\ chan[slot[u]].status = "open" /\ api[u] = b,
           api' = [api EXCEPT ![u] = b],
           UNCHANGED <<chan, mainQ, made, broken, slot, reads>>, UNCHANGED netVars
    PROVE  ChannelsInv'
<1>1. pc[u] \notin Leaving
  BY DEF Leaving, Asleep
<1>2. ~Disconnecting /\ api[u] # "disconnect" /\ pc[u] # "gone"
  BY <1>1, InCallAt DEF ChannelsInv, Leaving
<1>3. PICK c, up, p, a, n, x, M, o, f, S :
         /\ At(u, c, up, p, a, n, x, M, o, f, S) /\ Typed(c, up, n, x, M, o, f, S)
         /\ Entries(u, c, a, n, x, o) /\ Fine(up, p, a, n, x, M, o, f, S)
  BY <1>2, UserAt
<1>4. PICK k, m : k = asks + 1 /\ m = Message(b, c, k)
  OBVIOUS
<1>5. k \in Nat /\ b \in OutKinds /\ c \in Slots /\ chan[c] \in Regular
  BY <1>3, <1>4 DEF Entries, OutKinds, At, Typed
<1>6. /\ m \in Msg /\ m \in OutMsg(c) /\ m.kind = b /\ m.id = k
      /\ m.inc = x.inc /\ m.remote = x.remote
  BY <1>3, <1>4, <1>5, MessageIs DEF At
<1>7. PICK t : t = Append(o, m)
  OBVIOUS
<1>8. outQ' = [outQ EXCEPT ![c] = t] /\ t \in Seq(OutMsg(c))
  <2>1. Queue(m) /\ Shape
    BY <1>3, <1>4 DEF Request, At, ChannelsInv
  <2> QED BY <1>3, <1>5, <1>6, <1>7, <2>1, QueueEntry DEF At
<1>9. Fine(up, "request", b, k, x, M, t, f, S)
  <2>1. \/ p = "idle" /\ b \in {"request", "windowChange"}
        \/ p = "creating" /\ x.status = "open" /\ a = b
    BY <1>3 DEF At
  <2> QED BY <1>3, <1>6, <1>7, <2>1, FineRequest DEF Typed
<1>10. Moves(u, c, x, t, "request", b, k) /\ slot' = slot
  BY <1>3, <1>4, <1>8 DEF Request, Moves, At, Entries, Goto
<1>11. "request" \in Using \cup Leaving /\ b \in Calls \ {"disconnect"}
  BY DEF Using, Asking, Calls, Requests
<1> QED BY <1>2, <1>3, <1>5, <1>8, <1>9, <1>10, <1>11, OwnMoves DEF At, Typed

\* The call ends, and the channel is freed, with what was queued.
LEMMA Frees ==
    ASSUME ChannelsInv, NEW u \in Users, slot[u] # NoSlot \/ pc[u] \notin {"idle", "global"},
           pc[u] # "gone", api[u] # "disconnect",
           chan[slot[u]].status \in {"closed", "failedToCreate"}, Return(u, FALSE), Free(slot[u]),
           UNCHANGED <<mainQ, made, broken, asked, asks>>, UNCHANGED netVars
    PROVE  ChannelsInv'
<1>1. PICK c, up, p, a, n, x, M, o, f, S :
         /\ At(u, c, up, p, a, n, x, M, o, f, S) /\ Typed(c, up, n, x, M, o, f, S)
         /\ Entries(u, c, a, n, x, o) /\ Fine(up, p, a, n, x, M, o, f, S)
  BY UserAt
<1>2. ~Disconnecting
  BY UserAt
<1>3. Stands(up, NoChannel, M, <<>>, f, S, FALSE)
  <2>1. Stands(up, x, M, o, f, S, FALSE) /\ x \in Objects /\ x \in Regular
    BY <1>1, ObjectIs DEF Fine, Typed
  <2>2. x.status \in {"closed", "failedToCreate"}
    BY <1>1 DEF At
  <2> QED BY <1>1, <2>1, <2>2, StandsFree DEF Typed
<1>4. PICK y, t : y = NoChannel /\ t = <<>>
  OBVIOUS
<1>5. y \in Objects /\ y.inc = 0 /\ t \in Seq(OutMsg(c)) /\ y \notin Regular
  BY <1>4, ObjectIs DEF Objects
<1>6. Moves(u, c, y, t, "idle", "none", n) /\ slot' = [slot EXCEPT ![u] = NoSlot]
  <2>1. reads' \in [Users -> 0 .. 2]
    BY <1>1 DEF Return, Entries
  <2> QED BY <1>1, <1>4, <2>1 DEF Return, Free, Moves, At, Entries, Goto
<1>7. c \in Slots /\ n \in Nat /\ slot[u] = c /\ y.inc \in {chan[c].inc, 0}
  BY <1>1, <1>5 DEF Typed, At
<1>8. Stands(alive, y, Main(c), t, In(c), Recs(c), FALSE)
  BY <1>1, <1>3, <1>4 DEF At
<1> QED BY <1>2, <1>5, <1>6, <1>7, <1>8, OwnGoes

LEMMA CreateAnswered ==
    ASSUME ChannelsInv, NEW u \in Users, getChannelCreateResult(u)
    PROVE  ChannelsInv'
<1>1. pc[u] = "creating" /\ chan[slot[u]].status # "unknown" /\ pc[u] \notin Leaving
  BY DEF getChannelCreateResult, Leaving, Asleep
<1>2. ~Disconnecting /\ api[u] # "disconnect"
  BY <1>1, InCallAt DEF ChannelsInv
<1>3. PICK c, up, p, a, n, x, M, o, f, S :
         /\ At(u, c, up, p, a, n, x, M, o, f, S) /\ Typed(c, up, n, x, M, o, f, S)
         /\ Entries(u, c, a, n, x, o) /\ Fine(up, p, a, n, x, M, o, f, S)
  BY <1>1, <1>2, UserAt
<1>4. p = "creating" /\ x.status # "unknown" /\ x.status \in Statuses
  BY <1>1, <1>3, ObjectIs DEF At, Typed
<1>5. CASE x.status # "open"
  <2>1. chan[slot[u]].status \in {"closed", "failedToCreate"}
    BY <1>3, <1>4, <1>5 DEF At, Statuses
  <2>2. /\ Return(u, FALSE) /\ Free(slot[u]) /\ UNCHANGED <<mainQ, made, broken, asked, asks>>
        /\ UNCHANGED netVars
    BY <2>1 DEF getChannelCreateResult
  <2> QED BY <1>1, <1>2, <2>1, <2>2, Frees
<1>6. CASE x.status = "open" /\ a = "create"
  <2>1. /\ UNCHANGED <<chan, slot>> /\ Return(u, TRUE) /\ UNCHANGED <<outQ, asked, asks>>
        /\ UNCHANGED <<mainQ, made, broken>> /\ UNCHANGED netVars
    BY <1>3, <1>6 DEF getChannelCreateResult, At
  <2>2. Fine(up, "idle", "none", n, x, M, o, f, S)
    BY <1>3, <1>4, <1>6, FineGo DEF Typed
  <2>3. Moves(u, c, x, o, "idle", "none", n) /\ slot' = slot
    <3>1. reads' \in [Users -> 0 .. 2]
      BY <1>3, <2>1 DEF Return, Entries
    <3> QED BY <1>3, <2>1, <3>1 DEF Return, Moves, At, Entries, Goto
  <2>4. "idle" \in Using \cup Leaving /\ "none" \in Calls \ {"disconnect"}
    BY DEF Using, Calls
  <2> QED BY <1>2, <1>3, <2>2, <2>3, <2>4, OwnMoves DEF At, Typed
<1>7. CASE x.status = "open" /\ a # "create"
  <2>1. /\ UNCHANGED <<chan, slot>> /\ Request(u, a) /\ UNCHANGED <<api, reads>>
        /\ UNCHANGED <<mainQ, made, broken>> /\ UNCHANGED netVars
    BY <1>3, <1>7 DEF getChannelCreateResult, At
  <2>2. a \in {"create", "scpSend", "scpReceive"}
    BY <1>3, <1>4 DEF Fine, Works, Held
  <2>3. a \in Requests /\ api[u] = a /\ api' = [api EXCEPT ![u] = a]
    BY <1>3, <1>7, <2>1, <2>2 DEF Requests, At, Entries
  <2>4. pc[u] = "creating" /\ chan[slot[u]].status = "open"
    BY <1>1, <1>3, <1>7 DEF At
  <2> QED BY <2>1, <2>3, <2>4, Requested
<1> QED BY <1>5, <1>6, <1>7

LEMMA RequestsOfUsers ==
    ASSUME ChannelsInv, NEW u \in Users, NEW b \in {"request", "windowChange"},
           ChannelRequest(u, b)
    PROVE  ChannelsInv'
<1>1. pc[u] = "idle" /\ slot[u] # NoSlot /\ Request(u, b)
  BY ChannelsAssumption DEF ChannelRequest, isValidChannelNumber, Slots, NoSlot
<1>2. b \in Requests \cup {"windowChange"}
  BY DEF Requests
<1>3. api' = [api EXCEPT ![u] = b] /\ UNCHANGED netVars
      /\ UNCHANGED <<chan, mainQ, made, broken, slot, reads>>
  BY DEF ChannelRequest
<1> QED BY <1>1, <1>2, <1>3, Requested

LEMMA Writes ==
    ASSUME Shape, NEW u \in Users, slot[u] \in Slots, chan[slot[u]] \in Regular, Write(u)
    PROVE  \E m, t : /\ Data(m, chan[slot[u]]) /\ t = Append(outQ[slot[u]], m)
                     /\ outQ' = [outQ EXCEPT ![slot[u]] = t] /\ t \in Seq(OutMsg(slot[u]))
<1>1. PICK c, m : c = slot[u] /\ m = Message("data", c, 0)
  OBVIOUS
<1>2. m \in OutMsg(c) /\ Data(m, chan[c]) /\ c \in Slots
  <2>1. "data" \in OutKinds /\ 0 \in Nat
    BY DEF OutKinds
  <2> QED BY <1>1, <2>1, MessageIs DEF Data
<1>3. Queue(m)
  BY <1>1 DEF Write
<1>4. PICK t : t = Append(outQ[c], m)
  OBVIOUS
<1>5. outQ' = [outQ EXCEPT ![c] = t] /\ t \in Seq(OutMsg(c))
  BY <1>2, <1>3, <1>4, QueueEntry
<1> QED BY <1>1, <1>2, <1>4, <1>5

\* How a request of the channel x goes on, in the call a.
Onward(u, c, x, a, o, q, b, t) ==
    /\ Onto(q, b) /\ b \in Calls \ {"disconnect"}
    /\ pc' = [pc EXCEPT ![u] = q] /\ api' = [api EXCEPT ![u] = b] /\ slot' = slot
    /\ outQ' = [outQ EXCEPT ![c] = t] /\ t \in Seq(OutMsg(c))
    /\ Written(x, o, t) /\ reads' \in [Users -> 0 .. 2]

LEMMA RequestEnds ==
    ASSUME ChannelsInv, NEW u \in Users, NEW c, NEW up, NEW p, NEW a, NEW n, NEW x, NEW M,
           NEW o, NEW f, NEW S, At(u, c, up, p, a, n, x, M, o, f, S),
           Typed(c, up, n, x, M, o, f, S), Entries(u, c, a, n, x, o),
           a \in Requests \cup {"windowChange"}, NEW ok, AfterRequest(u, ok)
    PROVE  \E q, b, t : Onward(u, c, x, a, o, q, b, t) /\ (t = o \/ a = "scpReceive")
<1>1. /\ o \in Seq(OutMsg(c)) /\ outQ = [outQ EXCEPT ![c] = o] /\ api = [api EXCEPT ![u] = a]
      /\ reads \in [Users -> 0 .. 2] /\ a = api[u] /\ c = slot[u] /\ c \in Slots
      /\ x = chan[c] /\ x \in Regular /\ o = outQ[c]
  BY DEF At, Typed, Entries
<1>2. a \in Calls \ {"disconnect"} /\ "none" \in Calls \ {"disconnect"}
  BY DEF Calls, Requests
<1>3. CASE a \in {"request", "windowChange"} \/ (a = "scpReceive" /\ ~ok)
  <2>1. Return(u, TRUE) /\ UNCHANGED outQ
    BY <1>1, <1>3 DEF AfterRequest
  <2>2. Onward(u, c, x, a, o, "idle", "none", o)
    BY <1>1, <1>2, <2>1 DEF Return, Goto, Onward, Onto, Written
  <2> QED BY <2>2
<1>4. CASE a = "scpSend"
  <2>1. /\ Goto(u, IF ok THEN "read" ELSE "close") /\ reads' = [reads EXCEPT ![u] = 2]
        /\ UNCHANGED <<api, slot, outQ>>
    BY <1>1, <1>4 DEF AfterRequest
  <2>2. PICK q : q = IF ok THEN "read" ELSE "close"
    OBVIOUS
  <2>3. q \in {"idle", "close"} \/ q = "read"
    BY <2>2
  <2>4. Onward(u, c, x, a, o, q, a, o)
    BY <1>1, <1>2, <1>4, <2>1, <2>2, <2>3 DEF Goto, Onward, Onto, Written
  <2> QED BY <2>4
<1>5. CASE a = "scpReceive" /\ ok
  <2>1. /\ Goto(u, "read") /\ reads' = [reads EXCEPT ![u] = 2] /\ Write(u)
        /\ UNCHANGED <<api, slot>>
    BY <1>1, <1>5 DEF AfterRequest
  <2>2. PICK m, t : /\ Data(m, x) /\ t = Append(o, m) /\ outQ' = [outQ EXCEPT ![c] = t]
                    /\ t \in Seq(OutMsg(c))
    BY <1>1, <2>1, Writes DEF ChannelsInv
  <2>3. Written(x, o, t)
    BY <2>2 DEF Data, Written
  <2>4. Onward(u, c, x, a, o, "read", a, t)
    BY <1>1, <1>2, <1>5, <2>1, <2>2, <2>3 DEF Goto, Onward, Onto
  <2> QED BY <1>5, <2>4
<1> QED BY <1>3, <1>4, <1>5 DEF Requests

LEMMA RequestTaken ==
    ASSUME ChannelsInv, NEW u \in Users, getChannelRequestResult(u)
    PROVE  ChannelsInv'
<1>1. pc[u] = "requestTake" /\ pc[u] \notin Leaving
  BY DEF getChannelRequestResult, Leaving, Asleep
<1>2. ~Disconnecting /\ api[u] # "disconnect"
  BY <1>1, InCallAt DEF ChannelsInv
<1>3. PICK c, up, p, a, n, x, M, o, f, S :
         /\ At(u, c, up, p, a, n, x, M, o, f, S) /\ Typed(c, up, n, x, M, o, f, S)
         /\ Entries(u, c, a, n, x, o) /\ Fine(up, p, a, n, x, M, o, f, S)
  BY <1>1, <1>2, UserAt
<1>4. p = "requestTake" /\ a \in Requests \cup {"windowChange"}
  <2>1. p = "requestTake" /\ Held(p, a, n, x)
    BY <1>1, <1>3 DEF At, Fine, Works
  <2> QED BY <2>1 DEF Held, Asking
<1>5. PICK y : Reset(x, y)
  BY DEF Reset
<1>6. y \in Channel /\ y.inc = x.inc
  BY <1>3, <1>5 DEF Typed, Channel, Results, Reset
<1>7. PICK q, b, t : Onward(u, c, x, a, o, q, b, t) /\ (t = o \/ a = "scpReceive")
  BY <1>3, <1>4, RequestEnds DEF getChannelRequestResult
<1>8. Fine(up, q, b, 0, y, M, t, f, S)
  <2>1. Onto(q, b) /\ Written(x, o, t) /\ (t = o \/ a = "scpReceive")
    BY <1>7 DEF Onward
  <2>2. /\ up \in BOOLEAN /\ o \in Seq(Msg) /\ f \in Seq(Msg) /\ S \in SUBSET Records
        /\ Fine(up, "requestTake", a, n, x, M, o, f, S)
    BY <1>3, <1>4 DEF Typed
  <2>3. PICK k : k = 0
    OBVIOUS
  <2>4. Fine(up, q, b, k, y, M, t, f, S)
    BY <1>5, <2>1, <2>2, FineTaken
  <2> QED BY <2>3, <2>4
<1>9. Moves(u, c, y, t, q, b, 0) /\ slot' = slot
  <2>1. chan' = [chan EXCEPT ![c] = y]
    BY <1>3, <1>5 DEF getChannelRequestResult, At, Reset
  <2>2. /\ asked' = [asked EXCEPT ![u] = 0] /\ asks' = asks /\ asks \in Nat
        /\ UNCHANGED <<mainQ, made, broken>> /\ UNCHANGED netVars
    BY <1>3 DEF getChannelRequestResult, Entries
  <2> QED BY <1>7, <2>1, <2>2 DEF Moves, Onward
<1>10. q \in Using \cup Leaving /\ b \in Calls \ {"disconnect"} /\ t \in Seq(OutMsg(c))
  BY <1>7 DEF Onward, Onto, Using
<1> QED BY <1>2, <1>3, <1>6, <1>8, <1>9, <1>10, OwnMoves DEF At, Typed

LEMMA EofsOfUsers ==
    ASSUME ChannelsInv, NEW u \in Users, channelSendEOF(u) \/ scpSendFinish(u)
    PROVE  ChannelsInv'
<1>1. /\ pc[u] = "idle" /\ slot[u] # NoSlot /\ pc[u] \notin Leaving
      /\ Queue(Message("eof", slot[u], 0)) /\ asks' = asks + 1
      /\ UNCHANGED <<chan, mainQ, made, broken, slot, reads, asked>> /\ UNCHANGED netVars
      /\ \/ UNCHANGED <<pc, api>>
         \/ Goto(u, "close") /\ api' = [api EXCEPT ![u] = "close"]
  BY ChannelsAssumption
     DEF channelSendEOF, scpSendFinish, isValidChannelNumber, Slots, NoSlot, Leaving, Asleep
<1>2. ~Disconnecting /\ api[u] # "disconnect"
  BY <1>1, InCallAt DEF ChannelsInv
<1>3. PICK c, up, p, a, n, x, M, o, f, S :
         /\ At(u, c, up, p, a, n, x, M, o, f, S) /\ Typed(c, up, n, x, M, o, f, S)
         /\ Entries(u, c, a, n, x, o) /\ Fine(up, p, a, n, x, M, o, f, S)
  BY <1>1, <1>2, UserAt
<1>4. PICK m, t : m = Message("eof", c, 0) /\ t = Append(o, m)
  OBVIOUS
<1>5. /\ m \in Msg /\ m \in OutMsg(c) /\ m.kind = "eof"
      /\ m.inc = x.inc /\ m.remote = x.remote
  <2>1. "eof" \in OutKinds /\ 0 \in Nat /\ c \in Slots /\ chan[c] \in Regular
    BY <1>3 DEF OutKinds, At, Typed
  <2> QED BY <1>3, <1>4, <2>1, MessageIs DEF At
<1>6. outQ' = [outQ EXCEPT ![c] = t] /\ t \in Seq(OutMsg(c))
  <2>1. Queue(m) /\ Shape
    BY <1>1, <1>3, <1>4 DEF At, ChannelsInv
  <2> QED BY <1>3, <1>4, <1>5, <2>1, QueueEntry DEF At, Typed
<1>7. PICK q, b : /\ q \in {"idle", "close"} /\ b \in Calls \ {"disconnect"}
                  /\ pc' = [pc EXCEPT ![u] = q] /\ api' = [api EXCEPT ![u] = b]
  <2>1. pc = [pc EXCEPT ![u] = "idle"] /\ api = [api EXCEPT ![u] = a]
    BY <1>1, <1>3 DEF ChannelsInv, Shape, UserShape, Entries
  <2>2. a \in Calls \ {"disconnect"} /\ "close" \in Calls \ {"disconnect"}
    BY <1>2, <1>3 DEF At, ChannelsInv, Shape, UserShape, Calls
  <2> QED BY <1>1, <2>1, <2>2 DEF Goto
<1>8. Fine(up, q, b, n, x, M, t, f, S)
  <2>1. p = "idle"
    BY <1>1, <1>3 DEF At
  <2> QED BY <1>3, <1>4, <1>5, <1>7, <2>1, FineEof, ZenonT(40) DEF Typed
<1>9. Moves(u, c, x, t, q, b, n) /\ slot' = slot
  BY <1>1, <1>3, <1>6, <1>7 DEF Moves, At, Entries
<1>10. q \in Using \cup Leaving
  BY <1>7 DEF Using
<1> QED BY <1>2, <1>3, <1>6, <1>7, <1>8, <1>9, <1>10, OwnMoves DEF At, Typed

LEMMA ReadGoesOn ==
    ASSUME ChannelsInv, NEW u \in Users, NEW c, NEW up, NEW p, NEW a, NEW n, NEW x, NEW M,
           NEW o, NEW f, NEW S, At(u, c, up, p, a, n, x, M, o, f, S),
           Typed(c, up, n, x, M, o, f, S), Entries(u, c, a, n, x, o),
           a \in {"scpSend", "scpReceive"}, ScpRead(u)
    PROVE  \E q, b, t : Onward(u, c, x, a, o, q, b, t)
<1>1. /\ o \in Seq(OutMsg(c)) /\ outQ = [outQ EXCEPT ![c] = o] /\ api = [api EXCEPT ![u] = a]
      /\ reads \in [Users -> 0 .. 2] /\ a = api[u] /\ c = slot[u] /\ c \in Slots
      /\ x = chan[c] /\ x \in Regular /\ o = outQ[c]
  BY DEF At, Typed, Entries
<1>2. a \in Calls \ {"disconnect"} /\ "none" \in Calls \ {"disconnect"}
  BY DEF Calls, Requests
<1>3. pc[u] = "read" /\ pc = [pc EXCEPT ![u] = "read"]
  BY DEF ScpRead, ChannelsInv, Shape, UserShape
<1>4. PICK t : outQ' = [outQ EXCEPT ![c] = t] /\ t \in Seq(OutMsg(c)) /\ Written(x, o, t)
  <2>1. CASE UNCHANGED outQ
    BY <1>1, <2>1 DEF Written
  <2>2. CASE Write(u)
    BY <1>1, <2>2, Writes DEF ChannelsInv, Written
  <2> QED BY <2>1, <2>2 DEF ScpRead
<1>5. CASE Return(u, TRUE)
  <2>1. Onward(u, c, x, a, o, "idle", "none", t)
    BY <1>1, <1>2, <1>4, <1>5 DEF Return, Goto, Onward, Onto
  <2> QED BY <2>1
<1>6. CASE reads' = [reads EXCEPT ![u] = 1] /\ UNCHANGED <<pc, api, slot>>
  <2>1. Onward(u, c, x, a, o, "read", a, t)
    BY <1>1, <1>2, <1>3, <1>4, <1>6 DEF Onward, Onto
  <2> QED BY <2>1
<1>7. CASE Goto(u, "close") /\ UNCHANGED <<api, slot, reads>>
  <2>1. Onward(u, c, x, a, o, "close", a, t)
    BY <1>1, <1>2, <1>4, <1>7 DEF Goto, Onward, Onto
  <2> QED BY <2>1
<1> QED BY <1>5, <1>6, <1>7 DEF ScpRead

LEMMA ReadsOfUsers ==
    ASSUME ChannelsInv, NEW u \in Users, ScpRead(u)
    PROVE  ChannelsInv'
<1>1. pc[u] = "read" /\ pc[u] \notin Leaving /\ chan[slot[u]].data # <<>>
  BY DEF ScpRead, Leaving, Asleep
<1>2. ~Disconnecting /\ api[u] # "disconnect"
  BY <1>1, InCallAt DEF ChannelsInv
<1>3. PICK c, up, p, a, n, x, M, o, f, S :
         /\ At(u, c, up, p, a, n, x, M, o, f, S) /\ Typed(c, up, n, x, M, o, f, S)
         /\ Entries(u, c, a, n, x, o) /\ Fine(up, p, a, n, x, M, o, f, S)
  BY <1>1, <1>2, UserAt
<1>4. p = "read" /\ a \in {"scpSend", "scpReceive"} /\ x.data # <<>>
  <2>1. p = "read" /\ Held(p, a, n, x) /\ x.data # <<>>
    BY <1>1, <1>3 DEF At, Fine, Works
  <2> QED BY <2>1 DEF Held
<1>5. PICK y : Fewer(x, y)
  BY DEF Fewer
<1>6. y \in Channel /\ y.inc = x.inc
  <2>1. PICK e \in Seq(BOOLEAN) : e = x.data
    BY <1>3 DEF Typed, Channel
  <2>2. Tail(e) \in Seq(BOOLEAN) /\ x \in Channel
    BY <1>3, <1>4, <2>1, TailType DEF Typed
  <2> QED BY <1>5, <2>1, <2>2 DEF Fewer, Channel
<1>7. PICK q, b, t : Onward(u, c, x, a, o, q, b, t)
  BY <1>3, <1>4, ReadGoesOn
<1>8. Fine(up, q, b, n, y, M, t, f, S)
  <2>1. Onto(q, b) /\ Written(x, o, t)
    BY <1>7 DEF Onward
  <2>2. /\ up \in BOOLEAN /\ o \in Seq(Msg) /\ f \in Seq(Msg) /\ S \in SUBSET Records
        /\ Fine(up, "read", a, n, x, M, o, f, S)
    BY <1>3, <1>4 DEF Typed
  <2> QED BY <1>4, <1>5, <2>1, <2>2, FineRead
<1>9. Moves(u, c, y, t, q, b, n) /\ slot' = slot
  <2>1. chan' = [chan EXCEPT ![c] = y]
    BY <1>3, <1>5 DEF ScpRead, At, Fewer
  <2>2. /\ asked' = [asked EXCEPT ![u] = n] /\ asks' = asks /\ asks \in Nat
        /\ UNCHANGED <<mainQ, made, broken>> /\ UNCHANGED netVars
    BY <1>3 DEF ScpRead, Entries
  <2> QED BY <1>7, <2>1, <2>2 DEF Moves, Onward
<1>10. q \in Using \cup Leaving /\ b \in Calls \ {"disconnect"} /\ t \in Seq(OutMsg(c))
  BY <1>7 DEF Onward, Onto, Using
<1> QED BY <1>2, <1>3, <1>6, <1>8, <1>9, <1>10, OwnMoves DEF At, Typed

LEMMA ClosesOfUsers ==
    ASSUME ChannelsInv, NEW u \in Users, api[u] # "disconnect", CloseLook(u)
    PROVE  ChannelsInv'
<1>1. pc[u] = "close"
  BY DEF CloseLook
<1>2. ~Disconnecting
  BY <1>1, UserAt
<1>3. PICK c, up, p, a, n, x, M, o, f, S :
         /\ At(u, c, up, p, a, n, x, M, o, f, S) /\ Typed(c, up, n, x, M, o, f, S)
         /\ Entries(u, c, a, n, x, o) /\ Fine(up, p, a, n, x, M, o, f, S)
  BY <1>1, UserAt
<1>4. p = "close" /\ isValidChannelNumber(c) /\ a \in Calls \ {"disconnect"}
  BY <1>1, <1>3 DEF At, Typed, isValidChannelNumber, ChannelsInv, Shape, UserShape
<1>5. CASE x.status = "open" /\ ~x.closeSent
  <2>1. Goto(u, "closeQueue") /\ UNCHANGED <<api, slot, reads, chan>>
    BY <1>3, <1>4, <1>5 DEF CloseLook, At
  <2>2. UNCHANGED <<outQ, mainQ, made, broken, asked, asks>> /\ UNCHANGED netVars
    BY DEF CloseLook
  <2>3. Fine(up, "closeQueue", a, n, x, M, o, f, S)
    BY <1>3, <1>4, FineGo DEF Typed
  <2>4. Moves(u, c, x, o, "closeQueue", a, n) /\ slot' = slot
    BY <1>3, <2>1, <2>2 DEF Moves, At, Entries, Goto
  <2>5. "closeQueue" \in Using \cup Leaving
    BY DEF Using
  <2> QED BY <1>2, <1>3, <1>4, <2>3, <2>4, <2>5, OwnMoves DEF At, Typed
<1>6. CASE x.status # "open" \/ x.closeSent
  <2>1. Return(u, FALSE) /\ chan' = [chan EXCEPT ![c].told = TRUE]
    BY <1>3, <1>4, <1>6 DEF CloseLook, At
  <2>2. UNCHANGED <<outQ, mainQ, made, broken, asked, asks>> /\ UNCHANGED netVars
    BY DEF CloseLook
  <2>3. PICK y : y = [x EXCEPT !.told = TRUE]
    OBVIOUS
  <2>4. y \in Channel /\ y.inc = x.inc
    BY <1>3, <2>3, Told DEF Typed
  <2>5. Stands(up, y, M, o, f, S, FALSE) /\ y.told /\ ~y.closeSent
    BY <1>3, <1>4, <1>6, <2>3, StandsTold DEF Typed
  <2>6. Moves(u, c, y, o, "idle", "none", n) /\ slot' = [slot EXCEPT ![u] = NoSlot]
    <3>1. reads' \in [Users -> 0 .. 2]
      BY <1>3, <2>1 DEF Return, Entries
    <3>2. chan' = [chan EXCEPT ![c] = y]
      BY <1>3, <2>1, <2>3 DEF At
    <3> QED BY <1>3, <2>1, <2>2, <3>1, <3>2 DEF Return, Moves, At, Entries, Goto
  <2>7. y \in Objects /\ y.inc \in {chan[c].inc, 0} /\ slot[u] = c
    BY <1>3, <2>4 DEF Objects, At
  <2>8. Stands(alive, y, Main(c), o, In(c), Recs(c), FALSE)
    BY <1>3, <2>5 DEF At
  <2> QED BY <1>2, <1>3, <2>5, <2>6, <2>7, <2>8, OwnGoes DEF Typed
<1> QED BY <1>5, <1>6

LEMMA CloseQueued ==
    ASSUME ChannelsInv, NEW u \in Users, api[u] # "disconnect", CloseQueue(u)
    PROVE  ChannelsInv'
<1>1. pc[u] = "closeQueue"
  BY DEF CloseQueue
<1>2. ~Disconnecting
  BY <1>1, UserAt
<1>3. PICK c, up, p, a, n, x, M, o, f, S :
         /\ At(u, c, up, p, a, n, x, M, o, f, S) /\ Typed(c, up, n, x, M, o, f, S)
         /\ Entries(u, c, a, n, x, o) /\ Fine(up, p, a, n, x, M, o, f, S)
  BY <1>1, UserAt
<1>4. p = "closeQueue" /\ a \in Calls \ {"disconnect"}
  BY <1>1, <1>3 DEF At, ChannelsInv, Shape, UserShape
<1>5. PICK m, t, y : /\ m = Message("close", c, 0) /\ t = Append(o, m)
                     /\ y = [x EXCEPT !.closeSent = TRUE]
  OBVIOUS
<1>6. /\ m \in Msg /\ m \in OutMsg(c) /\ m.kind = "close"
      /\ m.inc = x.inc /\ m.remote = x.remote
  <2>1. "close" \in OutKinds /\ 0 \in Nat /\ c \in Slots /\ chan[c] \in Regular
    BY <1>3 DEF OutKinds, At, Typed
  <2> QED BY <1>3, <1>5, <2>1, MessageIs DEF At
<1>7. outQ' = [outQ EXCEPT ![c] = t] /\ t \in Seq(OutMsg(c))
  <2>1. Queue(m) /\ Shape
    BY <1>3, <1>5 DEF At, ChannelsInv, CloseQueue
  <2> QED BY <1>3, <1>5, <1>6, <2>1, QueueEntry DEF At, Typed
<1>8. y \in Channel /\ y.inc = x.inc
  BY <1>3, <1>5, CloseSaid DEF Typed
<1>9. Fine(up, "closeWait", a, n, y, M, t, f, S)
  BY <1>3, <1>4, <1>5, <1>6, FineCloseQueue DEF Typed
<1>10. Moves(u, c, y, t, "closeWait", a, n) /\ slot' = slot
  <2>1. chan' = [chan EXCEPT ![c] = y]
    BY <1>3, <1>5 DEF CloseQueue, At
  <2> QED BY <1>3, <1>7, <2>1 DEF CloseQueue, Moves, At, Entries, Goto
<1>11. "closeWait" \in Using \cup Leaving
  BY DEF Using, Asleep
<1> QED BY <1>2, <1>3, <1>4, <1>7, <1>8, <1>9, <1>10, <1>11, OwnMoves DEF At, Typed

\* The server's CLOSE has come: the channel is freed.
LEMMA DeletesOfUsers ==
    ASSUME ChannelsInv, NEW u \in Users, api[u] # "disconnect", deleteChannel(u)
    PROVE  ChannelsInv'
<1>1. pc[u] \in {"delete", "deleteAgain", "deleteLost"}
  BY DEF deleteChannel
<1>3. PICK c, up, p, a, n, x, M, o, f, S :
         /\ At(u, c, up, p, a, n, x, M, o, f, S) /\ Typed(c, up, n, x, M, o, f, S)
         /\ Entries(u, c, a, n, x, o) /\ Fine(up, p, a, n, x, M, o, f, S)
  BY <1>1, UserAt
<1>4. x.status = "closed" /\ x.closeRecvd
  <2>1. p \in Using /\ Held(p, a, n, x) /\ Lasts(x, FALSE) /\ x \in Regular
    BY <1>3 DEF Fine, Works, Stands, Held
  <2>2. p = "delete"
    BY <1>1, <1>3, <2>1 DEF At, Using, Asking, Asleep
  <2> QED BY <2>1, <2>2 DEF Held, Lasts
<1>5. Free(slot[u]) /\ Return(u, FALSE)
  <2>1. isValidChannelNumber(slot[u]) /\ chan[slot[u]].closeRecvd
    BY <1>3, <1>4 DEF At, Typed, isValidChannelNumber
  <2>2. Free(slot[u]) /\ Deleted(u)
    BY <2>1 DEF deleteChannel
  <2> QED BY <2>2 DEF Deleted
<1>6. chan[slot[u]].status \in {"closed", "failedToCreate"}
  BY <1>3, <1>4 DEF At
<1>7. UNCHANGED <<mainQ, made, broken, asked, asks>> /\ UNCHANGED netVars
  BY DEF deleteChannel
<1> QED BY <1>1, <1>5, <1>6, <1>7, Frees

-----------------------------------------------------------------------------
(* Placeholders: the channels the server may open, or has opened. *)

NewPlaceholder(y) ==
    /\ y \in Channel /\ y.placeholder /\ y.closeSent /\ y.closeRecvd /\ y.data = <<>>
    /\ y.inc = made + 1

MadePlaceholder(y, s, n, b) ==
    y = [inc |-> made + 1, type |-> "forwarded_tcpip", status |-> s, result |-> "pending",
         answered |-> 0, closeSent |-> TRUE, closeRecvd |-> TRUE,
         placeholder |-> TRUE, address |-> b, remote |-> n, eof |-> FALSE,
         data |-> <<>>, told |-> FALSE]
LEMMA NewForwarded ==
    ASSUME made \in Nat, NEW s, s \in {"unknown", "open"}, NEW n \in Numbers, NEW b \in BOOLEAN,
           NEW y, MadePlaceholder(y, s, n, b)
    PROVE  NewPlaceholder(y) /\ y \in Objects /\ y \notin Regular /\ y.inc = made + 1
<1>1. made + 1 \in Nat \ {0} /\ <<>> \in Seq(BOOLEAN) /\ TRUE \in BOOLEAN /\ FALSE \in BOOLEAN
  OBVIOUS
<1>2. "forwarded_tcpip" \in Types /\ s \in Statuses /\ "pending" \in Results /\ 0 \in Nat
  BY DEF Types, Statuses, Results
<1>3. y \in Channel
  BY <1>1, <1>2 DEF Channel, MadePlaceholder
<1>4. NewPlaceholder(y) /\ y.placeholder
  BY <1>3 DEF NewPlaceholder, MadePlaceholder
<1>5. y \notin Regular /\ y.inc = made + 1
  BY <1>4 DEF Regular, NewPlaceholder
<1> QED BY <1>3, <1>4, <1>5 DEF Objects

LEMMA StandsPlaceholder ==
    ASSUME NEW up \in BOOLEAN, NEW M, NEW o, NEW f, NEW S, NEW d \in BOOLEAN,
           Stands(up, NoChannel, M, o, f, S, d), NEW y, NewPlaceholder(y)
    PROVE  Stands(up, y, M, o, f, S, d)
<1>1. y \in Channel /\ y \notin Regular
  BY DEF NewPlaceholder, Regular
<1>2. Lasts(y, d)
  BY <1>1 DEF NewPlaceholder, Lasts
<1>3. up => LinkOf(NoChannel, M, o, f, S, d)
  BY DEF Stands
<1>4. up => LinkOf(y, M, o, f, S, d)
  BY <1>1, <1>3, LinkPlaceholder
<1> QED BY <1>2, <1>4 DEF Stands

LEMMA ForwardsAsked ==
    ASSUME ChannelsInv, NEW u \in Users, requestRemotePortFowarding(u)
    PROVE  ChannelsInv'
<1>s. Shape /\ UserInv
  BY DEF ChannelsInv
<1>1. CASE FreeSlots = {}
  BY <1>1, OnlyBroken DEF requestRemotePortFowarding, TableFull
<1>2. CASE FreeSlots # {}
  <2>1. PICK c \in Slots : c = Min(FreeSlots) /\ chan[c] = NoChannel
    BY <1>2, FirstFree
  <2>2. PICK x : x = setForwardedTcpIpData(NewObject("forwarded_tcpip"))
    OBVIOUS
  <2>3. PICK m : m = MainMessage("forward", NoSlot, 0, NoSlot)
    OBVIOUS
  <2>t. made \in Nat /\ mainQ \in Seq(Msg)
    BY <1>s, StateTypes
  <2>4. NewPlaceholder(x) /\ x \in Objects /\ x \notin Regular /\ x.inc = made + 1
    <3>1. MadePlaceholder(x, "unknown", NoSlot, TRUE)
      BY <2>2 DEF setForwardedTcpIpData, NewObject, MadePlaceholder
    <3> QED BY <2>t, <3>1, NewForwarded DEF Numbers
  <2>5. m \in Msg /\ m \in MainMsg /\ m.c = NoSlot /\ m.inc = 0 /\ NoSlot \notin Slots
    <3>1. NoSlot \notin Slots
      BY ChannelsAssumption DEF NoSlot, Slots
    <3>2. m \in Msg
      BY <2>3 DEF MainMessage, Msg, MainKinds, Numbers
    <3> QED BY <2>3, <3>1, <3>2 DEF MainMessage, MainMsg, MainKinds
  <2>6. /\ pc[u] = "idle" /\ slot[u] = NoSlot /\ made < MaxMade
        /\ chan' = [chan EXCEPT ![c] = x] /\ made' = made + 1
        /\ mainQ' = Append(mainQ, m) /\ pc' = [pc EXCEPT ![u] = "global"]
        /\ UNCHANGED <<outQ, broken, api, slot, reads, asked, asks>> /\ UNCHANGED netVars
    BY <1>2, <2>1, <2>2, <2>3 DEF requestRemotePortFowarding, newChannel, Goto
  <2>7. ~Disconnecting /\ api[u] # "disconnect"
    BY <1>s, <2>6, InCallAt DEF Leaving, Asleep
  <2>8. Shape'
    <3>1. TableShape'
      BY <1>s, <2>4, <2>5, <2>6, ChannelsAssumption DEF Shape, TableShape
    <3>2. UserShape'
      BY <1>s, <2>6 DEF Shape, UserShape, Using
    <3>3. NetShape'
      BY <1>s, <2>6 DEF Shape, NetShape, netVars
    <3> QED BY <3>1, <3>2, <3>3 DEF Shape
  <2>9. chan'[c] = x /\ \A d \in Slots \ {c} : chan'[d] = chan[d]
    BY <1>s, <2>6 DEF Shape, TableShape
  <2>10. Appends(mainQ', mainQ, m)
    BY <2>t, <2>5, <2>6 DEF Appends
  <2>11. \A d \in Slots : Main(d)' = Main(d)
    <3>1. \A d \in Slots : View(mainQ', d) = View(mainQ, d)
      BY <2>5, <2>10, ViewAppended
    <3> QED BY <3>1 DEF Main
  <2>12. Renumbered(c)
    BY <2>4, <2>6, <2>9 DEF Renumbered
  <2>13. Mostly(u, c)
    BY <1>s, <2>6, <2>9, <2>11, <2>12 DEF Mostly, Stays, Shape, UserShape
  <2>14. Confirming'
    <3>1. Sits(m.inc, m.c)'
      BY <2>5, <2>6, <2>t DEF Sits
    <3> QED BY <2>t, <2>5, <2>6, <2>12, <3>1, ConfirmingKept DEF ChannelsInv, NumberInv
  <2>15. pc'[u] = "global" /\ api'[u] # "disconnect" /\ slot'[u] = NoSlot
    BY <1>s, <2>6, <2>7 DEF Shape, UserShape
  <2>16. Stands(alive, chan[c], Main(c), outQ[c], In(c), Recs(c), FALSE)'
    <3>1. PICK up, M, o, f, S : /\ up = alive /\ M = Main(c) /\ o = outQ[c] /\ f = In(c)
                                /\ S = Recs(c) /\ up \in BOOLEAN
      BY <1>s, StateTypes
    <3>2. Stands(up, NoChannel, M, o, f, S, FALSE)
      <4>1. SlotOf(c) /\ Disconnecting = FALSE
        BY <2>7 DEF ChannelsInv, TableInv, Disconnecting
      <4> QED BY <2>1, <3>1, <4>1 DEF SlotOf
    <3>3. Stands(up, x, M, o, f, S, FALSE)
      BY <2>4, <3>1, <3>2, StandsPlaceholder
    <3>4. outQ'[c] = o /\ In(c)' = f /\ Recs(c)' = S /\ alive' = up
      BY <2>6, <3>1 DEF netVars, In, Recs
    <3> QED BY <2>9, <2>11, <3>1, <3>3, <3>4
  <2>17. chan'[c] \notin Regular /\ pc'[u] \in {"idle", "global"}
    BY <2>4, <2>9, <2>15
  <2> QED BY <2>1, <2>6, <2>7, <2>8, <2>13, <2>14, <2>15, <2>16, <2>17, OwnLeft DEF ChannelsInv
<1> QED BY <1>1, <1>2

-----------------------------------------------------------------------------
(* disconnect, and the end of the connection. *)

LEMMA Disconnects ==
    ASSUME ChannelsInv, NEW u \in Users, disconnect(u)
    PROVE  ChannelsInv'
<1>s. Shape /\ UserInv /\ TableInv
  BY DEF ChannelsInv
<1>0. \A v \in Users : pc[v] \notin Asleep \cup {"creating"}
  BY DEF disconnect, Blocked, Asleep
<1>1. ~Disconnecting /\ Working
  <2>1. pc[u] \notin Leaving
    BY DEF disconnect, Leaving, Asleep
  <2> QED BY <1>s, <2>1, InCallAt DEF UserInv
<1>2. /\ api'[u] = "disconnect" /\ slot'[u] = 0
      /\ pc'[u] = IF alive THEN "visit" ELSE "visitLost"
      /\ \A v \in Users \ {u} : api'[v] = "none" /\ slot'[v] = NoSlot /\ pc'[v] = "gone"
  BY DEF disconnect
<1>3. Disconnecting' = TRUE
  BY <1>2 DEF Disconnecting
<1>4. UNCHANGED tableVars /\ UNCHANGED netVars /\ asks' = asks
  BY DEF disconnect
<1>5. Shape'
  <2>1. UserShape'
    <3>1. "gone" \in Leaving /\ "visit" \in Leaving /\ "visitLost" \in Leaving
      BY DEF Leaving
    <3>2. "none" \in Calls /\ "disconnect" \in Calls
      BY DEF Calls
    <3>3. 0 \in Slots
      BY ChannelsAssumption DEF Slots
    <3>4. pc' \in [Users -> Using \cup Leaving]
      BY <3>1 DEF disconnect
    <3>5. api' \in [Users -> Calls] /\ slot' \in [Users -> Slots \cup {NoSlot, MaxChannels}]
      BY <3>2, <3>3 DEF disconnect
    <3>6. asked' \in [Users -> Nat] /\ reads' \in [Users -> 0 .. 2]
      BY DEF disconnect
    <3> QED BY <1>s, <1>4, <3>4, <3>5, <3>6 DEF Shape, UserShape
  <2> QED BY <1>s, <1>4, <2>1 DEF Shape, TableShape, NetShape, tableVars, netVars
<1>6. NumberInv'
  BY <1>4 DEF ChannelsInv, NumberInv, Objected, Recorded, Confirming, Sits, tableVars, netVars
<1>7. ASSUME NEW c \in Slots
      PROVE  SlotOf(c)' /\ Sent(c)'
  <2>1. PICK up, x, M, o, f, S : /\ up = alive /\ x = chan[c] /\ M = Main(c) /\ o = outQ[c]
                                 /\ f = In(c) /\ S = Recs(c)
    OBVIOUS
  <2>2. Stands(up, x, M, o, f, S, FALSE)
    <3>1. SlotOf(c) /\ Disconnecting = FALSE
      BY <1>s, <1>1 DEF TableInv, Disconnecting
    <3> QED BY <2>1, <3>1 DEF SlotOf
  <2>3. x \in Regular => x.status \in Used
    <3>1. ASSUME NEW v \in Users, slot[v] = c
          PROVE  x.status \in Used
      <4>1. c # NoSlot
        BY ChannelsAssumption DEF Slots, NoSlot
      <4>2. Held(pc[v], api[v], asked[v], x)
        BY <1>1, <2>1, <3>1, <4>1 DEF Working, UserOf, Works
      <4> QED BY <1>0, <4>2 DEF Held
    <3>2. x \in Regular /\ x.told => x.status \in Used
      BY <2>2 DEF Stands, Lasts, Used
    <3> QED BY <1>1, <2>1, <3>1, <3>2 DEF Working, Alone
  <2>4. Lasts(x, TRUE)
    BY <2>2, <2>3 DEF Stands, Lasts
  <2>5. up => LinkOf(x, M, o, f, S, TRUE)
    BY <2>2, LinkLeaving DEF Stands
  <2>6. /\ alive' = up /\ chan'[c] = x /\ Main(c)' = M /\ outQ'[c] = o /\ In(c)' = f
        /\ Recs(c)' = S
    BY <1>4, <2>1 DEF tableVars, netVars, Main, In, Recs
  <2>7. SlotOf(c)'
    BY <1>3, <2>4, <2>5, <2>6 DEF SlotOf, Stands
  <2>8. ~(x \in Regular /\ x.closeSent)
    BY <1>s, <1>0, <2>1 DEF TableInv, Sent
  <2> QED BY <2>6, <2>7, <2>8 DEF Sent
<1>8. UserInv'
  <2>1. Leaves(u)'
    <3>1. Visits(pc[u], slot[u])'
      <4>1. alive' = alive /\ 0 \in 0 .. MaxChannels
        BY <1>4, ChannelsAssumption DEF netVars
      <4> QED BY <1>2, <4>1 DEF Visits, Leaving, Asleep
    <3> QED BY <1>2, <3>1 DEF Leaves
  <2> QED BY <1>2, <1>3, <2>1 DEF UserInv, Departing
<1>9. OpeningInv'
  <2>1. ASSUME NEW d
        PROVE  In(d)' = In(d) /\ Main(d)' = Main(d) /\ Recs(d)' = Recs(d)
    BY <1>4 DEF tableVars, netVars, In, Main, Recs
  <2> QED BY <1>1, <1>3, <1>4, <2>1 DEF ChannelsInv, OpeningInv, tableVars, netVars
<1> QED BY <1>5, <1>6, <1>7, <1>8, <1>9 DEF ChannelsInv, TableInv

\* Whoever is where only disconnect leads disconnects.
LEMMA OnlyLeaving ==
    ASSUME ChannelsInv, NEW u \in Users,
           pc[u] \in {"visit", "visitLost", "deleteAgain", "deleteLost", "deleteAsleep"}
    PROVE  api[u] = "disconnect" /\ pc[u] # "deleteAsleep"
<1>1. pc[u] \notin Using
  BY DEF Using, Asking, Asleep
<1>2. Disconnecting
  <2>1. Working => pc[u] \in Using
    BY DEF Working, UserOf, Works, Held, Using
  <2> QED BY <1>1, <2>1 DEF ChannelsInv, UserInv
<1>3. PICK w \in Users : api[w] = "disconnect"
  BY <1>2 DEF Disconnecting
<1>4. Leaves(w)
  BY <1>3 DEF ChannelsInv, UserInv, Departing
<1>5. w = u
  BY <1>4 DEF Leaves
<1>6. pc[u] \in Leaving
  BY <1>4, <1>5 DEF Leaves, Visits
<1> QED BY <1>3, <1>5, <1>6 DEF Leaving, Asleep

\* The connection is up no longer.
LEMMA Over ==
    ASSUME ChannelsInv, alive' = FALSE, opening' = NotOpening, UNCHANGED tableVars,
           UNCHANGED <<api, slot, asked>>, Shape', server' \subseteq server,
           \/ pc' = pc
           \/ \E u \in Users : /\ api[u] = "disconnect" /\ pc[u] \in {"visit", "visitLost"}
                               /\ pc' = [pc EXCEPT ![u] = "gone"]
    PROVE  ChannelsInv'
<1>0. Disconnecting' = Disconnecting
  BY DEF Disconnecting
<1>p. pc \in [Users -> Using \cup Leaving] /\ \A v \in Users : pc[v] \in Asleep => pc'[v] = pc[v]
  <2>1. pc \in [Users -> Using \cup Leaving]
    BY DEF ChannelsInv, Shape, UserShape
  <2> QED BY <2>1 DEF Asleep
<1>1. NumberInv'
  <2>1. Objected' /\ Confirming'
    BY DEF ChannelsInv, NumberInv, Objected, Confirming, Sits, tableVars
  <2>2. Recorded'
    BY DEF ChannelsInv, NumberInv, Recorded, Sits, tableVars, Own
  <2> QED BY <2>1, <2>2 DEF NumberInv
<1>2. TableInv'
  <2>1. ASSUME NEW c \in Slots
        PROVE  SlotOf(c)'
    <3>1. Lasts(chan[c], Disconnecting)
      BY DEF ChannelsInv, TableInv, SlotOf, Stands
    <3>2. Lasts(chan'[c], Disconnecting')
      BY <1>0, <3>1 DEF tableVars
    <3> QED BY <3>2 DEF SlotOf, Stands
  <2>2. ASSUME NEW c \in Slots
        PROVE  Sent(c)'
    <3>1. Sent(c)
      BY DEF ChannelsInv, TableInv
    <3> QED BY <1>p, <3>1 DEF Sent, tableVars
  <2> QED BY <2>1, <2>2 DEF TableInv
<1>3. UserInv'
  <2>1. CASE Disconnecting
    <3>1. PICK w \in Users : api[w] = "disconnect" /\ Leaves(w)
      BY <2>1 DEF Disconnecting, ChannelsInv, UserInv, Departing
    <3>2. ASSUME NEW v \in Users, api'[v] = "disconnect"
          PROVE  Leaves(v)'
      <4>1. v = w /\ Leaves(v)
        BY <3>1, <3>2 DEF Leaves
      <4>2. \A y \in Users \ {v} : pc'[y] = pc[y]
        <5>1. ASSUME NEW u \in Users, api[u] = "disconnect"
              PROVE  u = v
          BY <3>1, <4>1, <5>1 DEF Leaves
        <5> QED BY <1>p, <5>1
      <4>3. Visits(pc[v], slot[v])'
        <5>1. Visits(pc[v], slot[v])
          BY <4>1 DEF Leaves
        <5>2. pc'[v] = pc[v] \/ pc'[v] = "gone"
          BY <1>p
        <5>3. CASE pc'[v] = pc[v]
          BY <5>1, <5>3 DEF Visits, tableVars
        <5>4. CASE pc'[v] = "gone"
          BY <5>4 DEF Visits, Leaving, Asleep
        <5> QED BY <5>2, <5>3, <5>4
      <4> QED BY <4>1, <4>2, <4>3 DEF Leaves
    <3> QED BY <1>0, <2>1, <3>2 DEF UserInv, Departing
  <2>2. CASE ~Disconnecting
    <3>1. pc' = pc
      BY <2>2 DEF Disconnecting
    <3>2. ASSUME NEW v \in Users
          PROVE  UserOf(v)'
      <4>1. UserOf(v)
        BY <2>2 DEF ChannelsInv, UserInv, Working
      <4> QED BY <3>1, <4>1 DEF UserOf, Works, tableVars
    <3>3. Alone'
      BY <2>2 DEF ChannelsInv, UserInv, Working, Alone, tableVars
    <3>4. Departing'
      BY <1>0, <2>2 DEF Departing, Disconnecting
    <3> QED BY <3>2, <3>3, <3>4 DEF UserInv, Working
  <2> QED BY <2>1, <2>2
<1>4. OpeningInv'
  BY DEF OpeningInv
<1> QED BY <1>1, <1>2, <1>3, <1>4 DEF ChannelsInv

LEMMA Ends ==
    ASSUME ChannelsInv, NEW u \in Users, DisconnectEnds(u)
    PROVE  ChannelsInv'
<1>1. api[u] = "disconnect"
  BY OnlyLeaving DEF DisconnectEnds
<1>2. Shape'
  BY DEF ChannelsInv, Shape, TableShape, UserShape, NetShape, DisconnectEnds, Goto, tableVars,
         Leaving
<1> QED BY <1>1, <1>2, Over DEF DisconnectEnds, Goto

LEMMA Loses ==
    ASSUME ChannelsInv, ConnectionLost
    PROVE  ChannelsInv'
<1>1. Shape'
  <2>1. <<>> \in Seq(InMsg) /\ {} \in SUBSET Records
    OBVIOUS
  <2> QED BY <2>1
        DEF ChannelsInv, Shape, TableShape, UserShape, NetShape, ConnectionLost, tableVars,
            userVars
<1> QED BY <1>1, Over DEF ConnectionLost, userVars

-----------------------------------------------------------------------------
(* What disconnect does with the channels that are left. *)

\* The user that disconnects is at q, at a slot with y.
VisitsAs(up, q, y) ==
    /\ q \in Leaving \ {"gone"} /\ (q \in {"visitLost", "deleteLost"} => ~up)
    /\ (q = "closeQueue" => y \in Regular)
    /\ (q \in Asleep => y \in Regular /\ y.closeSent)
    /\ (q = "closeAsleep" => y.status = "open") /\ (q = "delete" => y.status = "closed")
    /\ (q = "deleteAgain" /\ y \in Regular => y.status = "closed")
\* It stays at the slot c, or goes on to the next one.
Proceeds(up, q, y, c, s) ==
    \/ s = c /\ VisitsAs(up, q, y)
    \/ s = c + 1 /\ q \in {"visit", "visitLost"} /\ (q = "visitLost" => ~up)

LEMMA LeavingStep ==
    ASSUME ChannelsInv, NEW u \in Users, api[u] = "disconnect", NEW c \in Slots, slot[u] = c,
           Mostly(u, c), api'[u] = "disconnect", Confirming', SlotOf(c)', Sent(c)',
           Visits(pc[u], slot[u])', chan'[c] \in Regular => chan[c] \in Regular
    PROVE  NumberInv' /\ TableInv' /\ UserInv' /\ OpeningInv'
<1>0. Disconnecting /\ Disconnecting' /\ Disconnecting' = Disconnecting /\ alive' = alive
  BY DEF Disconnecting, Mostly, netVars
<1>1. \A v \in Users \ {u} : slot[v] = NoSlot /\ pc[v] = "gone" /\ api[v] # "disconnect"
  BY DEF ChannelsInv, UserInv, Departing, Leaves
<1>2. c # NoSlot
  BY ChannelsAssumption DEF Slots, NoSlot
<1>3. \A d \in Slots \ {c} : Unmoved(d)
  <2>1. ASSUME NEW d
        PROVE  In(d)' = In(d) /\ Recs(d)' = Recs(d)
    BY DEF Mostly, netVars, In, Recs
  <2> QED BY <2>1 DEF Mostly, Unmoved
<1>4. PICK W \in SUBSET Users : W = {u}
  OBVIOUS
<1>5. Elsewhere(c, W)
  BY <1>0, <1>1, <1>2, <1>3, <1>4 DEF Elsewhere, Mostly
<1>6. Departing'
  <2>1. Leaves(u)'
    BY <1>1 DEF Leaves, Mostly, Stays
  <2>2. \A v \in Users \ {u} : api'[v] # "disconnect"
    BY <1>1 DEF Mostly, Stays
  <2> QED BY <2>1, <2>2 DEF Departing
<1>7. TableInv' /\ UserInv'
  BY <1>0, <1>5, <1>6, SlotStep DEF ChannelsInv
<1>8. made \in Nat /\ (\A d \in Slots : chan[d].inc \in Nat) /\ server \in SUBSET Records
  BY ChannelsAssumption, ObjectIs DEF ChannelsInv, Shape, TableShape, NetShape
<1>9. NumberInv'
  <2>1. Objected'
    BY <1>8, ObjectedKept DEF ChannelsInv, NumberInv, Mostly
  <2>2. Recorded'
    BY <1>8, RecordedKept DEF ChannelsInv, NumberInv, Mostly, netVars
  <2> QED BY <2>1, <2>2 DEF NumberInv
<1>10. OpeningInv'
  <2>1. opening # NotOpening /\ opening.at = "notify" /\ opening.c = c => chan'[c] \notin Regular
    BY DEF ChannelsInv, OpeningInv
  <2>2. opening' = opening /\ fromServer' = fromServer
    BY DEF Mostly, netVars
  <2> QED BY <1>0, <1>3, <2>1, <2>2, OpeningKept DEF ChannelsInv
<1> QED BY <1>7, <1>9, <1>10

LEMMA LeavingMoves ==
    ASSUME ChannelsInv, NEW u \in Users, api[u] = "disconnect", NEW c \in Slots, slot[u] = c,
           NEW y \in Objects, y.inc \in {chan[c].inc, 0}, y \in Regular => chan[c] \in Regular,
           NEW t \in Seq(OutMsg(c)), NEW q, NEW s, Proceeds(alive, q, y, c, s),
           NEW k \in Nat, Moves(u, c, y, t, q, "disconnect", k), slot' = [slot EXCEPT ![u] = s],
           Stands(alive, y, Main(c), t, In(c), Recs(c), TRUE),
           y \in Regular /\ y.closeSent => s = c /\ q \in Asleep
    PROVE  ChannelsInv'
<1>1. q \in Using \cup Leaving /\ "disconnect" \in Calls /\ q # "gone"
  BY DEF Proceeds, VisitsAs, Leaving, Asleep, Calls
<1>2. s \in 0 .. MaxChannels /\ s \in Slots \cup {NoSlot, MaxChannels} /\ (s = c => s \in Slots)
  BY ChannelsAssumption DEF Proceeds, Slots
<1>3. /\ slot' \in [Users -> Slots \cup {NoSlot, MaxChannels}] /\ slot'[u] = s
      /\ \A v \in Users \ {u} : slot'[v] = slot[v]
  BY <1>2 DEF ChannelsInv, Shape, UserShape
<1>4. Shape'
  BY <1>1, <1>3, MovesShape
<1>5. /\ Mostly(u, c) /\ Confirming'
      /\ chan'[c] = y /\ outQ'[c] = t /\ pc'[u] = q /\ api'[u] = "disconnect" /\ asked'[u] = k
      /\ Main(c)' = Main(c) /\ In(c)' = In(c) /\ Recs(c)' = Recs(c) /\ alive' = alive
  BY <1>3, MovesMostly
<1>6. SlotOf(c)'
  <2>1. Disconnecting' = TRUE
    BY <1>5 DEF Disconnecting
  <2> QED BY <1>5, <2>1 DEF SlotOf
<1>7. Sent(c)'
  BY <1>3, <1>5 DEF Sent
<1>8. Visits(pc[u], slot[u])'
  <2>1. CASE s = c /\ VisitsAs(alive, q, y)
    BY <1>1, <1>2, <1>3, <1>5, <2>1 DEF Visits, VisitsAs
  <2>2. CASE q \in {"visit", "visitLost"} /\ (q = "visitLost" => ~alive)
    BY <1>2, <1>3, <1>5, <2>2 DEF Visits, Leaving, Asleep
  <2> QED BY <2>1, <2>2 DEF Proceeds
<1>9. NumberInv' /\ TableInv' /\ UserInv' /\ OpeningInv'
  BY <1>5, <1>6, <1>7, <1>8, LeavingStep
<1> QED BY <1>4, <1>9 DEF ChannelsInv

\* Where disconnect is.
Visiting(c, up, n, x, M, o, f, S) ==
    /\ c \in Slots /\ up \in BOOLEAN /\ n \in Nat /\ x \in Objects
    /\ M \in Seq(Msg) /\ o \in Seq(Msg) /\ o \in Seq(OutMsg(c)) /\ f \in Seq(Msg)
    /\ S \in SUBSET Records
    /\ x \in Regular => x.status \in Used
Leaver(u, c, up, p, a, n, x, M, o, f, S) ==
    /\ At(u, c, up, p, a, n, x, M, o, f, S) /\ Visiting(c, up, n, x, M, o, f, S)
    /\ Entries(u, c, a, n, x, o) /\ Stands(up, x, M, o, f, S, TRUE)
    /\ p \notin {"visit", "visitLost"} => VisitsAs(up, p, x)
    /\ p = "visitLost" => ~up
    /\ p \notin Asleep => ~(x \in Regular /\ x.closeSent)
    /\ slot = [slot EXCEPT ![u] = c]
LEMMA LeaverAt ==
    ASSUME ChannelsInv, NEW u \in Users, api[u] = "disconnect", pc[u] # "gone",
           pc[u] \in {"visit", "visitLost"} => slot[u] < MaxChannels
    PROVE  \E c, up, p, a, n, x, M, o, f, S : Leaver(u, c, up, p, a, n, x, M, o, f, S)
<1>1. Visits(pc[u], slot[u]) /\ \A v \in Users \ {u} : slot[v] = NoSlot
  BY DEF ChannelsInv, UserInv, Departing, Leaves
<1>2. PICK c : c = slot[u] /\ c \in Slots
  BY <1>1, ChannelsAssumption DEF Visits, Slots
<1>3. PICK up, p, a, n, x, M, o, f, S : At(u, c, up, p, a, n, x, M, o, f, S)
  BY <1>2 DEF At
<1>4. /\ M \in Seq(Msg) /\ o \in Seq(Msg) /\ f \in Seq(Msg) /\ S \in SUBSET Records
      /\ up \in BOOLEAN /\ x \in Objects
  BY <1>2, <1>3, StateTypes DEF At, ChannelsInv
<1>5. o \in Seq(OutMsg(c)) /\ n \in Nat
  BY <1>2, <1>3 DEF At, ChannelsInv, Shape, TableShape, UserShape
<1>6. Stands(up, x, M, o, f, S, TRUE)
  <2>1. SlotOf(c) /\ Disconnecting = TRUE
    BY <1>2 DEF ChannelsInv, TableInv, Disconnecting
  <2> QED BY <1>3, <2>1 DEF SlotOf, At
<1>7. Visiting(c, up, n, x, M, o, f, S)
  BY <1>2, <1>4, <1>5, <1>6 DEF Visiting, Stands, Lasts
<1>8. Entries(u, c, a, n, x, o) /\ slot = [slot EXCEPT ![u] = c]
  BY <1>2, <1>3 DEF At, Entries, ChannelsInv, Shape, TableShape, UserShape
<1>9. (p \notin {"visit", "visitLost"} => VisitsAs(up, p, x)) /\ (p = "visitLost" => ~up)
  BY <1>1, <1>3 DEF At, Visits, VisitsAs
<1>10. p \notin Asleep => ~(x \in Regular /\ x.closeSent)
  <2>1. Sent(c) /\ c # NoSlot
    BY <1>2, ChannelsAssumption DEF ChannelsInv, TableInv, Slots, NoSlot
  <2> QED BY <1>1, <1>3, <2>1 DEF At, Sent
<1> QED BY <1>3, <1>6, <1>7, <1>8, <1>9, <1>10 DEF Leaver

\* disconnect goes on, without a change of the channel.
LEMMA LeaverGoes ==
    ASSUME ChannelsInv, NEW u \in Users, api[u] = "disconnect", pc[u] # "gone",
           NEW c, NEW up, NEW p, NEW a, NEW n, NEW x, NEW M, NEW o, NEW f, NEW S,
           Leaver(u, c, up, p, a, n, x, M, o, f, S),
           NEW q, NEW s, Proceeds(up, q, x, c, s), pc' = [pc EXCEPT ![u] = q],
           slot' = [slot EXCEPT ![u] = s],
           UNCHANGED tableVars, UNCHANGED netVars, UNCHANGED <<api, reads, asked, asks>>,
           x \in Regular /\ x.closeSent => s = c /\ q \in Asleep
    PROVE  ChannelsInv'
<1>1. Moves(u, c, x, o, q, "disconnect", n)
  BY DEF Moves, At, Entries, tableVars, Leaver
<1>2. /\ slot[u] = c /\ c \in Slots /\ x \in Objects /\ x.inc \in {chan[c].inc, 0}
      /\ (x \in Regular => chan[c] \in Regular) /\ o \in Seq(OutMsg(c)) /\ n \in Nat
      /\ Proceeds(alive, q, x, c, s) /\ Stands(alive, x, Main(c), o, In(c), Recs(c), TRUE)
  BY DEF At, Visiting, Leaver
<1> QED BY <1>1, <1>2, LeavingMoves

LEMMA LeaverVisits ==
    ASSUME ChannelsInv, NEW u \in Users, DisconnectVisit(u)
    PROVE  ChannelsInv'
<1>1. pc[u] \in {"visit", "visitLost"} /\ slot[u] < MaxChannels /\ api[u] = "disconnect"
  BY OnlyLeaving DEF DisconnectVisit
<1>2. PICK c, up, p, a, n, x, M, o, f, S : Leaver(u, c, up, p, a, n, x, M, o, f, S)
  BY <1>1, LeaverAt
<1>i. /\ At(u, c, up, p, a, n, x, M, o, f, S) /\ Visiting(c, up, n, x, M, o, f, S)
      /\ Entries(u, c, a, n, x, o) /\ Stands(up, x, M, o, f, S, TRUE)
      /\ (p \notin {"visit", "visitLost"} => VisitsAs(up, p, x)) /\ (p = "visitLost" => ~up)
      /\ (p \notin Asleep => ~(x \in Regular /\ x.closeSent))
      /\ slot = [slot EXCEPT ![u] = c]
  BY <1>2 DEF Leaver
<1>3. ~(x \in Regular /\ x.closeSent)
  BY <1>1, <1>i DEF At, Asleep
<1>4. UNCHANGED tableVars /\ UNCHANGED netVars /\ UNCHANGED <<api, reads, asked, asks>>
  BY DEF DisconnectVisit
<1>5. PICK q, s : /\ pc' = [pc EXCEPT ![u] = q] /\ slot' = [slot EXCEPT ![u] = s]
                  /\ Proceeds(up, q, x, c, s)
  <2>1. CASE isValidChannelNumber(slot[u])
    <3>1. PICK q : q = IF p = "visit" THEN "close" ELSE "deleteLost"
      OBVIOUS
    <3>2. pc' = [pc EXCEPT ![u] = q] /\ slot' = [slot EXCEPT ![u] = c]
      BY <1>i, <2>1, <3>1 DEF DisconnectVisit, Goto, At
    <3>3. Proceeds(up, q, x, c, c)
      BY <1>1, <1>i, <3>1 DEF Proceeds, VisitsAs, Leaving, Asleep, At
    <3> QED BY <3>2, <3>3
  <2>2. CASE ~isValidChannelNumber(slot[u])
    <3>1. pc' = [pc EXCEPT ![u] = p] /\ slot' = [slot EXCEPT ![u] = c + 1]
      <4>1. pc = [pc EXCEPT ![u] = p]
        BY <1>i DEF At, ChannelsInv, Shape, UserShape
      <4> QED BY <1>i, <2>2, <4>1 DEF DisconnectVisit, At
    <3>2. PICK s : s = c + 1
      OBVIOUS
    <3>3. Proceeds(up, p, x, c, s)
      BY <1>1, <1>i, <3>2 DEF Proceeds, At
    <3> QED BY <3>1, <3>2, <3>3
  <2> QED BY <2>1, <2>2
<1>6. pc[u] # "gone"
  BY <1>1
<1> QED BY <1>1, <1>2, <1>3, <1>4, <1>5, <1>6, LeaverGoes

LEMMA LeaverCloses ==
    ASSUME ChannelsInv, NEW u \in Users, api[u] = "disconnect", CloseLook(u)
    PROVE  ChannelsInv'
<1>1. pc[u] = "close"
  BY DEF CloseLook
<1>2. PICK c, up, p, a, n, x, M, o, f, S : Leaver(u, c, up, p, a, n, x, M, o, f, S)
  BY <1>1, LeaverAt
<1>i. /\ At(u, c, up, p, a, n, x, M, o, f, S) /\ Visiting(c, up, n, x, M, o, f, S)
      /\ Entries(u, c, a, n, x, o) /\ Stands(up, x, M, o, f, S, TRUE)
      /\ (p \notin {"visit", "visitLost"} => VisitsAs(up, p, x)) /\ (p = "visitLost" => ~up)
      /\ (p \notin Asleep => ~(x \in Regular /\ x.closeSent))
      /\ slot = [slot EXCEPT ![u] = c]
  BY <1>2 DEF Leaver
<1>3. ~(x \in Regular /\ x.closeSent)
  BY <1>1, <1>i DEF At, Asleep
<1>4. PICK q : /\ pc' = [pc EXCEPT ![u] = q] /\ UNCHANGED <<api, slot, reads, chan>>
               /\ Proceeds(up, q, x, c, c)
  <2>1. CASE isValidChannelNumber(c) /\ x.status = "open" /\ ~x.closeSent
    <3>1. pc' = [pc EXCEPT ![u] = "closeQueue"] /\ UNCHANGED <<api, slot, reads, chan>>
      BY <1>i, <2>1 DEF CloseLook, Goto, At
    <3>2. x \in Regular
      <4>1. x \in Channel /\ Lasts(x, TRUE)
        BY <1>i, <2>1, ObjectIs DEF isValidChannelNumber, At, Visiting, Stands
      <4> QED BY <2>1, <4>1 DEF Lasts, Regular, Channel
    <3>3. Proceeds(up, "closeQueue", x, c, c)
      BY <3>2 DEF Proceeds, VisitsAs, Leaving, Asleep
    <3> QED BY <3>1, <3>3
  <2>2. CASE ~(isValidChannelNumber(c) /\ x.status = "open" /\ ~x.closeSent)
    <3>1. pc' = [pc EXCEPT ![u] = "deleteAgain"] /\ UNCHANGED <<api, slot, reads, chan>>
      BY <1>i, <2>2 DEF CloseLook, Goto, At
    <3>2. x \in Regular => x.status = "closed"
      <4>1. x \in Regular => isValidChannelNumber(c)
        BY <1>i, ObjectIs DEF isValidChannelNumber, At, Visiting
      <4> QED BY <1>i, <1>3, <2>2, <4>1 DEF Visiting, Used
    <3>3. Proceeds(up, "deleteAgain", x, c, c)
      BY <3>2 DEF Proceeds, VisitsAs, Leaving, Asleep
    <3> QED BY <3>1, <3>3
  <2> QED BY <2>1, <2>2
<1>5. /\ UNCHANGED tableVars /\ UNCHANGED netVars /\ UNCHANGED <<api, reads, asked, asks>>
      /\ slot' = [slot EXCEPT ![u] = c] /\ pc[u] # "gone"
  BY <1>1, <1>i, <1>4 DEF CloseLook, tableVars
<1>6. PICK s : s = c
  OBVIOUS
<1>7. Proceeds(up, q, x, c, s) /\ slot' = [slot EXCEPT ![u] = s] /\ pc' = [pc EXCEPT ![u] = q]
  BY <1>4, <1>5, <1>6
<1>8. UNCHANGED tableVars /\ UNCHANGED netVars /\ UNCHANGED <<api, reads, asked, asks>>
  BY <1>5
<1>9. pc[u] # "gone"
  BY <1>1
<1> QED BY <1>2, <1>3, <1>7, <1>8, <1>9, LeaverGoes

LEMMA LeaverWaits ==
    ASSUME ChannelsInv, NEW u \in Users, api[u] = "disconnect", waitForChannelClose(u)
    PROVE  ChannelsInv'
<1>1. pc[u] = "closeWait"
  BY DEF waitForChannelClose
<1>2. PICK c, up, p, a, n, x, M, o, f, S : Leaver(u, c, up, p, a, n, x, M, o, f, S)
  BY <1>1, LeaverAt
<1>i. /\ At(u, c, up, p, a, n, x, M, o, f, S) /\ Visiting(c, up, n, x, M, o, f, S)
      /\ Entries(u, c, a, n, x, o) /\ Stands(up, x, M, o, f, S, TRUE)
      /\ (p \notin {"visit", "visitLost"} => VisitsAs(up, p, x)) /\ (p = "visitLost" => ~up)
      /\ (p \notin Asleep => ~(x \in Regular /\ x.closeSent))
      /\ slot = [slot EXCEPT ![u] = c]
  BY <1>2 DEF Leaver
<1>3. x \in Regular /\ x.closeSent /\ x.status \in Used
  BY <1>1, <1>i DEF At, VisitsAs, Asleep, Visiting
<1>4. PICK q : q = IF x.status = "closed" THEN "delete" ELSE "closeAsleep"
  OBVIOUS
<1>5. Proceeds(up, q, x, c, c) /\ q \in Asleep
  BY <1>3, <1>4 DEF Proceeds, VisitsAs, Leaving, Asleep, Used
<1>6. /\ pc' = [pc EXCEPT ![u] = q] /\ slot' = [slot EXCEPT ![u] = c] /\ pc[u] # "gone"
      /\ UNCHANGED tableVars /\ UNCHANGED netVars /\ UNCHANGED <<api, reads, asked, asks>>
  BY <1>1, <1>i, <1>4 DEF waitForChannelClose, Goto, At
<1> QED BY <1>2, <1>5, <1>6, LeaverGoes

LEMMA LeaverQueues ==
    ASSUME ChannelsInv, NEW u \in Users, api[u] = "disconnect", CloseQueue(u)
    PROVE  ChannelsInv'
<1>1. pc[u] = "closeQueue"
  BY DEF CloseQueue
<1>2. PICK c, up, p, a, n, x, M, o, f, S : Leaver(u, c, up, p, a, n, x, M, o, f, S)
  BY <1>1, LeaverAt
<1>i. /\ At(u, c, up, p, a, n, x, M, o, f, S) /\ Visiting(c, up, n, x, M, o, f, S)
      /\ Entries(u, c, a, n, x, o) /\ Stands(up, x, M, o, f, S, TRUE)
      /\ (p \notin {"visit", "visitLost"} => VisitsAs(up, p, x)) /\ (p = "visitLost" => ~up)
      /\ (p \notin Asleep => ~(x \in Regular /\ x.closeSent))
      /\ slot = [slot EXCEPT ![u] = c]
  BY <1>2 DEF Leaver
<1>3. x \in Regular /\ ~x.closeSent /\ x.status \in Used
  BY <1>1, <1>i DEF At, VisitsAs, Asleep, Visiting
<1>4. PICK m, t, y : /\ m = Message("close", c, 0) /\ t = Append(o, m)
                     /\ y = [x EXCEPT !.closeSent = TRUE]
  OBVIOUS
<1>5. /\ m \in Msg /\ m \in OutMsg(c) /\ m.kind = "close"
      /\ m.inc = x.inc /\ m.remote = x.remote
  <2>1. "close" \in OutKinds /\ 0 \in Nat /\ c \in Slots /\ chan[c] \in Regular
    BY <1>i, <1>3 DEF OutKinds, At, Visiting
  <2> QED BY <1>i, <1>4, <2>1, MessageIs DEF At
<1>6. outQ' = [outQ EXCEPT ![c] = t] /\ t \in Seq(OutMsg(c))
  <2>1. Queue(m) /\ Shape
    BY <1>i, <1>4 DEF At, ChannelsInv, CloseQueue
  <2> QED BY <1>i, <1>4, <1>5, <2>1, QueueEntry DEF At, Visiting
<1>7. y \in Channel /\ y.inc = x.inc /\ y.closeSent = TRUE
  <2>1. x \in Channel
    BY <1>3, ObjectIs
  <2> QED BY <1>4, <2>1, CloseSaid
<1>8. Stands(up, y, M, t, f, S, TRUE) /\ y \in Regular
  BY <1>i, <1>3, <1>4, <1>5, StandsClose, ZenonT(40) DEF Visiting
<1>9. Moves(u, c, y, t, "closeWait", "disconnect", n) /\ slot' = [slot EXCEPT ![u] = c]
  <2>1. chan' = [chan EXCEPT ![c] = y]
    BY <1>i, <1>4 DEF CloseQueue, At
  <2>2. api' = [api EXCEPT ![u] = "disconnect"]
    BY <1>i DEF CloseQueue, At, Entries
  <2> QED BY <1>i, <1>6, <2>1, <2>2 DEF CloseQueue, Moves, At, Entries, Goto
<1>10. PICK q, s : q = "closeWait" /\ s = c /\ q \in Asleep /\ Proceeds(up, q, y, c, s)
  BY <1>7, <1>8 DEF Proceeds, VisitsAs, Leaving, Asleep
<1>11. /\ slot[u] = c /\ c \in Slots /\ y \in Objects /\ y.inc \in {chan[c].inc, 0} /\ n \in Nat
       /\ (y \in Regular => chan[c] \in Regular) /\ Proceeds(alive, q, y, c, s)
       /\ Stands(alive, y, Main(c), t, In(c), Recs(c), TRUE)
  BY <1>i, <1>3, <1>7, <1>8, <1>10 DEF At, Visiting, Objects
<1> QED BY <1>6, <1>9, <1>10, <1>11, LeavingMoves

LEMMA LeaverDeletes ==
    ASSUME ChannelsInv, NEW u \in Users, api[u] = "disconnect", deleteChannel(u)
    PROVE  ChannelsInv'
<1>1. pc[u] \in {"delete", "deleteAgain", "deleteLost"}
  BY DEF deleteChannel
<1>2. PICK c, up, p, a, n, x, M, o, f, S : Leaver(u, c, up, p, a, n, x, M, o, f, S)
  BY <1>1, LeaverAt
<1>i. /\ At(u, c, up, p, a, n, x, M, o, f, S) /\ Visiting(c, up, n, x, M, o, f, S)
      /\ Entries(u, c, a, n, x, o) /\ Stands(up, x, M, o, f, S, TRUE)
      /\ (p \notin {"visit", "visitLost"} => VisitsAs(up, p, x)) /\ (p = "visitLost" => ~up)
      /\ (p \notin Asleep => ~(x \in Regular /\ x.closeSent))
      /\ slot = [slot EXCEPT ![u] = c]
  BY <1>2 DEF Leaver
<1>3. p \in {"delete", "deleteAgain", "deleteLost"} /\ VisitsAs(up, p, x)
  BY <1>1, <1>i DEF At
<1>4. p = "delete" => x \in Regular
  BY <1>3 DEF VisitsAs, Asleep
<1>5. x # NoChannel => x.closeRecvd \/ p = "deleteLost"
  <2>1. x # NoChannel => x \in Channel /\ Lasts(x, TRUE)
    BY <1>i, ObjectIs DEF Visiting, Stands
  <2>2. p # "deleteLost" /\ x \in Regular => x.status = "closed"
    BY <1>3 DEF VisitsAs
  <2> QED BY <2>1, <2>2 DEF Lasts, Regular, Channel
<1>6. PICK q, s : /\ q = IF p = "delete" THEN "deleteAgain"
                         ELSE IF p = "deleteLost" THEN "visitLost" ELSE "visit"
                  /\ s = IF p = "delete" THEN c ELSE c + 1
  OBVIOUS
<1>7. Deleted(u) => /\ pc' = [pc EXCEPT ![u] = q] /\ slot' = [slot EXCEPT ![u] = s]
                    /\ UNCHANGED <<api, reads>>
  BY <1>1, <1>i, <1>3, <1>6 DEF Deleted, Goto, At
<1>8. /\ UNCHANGED <<mainQ, made, broken, asked, asks>> /\ UNCHANGED netVars
      /\ slot[u] = c /\ chan[c] = x /\ pc[u] = p /\ c \in Slots
  BY <1>i DEF deleteChannel, At, Visiting
<1>9. CASE x = NoChannel
  <2>1. ~isValidChannelNumber(c)
    BY <1>8, <1>9 DEF isValidChannelNumber
  <2>2. Deleted(u) /\ UNCHANGED <<chan, outQ>>
    BY <1>8, <2>1 DEF deleteChannel
  <2>3. Proceeds(up, q, x, c, s) /\ x \notin Regular
    BY <1>3, <1>4, <1>6, <1>9, ObjectIs DEF Proceeds, VisitsAs
  <2>4. /\ UNCHANGED tableVars /\ UNCHANGED netVars /\ UNCHANGED <<api, reads, asked, asks>>
        /\ pc[u] # "gone"
    BY <1>1, <1>7, <1>8, <2>2 DEF tableVars
  <2> QED BY <1>2, <1>7, <2>2, <2>3, <2>4, LeaverGoes
<1>10. CASE x # NoChannel
  <2>1. Free(c) /\ Deleted(u)
    <3>1. isValidChannelNumber(c)
      BY <1>8, <1>10 DEF isValidChannelNumber
    <3> QED BY <1>5, <1>8, <1>10, <3>1 DEF deleteChannel
  <2>2. PICK y, t : y = NoChannel /\ t = <<>>
    OBVIOUS
  <2>3. y \in Objects /\ y.inc = 0 /\ t \in Seq(OutMsg(c)) /\ y \notin Regular
    BY <2>2, ObjectIs DEF Objects
  <2>4. Stands(up, NoChannel, M, <<>>, f, S, TRUE)
    <3>1. up /\ x \in Regular => x.status \in {"closed", "failedToCreate"}
      BY <1>3 DEF VisitsAs
    <3>2. /\ up \in BOOLEAN /\ x \in Objects /\ S \in SUBSET Records
          /\ Stands(up, x, M, o, f, S, TRUE)
      BY <1>i DEF Visiting
    <3>3. PICK d \in BOOLEAN : d = TRUE
      OBVIOUS
    <3>4. Stands(up, NoChannel, M, <<>>, f, S, d)
      BY <3>1, <3>2, <3>3, StandsFree
    <3> QED BY <3>3, <3>4
  <2>5. Moves(u, c, y, t, q, "disconnect", n) /\ slot' = [slot EXCEPT ![u] = s]
    <3>1. api' = [api EXCEPT ![u] = "disconnect"]
      BY <1>i, <1>7, <2>1 DEF At, Entries
    <3> QED BY <1>i, <1>7, <1>8, <2>1, <2>2, <3>1 DEF Free, Moves, Entries
  <2>6. Proceeds(up, q, y, c, s)
    BY <1>3, <1>6, <2>3 DEF Proceeds, VisitsAs, Leaving, Asleep
  <2>7. /\ Proceeds(alive, q, y, c, s) /\ n \in Nat /\ y.inc \in {chan[c].inc, 0}
        /\ Stands(alive, y, Main(c), t, In(c), Recs(c), TRUE)
    BY <1>i, <2>2, <2>3, <2>4, <2>6 DEF At, Visiting
  <2> QED BY <1>8, <2>3, <2>5, <2>7, LeavingMoves
<1> QED BY <1>9, <1>10

-----------------------------------------------------------------------------
(* Transport handles a message about a channel. *)

Treats(m, y) ==
    /\ chan' = [chan EXCEPT ![m.c] = y] /\ Handles(m, chan[m.c], y)
    /\ UNCHANGED <<outQ, mainQ, made, broken>>
    /\ pc' = [v \in Users |-> IF slot[v] = m.c THEN WokenAt(pc[v], m) ELSE pc[v]]

LEMMA PlacesKept ==
    ASSUME Shape, NEW m
    PROVE  /\ m.kind \notin Answers \cup {"close"} =>
                pc = [v \in Users |-> IF slot[v] = m.c THEN WokenAt(pc[v], m) ELSE pc[v]]
           /\ m.kind \in Answers => 
                [u \in Users |->
                   IF pc[u] = "requestWait" /\ slot[u] = m.c THEN "requestTake" ELSE pc[u]]
                = [v \in Users |-> IF slot[v] = m.c THEN WokenAt(pc[v], m) ELSE pc[v]]
           /\ m.kind = "close" => 
                [u \in Users |->
                CASE slot[u] = m.c /\ pc[u] = "closeAsleep" -> "delete"
                  [] slot[u] = m.c /\ pc[u] = "deleteAsleep" -> "deleteAgain"
                  [] OTHER -> pc[u]]
                = [v \in Users |-> IF slot[v] = m.c THEN WokenAt(pc[v], m) ELSE pc[v]]
<1>1. pc \in [Users -> Using \cup Leaving]
  BY DEF Shape, UserShape
<1>2. \A v \in Users : pc[v] # "deleteAsleep"
  BY <1>1 DEF Using, Leaving, Asking, Asleep
<1>3. "close" \notin Answers
  BY DEF Answers
<1>4. ASSUME m.kind \notin Answers \cup {"close"}
      PROVE  pc = [v \in Users |-> IF slot[v] = m.c THEN WokenAt(pc[v], m) ELSE pc[v]]
  BY <1>1, <1>4 DEF WokenAt
<1>5. ASSUME m.kind \in Answers
      PROVE  [u \in Users |->
                IF pc[u] = "requestWait" /\ slot[u] = m.c THEN "requestTake" ELSE pc[u]]
             = [v \in Users |-> IF slot[v] = m.c THEN WokenAt(pc[v], m) ELSE pc[v]]
  BY <1>3, <1>5 DEF WokenAt
<1>6. ASSUME m.kind = "close"
      PROVE  [u \in Users |->
                CASE slot[u] = m.c /\ pc[u] = "closeAsleep" -> "delete"
                  [] slot[u] = m.c /\ pc[u] = "deleteAsleep" -> "deleteAgain"
                  [] OTHER -> pc[u]]
                = [v \in Users |-> IF slot[v] = m.c THEN WokenAt(pc[v], m) ELSE pc[v]]
  BY <1>2, <1>3, <1>6 DEF WokenAt
<1> QED BY <1>4, <1>5, <1>6

LEMMA TreatsMessages ==
    ASSUME Shape, NEW m \in Msg, m.c \in Slots,
           \/ setChannelCreateResult(m) \/ setChannelRequestResult(m)
           \/ setChannelCloseMsgReceived(m) \/ queueInboundData(m) \/ setEOF_recieved(m)
    PROVE  \E y : Treats(m, y)
<1>1. PICK c, x : c = m.c /\ x = chan[c] /\ c \in Slots
  OBVIOUS
<1>2. chan \in [Slots -> Objects] /\ x \in Objects /\ (x = NoChannel \/ x \in Channel)
  BY <1>1, ObjectIs DEF Shape, TableShape
<1>3. /\ UNCHANGED <<outQ, mainQ, made, broken>>
      /\ pc' = [v \in Users |-> IF slot[v] = m.c THEN WokenAt(pc[v], m) ELSE pc[v]]
  <2>1. CASE setChannelCreateResult(m) \/ queueInboundData(m) \/ setEOF_recieved(m)
    <3>1. m.kind \notin Answers \cup {"close"}
      BY <2>1 DEF setChannelCreateResult, queueInboundData, setEOF_recieved, Answers
    <3> QED BY <2>1, <3>1, PlacesKept DEF setChannelCreateResult, queueInboundData, setEOF_recieved
  <2>2. CASE setChannelRequestResult(m)
    <3>1. m.kind \in Answers
      BY <2>2 DEF setChannelRequestResult, Answers
    <3> QED BY <2>2, <3>1, PlacesKept DEF setChannelRequestResult, Wake
  <2>3. CASE setChannelCloseMsgReceived(m)
    BY <2>3, PlacesKept DEF setChannelCloseMsgReceived
  <2> QED BY <2>1, <2>2, <2>3
<1>4. \E y : chan' = [chan EXCEPT ![c] = y] /\ Handles(m, x, y)
  <2>1. CASE x = NoChannel
    <3>1. chan' = chan
      BY <1>1, <2>1 DEF setChannelCreateResult, setChannelRequestResult,
            setChannelCloseMsgReceived, queueInboundData, setEOF_recieved
    <3>2. chan' = [chan EXCEPT ![c] = x]
      BY <1>1, <1>2, <3>1
    <3> QED BY <2>1, <3>2 DEF Handles
  <2>2. CASE x # NoChannel
    <3>0. x \in Channel
      BY <1>2, <2>2
    <3>1. CASE setChannelCreateResult(m) /\ m.kind = "confirm"
      <4>1. PICK y : y = [x EXCEPT !.remote = m.remote, !.status = "open"]
        OBVIOUS
      <4>2. [setRemoteChannelNumber(x, m.remote) EXCEPT !.status = "open"] = y
        BY <3>0, <4>1 DEF setRemoteChannelNumber, Channel
      <4>3. chan' = [chan EXCEPT ![c] =
                       [setRemoteChannelNumber(x, m.remote) EXCEPT !.status = "open"]]
        BY <1>1, <2>2, <3>1 DEF setChannelCreateResult
      <4>4. Handles(m, x, y)
        BY <3>0, <3>1, <4>1 DEF Handles
      <4> QED BY <4>2, <4>3, <4>4
    <3>2. CASE setChannelCreateResult(m) /\ m.kind = "refuse"
      <4>1. PICK y : y = [x EXCEPT !.status = "failedToCreate"]
        OBVIOUS
      <4>2. chan' = [chan EXCEPT ![c] = y]
        BY <1>1, <1>2, <2>2, <3>2, <4>1 DEF setChannelCreateResult
      <4>3. Handles(m, x, y)
        BY <3>0, <3>2, <4>1 DEF Handles
      <4> QED BY <4>2, <4>3
    <3>3. CASE setChannelRequestResult(m)
      <4>1. PICK y : y = [x EXCEPT !.result = m.kind, !.answered = m.id]
        OBVIOUS
      <4>2. chan' = [chan EXCEPT ![c] = y]
        BY <1>1, <1>2, <2>2, <3>3, <4>1 DEF setChannelRequestResult
      <4>3. Handles(m, x, y)
        BY <3>0, <3>3, <4>1 DEF Handles, setChannelRequestResult, Answers
      <4> QED BY <4>2, <4>3
    <3>4. CASE setChannelCloseMsgReceived(m)
      <4>1. PICK y : y = [x EXCEPT !.closeRecvd = TRUE, !.status = "closed"]
        OBVIOUS
      <4>2. chan' = [chan EXCEPT ![c] = y]
        BY <1>1, <1>2, <2>2, <3>4, <4>1 DEF setChannelCloseMsgReceived
      <4>3. Handles(m, x, y)
        BY <3>0, <3>4, <4>1 DEF Handles, setChannelCloseMsgReceived
      <4> QED BY <4>2, <4>3
    <3>5. CASE queueInboundData(m)
      <4>1. PICK y : y = [x EXCEPT !.data = Append(x.data, m.id = 1)]
        OBVIOUS
      <4>2. chan' = [chan EXCEPT ![c] = y]
        BY <1>1, <1>2, <2>2, <3>5, <4>1 DEF queueInboundData
      <4>3. Handles(m, x, y)
        BY <3>0, <3>5, <4>1 DEF Handles, queueInboundData
      <4> QED BY <4>2, <4>3
    <3>6. CASE setEOF_recieved(m)
      <4>1. PICK y : y = [x EXCEPT !.eof = TRUE]
        OBVIOUS
      <4>2. chan' = [chan EXCEPT ![c] = y]
        BY <1>1, <1>2, <2>2, <3>6, <4>1 DEF setEOF_recieved
      <4>3. Handles(m, x, y)
        BY <3>0, <3>6, <4>1 DEF Handles, setEOF_recieved
      <4> QED BY <4>2, <4>3
    <3> QED BY <3>1, <3>2, <3>3, <3>4, <3>5, <3>6 DEF setChannelCreateResult
  <2> QED BY <2>1, <2>2
<1> QED BY <1>1, <1>3, <1>4 DEF Treats

\* What Transport handles first, and the slot it is about.
First(c, x, M, o, f, S) ==
    /\ x = chan[c] /\ M = Main(c) /\ o = outQ[c] /\ f = In(c) /\ S = Recs(c)
    /\ x \in Objects /\ M \in Seq(Msg) /\ o \in Seq(Msg) /\ f \in Seq(Msg) /\ f # <<>>
    /\ S \in SUBSET Records
Handling(c, m, y) ==
    /\ c \in Slots /\ m \in Msg /\ m.c = c /\ alive /\ fromServer # <<>> /\ m = Head(fromServer)
    /\ Treats(m, y) /\ Handled
    /\ UNCHANGED <<api, slot, reads, asked, asks, alive, server, said>>

LEMMA HandledSlot ==
    ASSUME ChannelsInv, NEW c, NEW m, NEW y, Handling(c, m, y)
    PROVE  /\ \E x, M, o, f, S :
                /\ First(c, x, M, o, f, S) /\ Head(f) = m /\ Handles(m, x, y)
                /\ chan'[c] = y /\ Main(c)' = M /\ outQ'[c] = o /\ In(c)' = Tail(f)
                /\ Recs(c)' = S /\ Stands(TRUE, x, M, o, f, S, Disconnecting)
           /\ \A d \in Slots \ {c} : Unmoved(d)
           /\ y \in Objects /\ y.inc = chan[c].inc /\ (y \in Regular <=> chan[c] \in Regular)
<1>1. PICK x, M, o, f, S : /\ x = chan[c] /\ M = Main(c) /\ o = outQ[c] /\ f = In(c)
                           /\ S = Recs(c)
  OBVIOUS
<1>2. /\ x \in Objects /\ M \in Seq(Msg) /\ o \in Seq(Msg) /\ f \in Seq(Msg)
      /\ S \in SUBSET Records
  BY <1>1, StateTypes DEF ChannelsInv, Handling
<1>3. Takesoff(fromServer', fromServer)
  BY StateTypes DEF Takesoff, ChannelsInv, Handling, Handled
<1>4. /\ Takesoff(View(fromServer', c), View(fromServer, c))
      /\ Head(View(fromServer, c)) = m
      /\ \A d \in Slots \ {c} : View(fromServer', d) = View(fromServer, d)
  BY <1>3, ViewTaken DEF Handling
<1>5. /\ f # <<>> /\ Head(f) = m /\ In(c)' = Tail(f)
      /\ \A d \in Slots \ {c} : In(d)' = In(d)
  BY <1>1, <1>4 DEF In, Takesoff
<1>6. ASSUME NEW d
      PROVE  Main(d)' = Main(d) /\ Recs(d)' = Recs(d)
  BY DEF Main, Recs, Handling, Treats
<1>7. /\ chan'[c] = y /\ Handles(m, x, y) /\ outQ' = outQ
      /\ \A d \in Slots \ {c} : chan'[d] = chan[d]
  BY <1>1 DEF Handling, Treats, ChannelsInv, Shape, TableShape
<1>8. Stands(TRUE, x, M, o, f, S, Disconnecting)
  <2>1. SlotOf(c) /\ alive = TRUE
    BY StateTypes DEF Handling, ChannelsInv, TableInv
  <2> QED BY <1>1, <2>1 DEF SlotOf
<1>9. \A d \in Slots \ {c} : Unmoved(d)
  BY <1>5, <1>6, <1>7 DEF Unmoved
<1>10. y \in Objects /\ y.inc = x.inc /\ (y \in Regular <=> x \in Regular)
  <2>1. m \in Msg
    BY DEF Handling
  <2> QED BY <1>2, <1>7, <2>1, HandlesFields
<1>11. First(c, x, M, o, f, S)
  BY <1>1, <1>2, <1>5 DEF First
<1> QED BY <1>1, <1>5, <1>6, <1>7, <1>8, <1>9, <1>10, <1>11

LEMMA HandledShape ==
    ASSUME ChannelsInv, NEW c, NEW m, NEW y, Handling(c, m, y)
    PROVE  Shape'
<1>1. TableShape'
  <2>1. y \in Objects /\ c \in Slots /\ m.c = c
    BY HandledSlot DEF Handling
  <2> QED BY <2>1 DEF ChannelsInv, Shape, TableShape, Handling, Treats
<1>2. UserShape'
  <2>1. pc' \in [Users -> Using \cup Leaving]
    <3>1. ASSUME NEW p \in Using \cup Leaving
          PROVE  WokenAt(p, m) \in Using \cup Leaving
      BY DEF WokenAt, Using, Asking, Asleep
    <3> QED BY <3>1 DEF Handling, Treats, ChannelsInv, Shape, UserShape
  <2> QED BY <2>1 DEF ChannelsInv, Shape, UserShape, Handling
<1>3. NetShape'
  <2>1. fromServer' \in Seq(InMsg)
    BY TailType DEF ChannelsInv, Shape, NetShape, Handling, Handled
  <2> QED BY <2>1 DEF ChannelsInv, Shape, NetShape, Handling, Handled, Openings
<1> QED BY <1>1, <1>2, <1>3 DEF Shape

\* A user of the slot, when nobody disconnects.
LEMMA HandledUser ==
    ASSUME ChannelsInv, NEW c, NEW m, NEW y, Handling(c, m, y), ~Disconnecting,
           NEW v \in Users, slot[v] = c
    PROVE  UserOf(v)'
<1>1. PICK x, M, o, f, S :
         /\ First(c, x, M, o, f, S) /\ Head(f) = m /\ Handles(m, x, y)
         /\ chan'[c] = y /\ Main(c)' = M /\ outQ'[c] = o /\ In(c)' = Tail(f)
         /\ Recs(c)' = S /\ Stands(TRUE, x, M, o, f, S, Disconnecting)
  BY HandledSlot, ZenonT(40)
<1>2. c \in Slots /\ c # NoSlot /\ alive = TRUE /\ alive' = TRUE
  BY ChannelsAssumption, StateTypes DEF Handling, Slots, NoSlot, ChannelsInv
<1>3. PICK p, a, n : p = pc[v] /\ a = api[v] /\ n = asked[v]
  OBVIOUS
<1>4. Fine(TRUE, p, a, n, x, M, o, f, S)
  BY <1>1, <1>2, <1>3, OwnFine DEF FineAt, First
<1>5. Works(TRUE, WokenAt(p, m), a, n, y, o, Tail(f), S)
  BY <1>1, <1>4, WorksHandled DEF First
<1>6. /\ pc'[v] = WokenAt(p, m) /\ api'[v] = a /\ asked'[v] = n /\ slot'[v] = c
  BY <1>3 DEF Handling, Treats
<1> QED BY <1>1, <1>2, <1>5, <1>6 DEF UserOf

\* The user that disconnects.
LEMMA HandledLeaver ==
    ASSUME ChannelsInv, NEW c, NEW m, NEW y, Handling(c, m, y), NEW u \in Users,
           api[u] = "disconnect"
    PROVE  Leaves(u)'
<1>1. PICK x, M, o, f, S :
         /\ First(c, x, M, o, f, S) /\ Head(f) = m /\ Handles(m, x, y)
         /\ chan'[c] = y /\ Main(c)' = M /\ outQ'[c] = o /\ In(c)' = Tail(f)
         /\ Recs(c)' = S /\ Stands(TRUE, x, M, o, f, S, Disconnecting)
  BY HandledSlot, ZenonT(40)
<1>2. Leaves(u) /\ Visits(pc[u], slot[u]) /\ c # NoSlot /\ c \in Slots
  BY ChannelsAssumption DEF ChannelsInv, UserInv, Departing, Leaves, Handling, Slots, NoSlot
<1>3. /\ alive /\ alive' /\ \A d \in Slots \ {c} : chan'[d] = chan[d]
      /\ \A v \in Users : /\ api'[v] = api[v] /\ slot'[v] = slot[v]
                          /\ slot[v] # c => pc'[v] = pc[v]
                          /\ slot[v] = c => pc'[v] = WokenAt(pc[v], m)
  BY DEF Handling, Treats, ChannelsInv, Shape, TableShape
<1>4. \A v \in Users \ {u} : pc'[v] = "gone" /\ api'[v] # "disconnect" /\ slot'[v] = NoSlot
  BY <1>2, <1>3 DEF Leaves
<1>5. Visits(pc[u], slot[u])'
  <2>1. CASE slot[u] # c
    <3>1. pc'[u] = pc[u] /\ slot'[u] = slot[u]
      BY <1>3, <2>1
    <3>2. pc[u] \notin {"visit", "visitLost", "gone"} => slot[u] \in Slots \ {c}
      BY <1>2, <2>1 DEF Visits
    <3>3. Asleep \cap {"visit", "visitLost", "gone"} = {}
      BY DEF Asleep
    <3> QED BY <1>2, <1>3, <3>1, <3>2, <3>3 DEF Visits
  <2>2. CASE slot[u] = c
    <3>1. PICK p : p = pc[u]
      OBVIOUS
    <3>2. /\ p \in Leaving \ {"visitLost", "deleteLost", "gone"}
          /\ (p = "closeQueue" => x \in Regular)
          /\ (p \in Asleep => x \in Regular /\ x.closeSent)
          /\ (p = "closeAsleep" => x.status = "open") /\ (p = "delete" => x.status = "closed")
          /\ (p = "deleteAgain" /\ x \in Regular => x.status = "closed")
      BY <1>1, <1>2, <1>3, <2>2, <3>1 DEF Visits, First
    <3>3. PICK q : q = WokenAt(p, m) /\ pc'[u] = q /\ slot'[u] = c
      BY <1>3, <2>2, <3>1
    <3>4. /\ x \in Regular /\ m.kind \in {"confirm", "refuse"} => x.status = "unknown"
          /\ x \in Regular /\ m.kind \in Talk => x.status = "open"
          /\ x \in Regular => m.kind \in Talk \cup {"confirm", "refuse"}
      BY <1>1, FirstWord DEF Stands, First
    <3>5. /\ (y \in Regular <=> x \in Regular)
          /\ x \in Channel => /\ y.closeSent = x.closeSent
                              /\ m.kind \notin {"confirm", "refuse", "close"} => y.status = x.status
                              /\ m.kind = "close" => y.status = "closed"
      <4>1. m \in Msg /\ x \in Objects
        BY <1>1 DEF Handling, First
      <4> QED BY <1>1, <4>1, HandlesFields, HandlesWrites, ObjectIs
    <3>6. q \in Leaving \ {"visitLost", "deleteLost", "gone"}
      BY <3>2, <3>3 DEF WokenAt, Leaving, Asleep
    <3>7. q \in {"closeQueue", "deleteAgain"} => q = p
      BY <3>3 DEF WokenAt
    <3>8. q \in Asleep => p \in Asleep
      BY <3>2, <3>3 DEF WokenAt, Asleep, Leaving
    <3>9. q = "closeAsleep" => p = q /\ m.kind # "close"
      BY <3>3 DEF WokenAt, Answers
    <3>10. q = "delete" => p = q \/ m.kind = "close"
      BY <3>3 DEF WokenAt
    <3>11. Regular \subseteq Channel /\ "closeAsleep" \in Asleep /\ "delete" \in Asleep
      BY ObjectIs DEF Asleep
    <3>12. q \in Asleep => y \in Regular /\ y.closeSent
      BY <3>2, <3>5, <3>8, <3>11
    <3>13. q = "closeAsleep" => y.status = "open"
      BY <3>2, <3>4, <3>5, <3>9, <3>11
    <3>14. q = "delete" => y.status = "closed"
      BY <3>2, <3>4, <3>5, <3>8, <3>10, <3>11
    <3>15. q = "deleteAgain" /\ y \in Regular => y.status = "closed"
      BY <3>2, <3>4, <3>5, <3>7, <3>11
    <3>16. c \in 0 .. MaxChannels /\ c \in Slots
      BY <1>2, ChannelsAssumption DEF Slots
    <3>17. q = "closeQueue" => y \in Regular
      BY <3>2, <3>5, <3>7
    <3> QED BY <1>1, <1>3, <3>3, <3>6, <3>12, <3>13, <3>14, <3>15, <3>16, <3>17 DEF Visits
  <2> QED BY <2>1, <2>2
<1> QED BY <1>4, <1>5 DEF Leaves

-----------------------------------------------------------------------------
(* A step of Transport, of SocketSend or of the server is about the slot c. *)

Touches(c) ==
    /\ Renumbered(c) /\ alive' = alive /\ UNCHANGED <<api, slot, asked>>
    /\ \A d \in Slots \ {c} : Unmoved(d)
    /\ \A v \in Users : slot[v] # c => pc'[v] = pc[v]
    /\ \A v \in Users : slot[v] = c /\ pc[v] \in Asleep => pc'[v] \in Asleep
    /\ chan'[c] \in Regular => /\ chan[c] \in Regular /\ chan'[c].told = chan[c].told
                               /\ chan'[c].closeSent = chan[c].closeSent

LEMMA NetStep ==
    ASSUME ChannelsInv, NEW c \in Slots, Touches(c), SlotOf(c)',
           ~Disconnecting => \A v \in Users : slot[v] = c => UserOf(v)',
           \A u \in Users : api[u] = "disconnect" => Visits(pc[u], slot[u])'
    PROVE  TableInv' /\ UserInv'
<1>0. c # NoSlot /\ Disconnecting' = Disconnecting
  BY ChannelsAssumption DEF Slots, NoSlot, Disconnecting, Touches
<1>1. PICK W \in SUBSET Users : W = {v \in Users : slot[v] = c}
  OBVIOUS
<1>2. Elsewhere(c, W)
  BY <1>0, <1>1 DEF Elsewhere, Touches, Stays
<1>3. Sent(c) /\ Sent(c)'
  BY DEF ChannelsInv, TableInv, Sent, Touches
<1>4. ASSUME Disconnecting
      PROVE  Departing'
  <2>1. ASSUME NEW u \in Users, api'[u] = "disconnect"
        PROVE  Leaves(u)'
    <3>1. Leaves(u) /\ Visits(pc[u], slot[u])'
      BY <2>1 DEF Touches, ChannelsInv, UserInv, Departing
    <3> QED BY <1>0, <3>1 DEF Leaves, Touches
  <2> QED BY <2>1 DEF Departing
<1>5. ASSUME ~Disconnecting
      PROVE  Settled(c, W)'
  <2>1. Alone
    BY <1>5 DEF ChannelsInv, UserInv, Working
  <2>2. chan[c] \in Regular => (\E v \in W : slot[v] = c) \/ (chan[c].told /\ ~chan[c].closeSent)
    BY <1>1, <1>3, <2>1 DEF Alone, Sent
  <2>3. \A v \in W : UserOf(v)' /\ slot'[v] = c
    BY <1>1, <1>5 DEF Touches
  <2>4. \A v, w \in W : v = w
    BY <1>0, <1>1, <2>1 DEF Alone
  <2>5. chan'[c] \in Regular => \/ \E v \in W : slot'[v] = c
                                \/ chan'[c].told /\ ~chan'[c].closeSent
    BY <2>2 DEF Touches
  <2> QED BY <2>3, <2>4, <2>5 DEF Settled
<1> QED BY <1>2, <1>3, <1>4, <1>5, SlotStep DEF ChannelsInv

LEMMA HandledKeeps ==
    ASSUME ChannelsInv, NEW c, NEW m, NEW y, Handling(c, m, y)
    PROVE  ChannelsInv'
<1>1. PICK x, M, o, f, S :
         /\ First(c, x, M, o, f, S) /\ Head(f) = m /\ Handles(m, x, y)
         /\ chan'[c] = y /\ Main(c)' = M /\ outQ'[c] = o /\ In(c)' = Tail(f)
         /\ Recs(c)' = S /\ Stands(TRUE, x, M, o, f, S, Disconnecting)
  BY HandledSlot
<1>2. /\ \A d \in Slots \ {c} : Unmoved(d)
      /\ y \in Objects /\ y.inc = chan[c].inc /\ (y \in Regular <=> chan[c] \in Regular)
  BY HandledSlot
<1>3. c \in Slots /\ c # NoSlot /\ alive = TRUE /\ alive' = TRUE /\ made \in Nat
  BY ChannelsAssumption, StateTypes DEF Handling, Slots, NoSlot, ChannelsInv
<1>4. Stands(TRUE, y, M, o, Tail(f), S, Disconnecting)
  <2>1. Disconnecting \in BOOLEAN
    BY DEF Disconnecting
  <2> QED BY <1>1, <2>1, StandsHandled DEF First
<1>5. Disconnecting' = Disconnecting
  BY DEF Handling, Disconnecting
<1>6. SlotOf(c)'
  BY <1>1, <1>3, <1>4, <1>5 DEF SlotOf
<1>7. Renumbered(c)
  BY <1>1, <1>2, <1>3 DEF Renumbered, Unmoved, Handling, Treats
<1>8. y \in Regular => y.told = chan[c].told /\ y.closeSent = chan[c].closeSent
  <2>1. m \in Msg /\ x \in Objects /\ x = chan[c]
    BY <1>1 DEF Handling, First
  <2>2. x \in Regular => x # NoChannel
    BY ObjectIs
  <2> QED BY <1>1, <1>2, <2>1, <2>2, HandlesFields
<1>9. \A v \in Users : /\ slot[v] # c => pc'[v] = pc[v]
                       /\ slot[v] = c /\ pc[v] \in Asleep => pc'[v] \in Asleep
  BY DEF Handling, Treats, WokenAt, Asleep
<1>10. Touches(c)
  BY <1>1, <1>2, <1>7, <1>8, <1>9 DEF Touches, Handling
<1>11. \A u \in Users : api[u] = "disconnect" => Visits(pc[u], slot[u])'
  BY HandledLeaver DEF Leaves
<1>12. TableInv' /\ UserInv'
  BY <1>3, <1>6, <1>10, <1>11, HandledUser, NetStep
<1>13. NumberInv'
  <2>1. (\A d \in Slots : chan[d].inc \in Nat) /\ server \in SUBSET Records
    BY StateTypes, ObjectIs DEF ChannelsInv
  <2>2. Objected'
    BY <1>3, <1>7, <2>1, ObjectedKept DEF ChannelsInv, NumberInv
  <2>3. Recorded'
    BY <1>3, <1>7, <2>1, RecordedKept DEF ChannelsInv, NumberInv, Handling
  <2>4. Confirming'
    BY <1>7, ConfirmingSame DEF Handling, Treats
  <2> QED BY <2>2, <2>3, <2>4 DEF NumberInv
<1>14. OpeningInv'
  BY DEF Handling, Handled, OpeningInv
<1>15. Shape'
  BY HandledShape
<1> QED BY <1>12, <1>13, <1>14, <1>15 DEF ChannelsInv

LEMMA MessagesHandled ==
    ASSUME ChannelsInv, alive, fromServer # <<>>, NEW m, m = Head(fromServer), Handled,
           \/ setChannelCreateResult(m) \/ setChannelRequestResult(m)
           \/ setChannelCloseMsgReceived(m) \/ queueInboundData(m) \/ setEOF_recieved(m),
           UNCHANGED <<api, slot, reads, asked, asks, alive, server, said>>
    PROVE  ChannelsInv'
<1>1. fromServer \in Seq(InMsg)
  BY DEF ChannelsInv, Shape, NetShape
<1>2. m \in InMsg /\ m \in Msg
  <2>1. m \in InMsg
    BY <1>1
  <2> QED BY <2>1 DEF InMsg
<1>3. m.kind \notin Unasked
  BY DEF setChannelCreateResult, setChannelRequestResult, setChannelCloseMsgReceived,
         queueInboundData, setEOF_recieved, Unasked
<1>4. m.c \in Slots
  BY <1>2, <1>3 DEF InMsg
<1>5. PICK y : Treats(m, y)
  BY <1>2, <1>4, TreatsMessages DEF ChannelsInv
<1>6. PICK c : c = m.c
  OBVIOUS
<1>7. Handling(c, m, y)
  BY <1>2, <1>4, <1>5, <1>6 DEF Handling
<1> QED BY <1>7, HandledKeeps

-----------------------------------------------------------------------------
(* Steps that are about no slot. *)

Aside ==
    /\ UNCHANGED <<chan, outQ, api, slot, asked, alive, server>> /\ made' \in {made, made + 1}
    /\ \A d \in Slots : Main(d)' = Main(d) /\ In(d)' = In(d)
    /\ \A v \in Users : pc'[v] = pc[v] \/ (pc[v] = "global" /\ pc'[v] = "idle")

LEMMA AsideKeeps ==
    ASSUME ChannelsInv, Aside, Shape', Confirming', OpeningInv'
    PROVE  ChannelsInv'
<1>0. Disconnecting' = Disconnecting /\ alive' = alive /\ "global" \notin Asleep \cup Leaving
  BY DEF Disconnecting, Aside, Asleep, Leaving
<1>1. NumberInv'
  <2>1. Renumbered(0)
    BY ChannelsAssumption DEF Renumbered, Slots, Aside
  <2>2. made \in Nat /\ (\A d \in Slots : chan[d].inc \in Nat) /\ server \in SUBSET Records
    BY StateTypes, ObjectIs DEF ChannelsInv
  <2>3. Objected'
    BY <2>1, <2>2, ObjectedKept DEF ChannelsInv, NumberInv
  <2>4. Recorded'
    BY <2>1, <2>2, RecordedKept DEF ChannelsInv, NumberInv, Aside
  <2> QED BY <2>3, <2>4 DEF NumberInv
<1>2. ASSUME NEW d \in Slots
      PROVE  Unmoved(d)
  BY DEF Aside, Unmoved, Recs
<1>3. TableInv'
  <2>1. ASSUME NEW d \in Slots
        PROVE  SlotOf(d)' /\ Sent(d)'
    <3>1. SlotOf(d) /\ Sent(d) /\ Unmoved(d)
      BY <1>2 DEF ChannelsInv, TableInv
    <3>2. SlotOf(d)'
      BY <1>0, <3>1 DEF SlotOf, Unmoved
    <3>3. Sent(d)'
      BY <1>0, <3>1 DEF Sent, Unmoved, Aside
    <3> QED BY <3>2, <3>3
  <2> QED BY <2>1 DEF TableInv
<1>4. ASSUME NEW v \in Users, UserOf(v)
      PROVE  UserOf(v)'
  <2>1. CASE slot[v] = NoSlot
    BY <1>4, <2>1 DEF UserOf, Aside
  <2>2. CASE slot[v] # NoSlot
    <3>1. PICK d \in Slots : d = slot[v]
      BY <1>4, <2>2 DEF UserOf
    <3>2. Works(alive, pc[v], api[v], asked[v], chan[d], outQ[d], In(d), Recs(d))
      BY <1>4, <2>2, <3>1 DEF UserOf
    <3>3. pc'[v] = pc[v] /\ api'[v] = api[v] /\ asked'[v] = asked[v] /\ slot'[v] = d
      BY <3>1, <3>2 DEF Aside, Works, Held
    <3>4. Works(alive, pc[v], api[v], asked[v], chan[d], outQ[d], In(d), Recs(d))'
      BY <1>0, <1>2, <3>2, <3>3 DEF Unmoved
    <3> QED BY <2>2, <3>1, <3>3, <3>4 DEF UserOf
  <2> QED BY <2>1, <2>2
<1>5. Working => Working'
  <2>1. Alone => Alone'
    BY DEF Alone, Aside
  <2> QED BY <1>4, <2>1 DEF Working
<1>6. Departing => Departing'
  <2>1. ASSUME NEW u \in Users, Leaves(u)
        PROVE  Leaves(u)'
    <3>1. pc'[u] = pc[u] /\ slot'[u] = slot[u] /\ chan' = chan /\ alive' = alive
      BY <1>0, <2>1 DEF Leaves, Visits, Aside
    <3>2. Visits(pc[u], slot[u])'
      BY <2>1, <3>1 DEF Leaves, Visits
    <3>3. \A v \in Users \ {u} : pc'[v] = "gone" /\ api'[v] # "disconnect" /\ slot'[v] = NoSlot
      BY <2>1 DEF Leaves, Aside
    <3> QED BY <3>2, <3>3 DEF Leaves
  <2> QED BY <2>1 DEF Departing, Aside
<1>7. UserInv'
  BY <1>0, <1>5, <1>6 DEF ChannelsInv, UserInv
<1> QED BY <1>1, <1>3, <1>7 DEF ChannelsInv

LEMMA AnsweredGlobally ==
    ASSUME ChannelsInv, fromServer # <<>>, GlobalResult(Head(fromServer)), Handled,
           UNCHANGED <<api, slot, reads, asked, asks, alive, server, said>>
    PROVE  ChannelsInv'
<1>1. fromServer \in Seq(InMsg) /\ fromServer \in Seq(Msg)
  BY StateTypes DEF ChannelsInv, Shape, NetShape
<1>2. PICK m : m = Head(fromServer) /\ m \in InMsg /\ m.kind = "forwarded"
  BY <1>1 DEF GlobalResult
<1>3. m.c \notin Slots
  BY <1>2 DEF InMsg, Unasked
<1>4. \A d \in Slots : Main(d)' = Main(d) /\ In(d)' = In(d)
  <2>1. Takesoff(fromServer', fromServer)
    BY <1>1 DEF Takesoff, Handled
  <2>2. \A d \in Slots : View(fromServer', d) = View(fromServer, d)
    BY <1>2, <1>3, <2>1, ViewTaken
  <2> QED BY <2>2 DEF In, Main, GlobalResult, tableVars
<1>5. pc' \in [Users -> Using \cup Leaving]
      /\ \A v \in Users : pc'[v] = pc[v] \/ (pc[v] = "global" /\ pc'[v] = "idle")
  BY DEF GlobalResult, ChannelsInv, Shape, UserShape, Using
<1>6. Shape'
  <2>1. fromServer' \in Seq(InMsg)
    BY <1>1, TailType DEF Handled
  <2>2. NetShape'
    BY <2>1 DEF ChannelsInv, Shape, NetShape, Handled, Openings
  <2>3. TableShape'
    BY DEF ChannelsInv, Shape, TableShape, GlobalResult, tableVars
  <2>4. UserShape'
    BY <1>5 DEF ChannelsInv, Shape, UserShape
  <2> QED BY <2>2, <2>3, <2>4 DEF Shape
<1>7. Aside
  BY <1>4, <1>5 DEF Aside, GlobalResult, tableVars
<1>8. Confirming'
  BY DEF ChannelsInv, NumberInv, Confirming, Sits, GlobalResult, tableVars
<1>9. OpeningInv'
  BY DEF OpeningInv, Handled
<1> QED BY <1>6, <1>7, <1>8, <1>9, AsideKeeps

\* Transport fails at a look through the table.
LEMMA Faults ==
    ASSUME ChannelsInv, Fault, UNCHANGED pc,
           UNCHANGED <<api, slot, reads, asked, asks, alive, server, said>>
    PROVE  ChannelsInv'
  BY OnlyBroken DEF Fault, userVars, netVars

\* A channel of the server is refused.
LEMMA MainRefused ==
    ASSUME Shape, NEW q, q = Append(mainQ, MainMessage("refuseOpen", NoSlot, 0, NoSlot))
    PROVE  /\ q \in Seq(MainMsg) /\ \A d \in Slots : View(q, d) = View(mainQ, d)
           /\ \E m \in Msg : q = Append(mainQ, m) /\ m.inc = 0
<1>1. PICK m : m = MainMessage("refuseOpen", NoSlot, 0, NoSlot)
  OBVIOUS
<1>2. m \in Msg /\ m.kind = "refuseOpen" /\ m.c = NoSlot /\ m.inc = 0
  BY <1>1 DEF MainMessage, Msg, MainKinds, Numbers
<1>3. NoSlot \notin Slots
  BY ChannelsAssumption DEF NoSlot, Slots
<1>4. m \in MainMsg
  BY <1>2, <1>3 DEF MainMsg, MainKinds
<1>5. Appends(q, mainQ, m)
  BY <1>1, <1>2, StateTypes DEF Appends
<1>6. \A d \in Slots : View(q, d) = View(mainQ, d)
  BY <1>2, <1>3, <1>5, ViewAppended
<1> QED BY <1>1, <1>2, <1>4, <1>6 DEF Shape, TableShape

LEMMA PlaceholderAsked ==
    ASSUME ChannelsInv, alive, fromServer # <<>>, Head(fromServer).kind = "openForwarded",
           AskForPlaceholder, UNCHANGED pc,
           UNCHANGED <<api, slot, reads, asked, asks, alive, server, said>>
    PROVE  ChannelsInv'
<1>1. CASE LooksThroughNull
  BY <1>1, Faults DEF AskForPlaceholder
<1>2. CASE ~LooksThroughNull /\ isValidRemotePortForward
  <2>1. /\ opening' = [NotOpening EXCEPT !.at = "new"]
        /\ UNCHANGED <<mainQ, fromServer, chan, outQ, made, broken>>
    BY <1>2 DEF AskForPlaceholder
  <2>2. opening'.at = "new" /\ opening' \in Openings
    BY <2>1 DEF NotOpening, Openings
  <2>3. OpeningInv'
    BY <2>1, <2>2 DEF OpeningInv
  <2>4. Shape'
    BY <2>1, <2>2 DEF ChannelsInv, Shape, TableShape, UserShape, NetShape
  <2>5. Aside
    BY <2>1 DEF Aside, Main, In
  <2>6. Confirming'
    BY <2>1 DEF ChannelsInv, NumberInv, Confirming, Sits
  <2> QED BY <2>3, <2>4, <2>5, <2>6, AsideKeeps
<1>3. CASE ~LooksThroughNull /\ ~isValidRemotePortForward
  <2>s. Shape
    BY DEF ChannelsInv
  <2>1. /\ mainQ' = Append(mainQ, MainMessage("refuseOpen", NoSlot, 0, NoSlot)) /\ Handled
        /\ UNCHANGED <<chan, outQ, made, broken>>
    BY <1>3 DEF AskForPlaceholder, RefuseOpen
  <2>2. /\ mainQ' \in Seq(MainMsg) /\ \A d \in Slots : View(mainQ', d) = View(mainQ, d)
        /\ \E m \in Msg : mainQ' = Append(mainQ, m) /\ m.inc = 0
    BY <2>s, <2>1, MainRefused
  <2>3. fromServer \in Seq(InMsg) /\ fromServer \in Seq(Msg)
    BY <2>s, StateTypes DEF Shape, NetShape
  <2>4. \A d \in Slots : View(fromServer', d) = View(fromServer, d)
    <3>1. Takesoff(fromServer', fromServer)
      BY <2>1, <2>3 DEF Takesoff, Handled
    <3>2. Head(fromServer).c \notin Slots
      <4>1. Head(fromServer) \in InMsg
        BY <2>3
      <4> QED BY <4>1 DEF InMsg, Unasked
    <3> QED BY <3>1, <3>2, ViewTaken
  <2>5. Aside
    BY <2>1, <2>2, <2>4 DEF Aside, Main, In
  <2>6. fromServer' \in Seq(InMsg)
    BY <2>1, <2>3, TailType DEF Handled
  <2>7. Shape'
    BY <2>s, <2>1, <2>2, <2>6 DEF Shape, TableShape, UserShape, NetShape, Handled, Openings
  <2>8. Confirming'
    <3>1. PICK m \in Msg : mainQ' = Append(mainQ, m) /\ m.inc = 0
      BY <2>2
    <3>2. made \in Nat /\ mainQ \in Seq(Msg)
      BY <2>s, StateTypes
    <3>3. Sits(m.inc, m.c)'
      BY <2>1, <3>1, <3>2 DEF Sits
    <3>4. Renumbered(0)
      BY <2>1, ChannelsAssumption DEF Renumbered, Slots
    <3> QED BY <3>1, <3>2, <3>3, <3>4, ConfirmingKept DEF ChannelsInv, NumberInv
  <2>9. OpeningInv'
    BY <2>1 DEF OpeningInv, Handled
  <2> QED BY <2>5, <2>7, <2>8, <2>9, AsideKeeps
<1> QED BY <1>1, <1>2, <1>3

-----------------------------------------------------------------------------
(* The channels that the server opens. *)

LEMMA Placed ==
    ASSUME ChannelsInv, NEW c \in Slots, chan[c] \notin Regular, chan'[c] \notin Regular,
           Renumbered(c), UNCHANGED <<pc, api, slot, asked, alive, server>>,
           \A d \in Slots \ {c} : Unmoved(d), SlotOf(c)', Confirming'
    PROVE  NumberInv' /\ TableInv' /\ UserInv'
<1>1. Touches(c)
  BY DEF Touches
<1>2. ASSUME ~Disconnecting, NEW v \in Users, slot[v] = c
      PROVE  UserOf(v)'
  <2>1. c # NoSlot
    BY ChannelsAssumption DEF Slots, NoSlot
  <2> QED BY <1>2, <2>1, OwnFine
<1>3. ASSUME NEW u \in Users, api[u] = "disconnect"
      PROVE  Visits(pc[u], slot[u])'
  <2>1. Visits(pc[u], slot[u])
    BY <1>3 DEF ChannelsInv, UserInv, Departing, Leaves
  <2>2. CASE slot[u] = c
    <3>1. /\ pc[u] # "closeQueue" /\ pc[u] \notin Asleep
          /\ "closeAsleep" \in Asleep /\ "delete" \in Asleep
      BY <2>1, <2>2 DEF Visits, Asleep
    <3> QED BY <2>1, <2>2, <3>1 DEF Visits
  <2>3. CASE slot[u] # c
    <3>1. slot[u] \in Slots => chan'[slot[u]] = chan[slot[u]]
      BY <2>3 DEF Unmoved
    <3>2. Asleep \cap {"visit", "visitLost", "gone"} = {}
      BY DEF Asleep
    <3> QED BY <2>1, <3>1, <3>2 DEF Visits
  <2> QED BY <2>2, <2>3
<1>4. TableInv' /\ UserInv'
  BY <1>1, <1>2, <1>3, NetStep
<1>5. NumberInv'
  <2>2. made \in Nat /\ (\A d \in Slots : chan[d].inc \in Nat) /\ server \in SUBSET Records
    BY StateTypes, ObjectIs DEF ChannelsInv
  <2>3. Objected'
    BY <2>2, ObjectedKept DEF ChannelsInv, NumberInv
  <2>4. Recorded'
    BY <2>2, RecordedKept DEF ChannelsInv, NumberInv
  <2> QED BY <2>3, <2>4 DEF NumberInv
<1> QED BY <1>4, <1>5

\* The request of the server that is handled.
Offers(m) ==
    /\ alive /\ fromServer # <<>> /\ m = Head(fromServer)
    /\ m.kind \in {"openForwarded", "openX11"}
    /\ UNCHANGED <<pc, api, slot, reads, asked, asks, alive, server, said>>

LEMMA Offered ==
    ASSUME ChannelsInv, NEW m, Offers(m)
    PROVE  /\ m \in Msg /\ m.c \notin Slots /\ m.remote \in Numbers /\ m.remote > MaxMade
           /\ Tail(fromServer) \in Seq(InMsg) /\ fromServer \in Seq(InMsg)
           /\ \A d \in Slots : View(Tail(fromServer), d) = In(d)
<1>1. fromServer \in Seq(InMsg) /\ fromServer \in Seq(Msg)
  BY StateTypes DEF ChannelsInv, Shape, NetShape
<1>2. m \in InMsg /\ Tail(fromServer) \in Seq(InMsg)
  BY <1>1, TailType DEF Offers
<1>3. m \in Msg /\ m.c \notin Slots /\ m.remote \in Numbers /\ m.remote > MaxMade
  BY <1>2 DEF Offers, InMsg, Unasked, Msg
<1>4. \A d \in Slots : View(Tail(fromServer), d) = View(fromServer, d)
  <2>1. PICK t : t = Tail(fromServer)
    OBVIOUS
  <2>2. Takesoff(t, fromServer)
    BY <1>1, <2>1 DEF Takesoff, Offers
  <2>3. \A d \in Slots : View(t, d) = View(fromServer, d)
    BY <1>3, <2>2, ViewTaken DEF Offers
  <2> QED BY <2>1, <2>3
<1> QED BY <1>1, <1>2, <1>3, <1>4 DEF In

LEMMA OpenedIs ==
    ASSUME ChannelsInv, NEW m, m.remote \in Numbers, NEW y, y = OpenedByServer(m)
    PROVE  NewPlaceholder(y) /\ y \in Objects /\ y \notin Regular /\ y.inc = made + 1
<1>1. MadePlaceholder(y, "open", m.remote, FALSE)
  BY DEF OpenedByServer, setRemoteChannelNumber, NewObject, MadePlaceholder
<1>2. made \in Nat
  BY StateTypes DEF ChannelsInv
<1> QED BY <1>1, <1>2, NewForwarded

LEMMA ForwardedAccepted ==
    ASSUME ChannelsInv, NEW m, Offers(m), m.kind = "openForwarded", AcceptForwarded(m)
    PROVE  ChannelsInv'
<1>s. Shape /\ NumberInv /\ TableInv
  BY DEF ChannelsInv
<1>1. CASE FreeSlots = {}
  BY <1>1, Faults DEF AcceptForwarded, Offers
<1>2. CASE FreeSlots # {}
  <2>1. PICK c \in Slots : c = Min(FreeSlots) /\ chan[c] = NoChannel
    BY <1>2, FirstFree
  <2>2. PICK y : y = OpenedByServer(m)
    OBVIOUS
  <2>3. /\ made < MaxMade /\ chan' = [chan EXCEPT ![c] = y] /\ made' = made + 1
        /\ opening' = [at |-> "notify", c |-> c]
        /\ UNCHANGED <<outQ, mainQ, broken, fromServer>> /\ opening # NotOpening
    BY <1>2, <2>1, <2>2 DEF AcceptForwarded, newChannel, NotOpening
  <2>4. NewPlaceholder(y) /\ y \in Objects /\ y \notin Regular /\ y.inc = made + 1
    BY <2>2, Offered, OpenedIs
  <2>5. chan'[c] = y /\ (\A d \in Slots \ {c} : chan'[d] = chan[d]) /\ made \in Nat
    BY <1>s, <2>3, StateTypes DEF Shape, TableShape
  <2>6. \A d \in Slots : /\ outQ'[d] = outQ[d] /\ Main(d)' = Main(d)
                         /\ In(d)' = In(d) /\ Recs(d)' = Recs(d)
    BY <2>3 DEF Main, In, Recs, Offers
  <2>7. Renumbered(c)
    BY <2>3, <2>4, <2>5 DEF Renumbered
  <2>8. PICK M, o, f, S, d : /\ M = Main(c) /\ o = outQ[c] /\ f = In(c) /\ S = Recs(c)
                             /\ d = Disconnecting /\ d \in BOOLEAN
    BY DEF Disconnecting
  <2>9. Stands(TRUE, NoChannel, M, o, f, S, d)
    <3>1. SlotOf(c) /\ alive = TRUE
      BY <1>s, StateTypes DEF TableInv, Offers
    <3> QED BY <2>1, <2>8, <3>1 DEF SlotOf
  <2>10. SlotOf(c)'
    <3>1. Stands(TRUE, y, M, o, f, S, d)
      BY <2>4, <2>8, <2>9, StandsPlaceholder
    <3>2. alive' = TRUE /\ Disconnecting' = d
      BY <1>s, <2>8, StateTypes DEF Offers, Disconnecting
    <3> QED BY <2>5, <2>6, <2>8, <3>1, <3>2 DEF SlotOf
  <2>11. Confirming'
    BY <2>3, <2>7, ConfirmingSame
  <2>12. NumberInv' /\ TableInv' /\ UserInv'
    <3>1. chan[c] \notin Regular /\ chan'[c] \notin Regular
      BY <2>1, <2>4, <2>5, ObjectIs
    <3>2. \A k \in Slots \ {c} : Unmoved(k)
      BY <2>5, <2>6 DEF Unmoved
    <3>3. UNCHANGED <<pc, api, slot, asked, alive, server>>
      BY DEF Offers
    <3> QED BY <2>7, <2>10, <2>11, <3>1, <3>2, <3>3, Placed
  <2>13. OpeningInv'
    <3>1. opening'.at = "notify" /\ opening'.c = c
      BY <2>3
    <3>2. ~Disconnecting => M = <<>> /\ f = <<>> /\ \A r \in S : r.closed
      <4> SUFFICES ASSUME ~Disconnecting
                   PROVE  M = <<>> /\ f = <<>> /\ \A r \in S : r.closed
        OBVIOUS
      <4>1. LinkOf(NoChannel, M, o, f, S, FALSE)
        <5>1. d = FALSE
          BY <2>8
        <5>2. LinkOf(NoChannel, M, o, f, S, d)
          BY <2>9 DEF Stands
        <5> QED BY <5>1, <5>2
      <4>2. M = <<>> /\ o = <<>> /\ f = <<>> /\ \A r \in S : r.closed
        BY <4>1, EmptySlot
      <4> QED BY <4>2
    <3>3. ~Disconnecting' => In(c)' = <<>> /\ Main(c)' = <<>> /\ \A r \in Recs(c)' : r.closed
      BY <2>6, <2>8, <3>2 DEF Offers, Disconnecting
    <3>4. chan'[c] \notin Regular /\ chan'[c] # NoChannel
      BY <2>4, <2>5, ObjectIs DEF NewPlaceholder
    <3>5. alive' /\ fromServer' # <<>> /\ Head(fromServer').kind = "openForwarded"
      BY <2>3 DEF Offers
    <3> QED BY <3>1, <3>3, <3>4, <3>5 DEF OpeningInv
  <2>14. Shape'
    <3>1. opening' \in Openings
      BY <2>3 DEF Openings
    <3>2. TableShape'
      BY <1>s, <2>3, <2>4, ChannelsAssumption DEF Shape, TableShape
    <3> QED BY <1>s, <2>3, <3>1, <3>2 DEF Shape, UserShape, NetShape, Offers
  <2> QED BY <2>12, <2>13, <2>14 DEF ChannelsInv
<1> QED BY <1>1, <1>2

-----------------------------------------------------------------------------
(* The confirmation, and the end of handleChannelOpenRequest. *)

ConfirmsAs(b, c, n, q) ==
    /\ b \in Msg /\ b.kind = "confirmOpen" /\ b.c = c /\ b.inc = n
    /\ q = Append(mainQ, b) /\ View(q, c) = Append(Main(c), b)

LEMMA Confirms ==
    ASSUME ChannelsInv, NEW c \in Slots, NEW n \in Nat, NEW r \in Numbers, r > MaxMade,
           NEW q, q = Append(mainQ, MainMessage("confirmOpen", c, n, r))
    PROVE  /\ q \in Seq(MainMsg) /\ \A d \in Slots \ {c} : View(q, d) = Main(d)
           /\ \E b : ConfirmsAs(b, c, n, q)
<1>1. PICK b : b = MainMessage("confirmOpen", c, n, r)
  OBVIOUS
<1>2. b \in Msg /\ b.kind = "confirmOpen" /\ b.c = c /\ b.inc = n /\ b.remote = r
  BY <1>1 DEF MainMessage, Msg, MainKinds
<1>3. b \in MainMsg
  BY <1>2 DEF MainMsg, MainKinds
<1>4. Appends(q, mainQ, b)
  BY <1>1, <1>2, StateTypes DEF Appends, ChannelsInv
<1>5. View(q, c) = Append(Main(c), b) /\ \A d \in Slots \ {c} : View(q, d) = Main(d)
  <2>1. /\ Appends(View(q, c), View(mainQ, c), b)
        /\ \A d \in Slots \ {c} : View(q, d) = View(mainQ, d)
    BY <1>2, <1>4, ViewAppended
  <2> QED BY <2>1 DEF Appends, Main
<1>6. ConfirmsAs(b, c, n, q)
  BY <1>1, <1>2, <1>5 DEF ConfirmsAs
<1>7. q \in Seq(MainMsg)
  BY <1>1, <1>3 DEF ChannelsInv, Shape, TableShape
<1> QED BY <1>5, <1>6, <1>7

LEMMA StandsConfirm ==
    ASSUME NEW y \in Objects, NEW M \in Seq(Msg), NEW o, NEW f, NEW S, NEW d \in BOOLEAN,
           Stands(TRUE, y, M, o, f, S, d), y \notin Regular, ~d => y # NoChannel,
           NEW b, NEW c, NEW n, NEW q, ConfirmsAs(b, c, n, q), n = y.inc
    PROVE  Stands(TRUE, y, Append(M, b), o, f, S, d)
<1>1. LinkOf(y, M, o, f, S, d) /\ Lasts(y, d)
  BY DEF Stands
<1>2. b \in Msg /\ b.kind = "confirmOpen" /\ b.inc = y.inc
  BY DEF ConfirmsAs
<1>3. LinkOf(y, Append(M, b), o, f, S, d)
  BY <1>1, <1>2, LinkConfirmOpen
<1> QED BY <1>1, <1>3 DEF Stands

LEMMA ForwardedNotified ==
    ASSUME ChannelsInv, NEW m, Offers(m), NotifyForwarded(m)
    PROVE  ChannelsInv'
  BY Faults DEF NotifyForwarded, Offers

-----------------------------------------------------------------------------
(* An X11 channel, and all that Transport does. *)

LEMMA X11Unanswered ==
    ASSUME ChannelsInv, NEW m, Offers(m), made < MaxMade, made' = made + 1, Handled,
           UNCHANGED <<chan, mainQ, outQ, broken>>
    PROVE  ChannelsInv'
<1>s. Shape /\ NumberInv
  BY DEF ChannelsInv
<1>1. Shape'
  <2>1. fromServer' \in Seq(InMsg)
    BY Offered DEF Handled
  <2>2. made' \in 0 .. MaxMade
    BY <1>s, ChannelsAssumption DEF Shape, TableShape
  <2> QED BY <1>s, <2>1, <2>2
          DEF Shape, TableShape, UserShape, NetShape, Handled, Openings, Offers
<1>2. Aside
  <2>1. \A d \in Slots : View(fromServer', d) = In(d)
    BY Offered DEF Handled
  <2> QED BY <2>1 DEF Aside, Main, In, Offers
<1>3. Confirming'
  <2>1. Renumbered(0)
    BY ChannelsAssumption DEF Renumbered, Slots
  <2> QED BY <2>1, ConfirmingSame
<1>4. OpeningInv'
  BY DEF OpeningInv, Handled
<1> QED BY <1>1, <1>2, <1>3, <1>4, AsideKeeps

LEMMA X11Opened ==
    ASSUME ChannelsInv, NEW m, Offers(m), FreeSlots # {}, made < MaxMade, made' = made + 1,
           Handled, chan' = [chan EXCEPT ![Min(FreeSlots)] = OpenedByServer(m)],
           ConfirmOpen(Min(FreeSlots), OpenedByServer(m), m), UNCHANGED <<outQ, broken>>
    PROVE  ChannelsInv'
<1>s. Shape /\ NumberInv /\ TableInv
  BY DEF ChannelsInv
<1>1. PICK c \in Slots : c = Min(FreeSlots) /\ chan[c] = NoChannel
  BY FirstFree
<1>2. PICK y, n, r : y = OpenedByServer(m) /\ n = y.inc /\ r = m.remote
  OBVIOUS
<1>3. /\ NewPlaceholder(y) /\ y \in Objects /\ y \notin Regular /\ n = made + 1 /\ y # NoChannel
      /\ r \in Numbers /\ r > MaxMade /\ made \in Nat /\ n \in Nat /\ mainQ \in Seq(Msg)
  BY <1>s, <1>2, StateTypes, Offered, OpenedIs, ObjectIs DEF NewPlaceholder
<1>4. /\ chan' = [chan EXCEPT ![c] = y]
      /\ mainQ' = Append(mainQ, MainMessage("confirmOpen", c, n, r))
  BY <1>1, <1>2 DEF ConfirmOpen
<1>5. chan'[c] = y /\ \A k \in Slots \ {c} : chan'[k] = chan[k]
  BY <1>s, <1>4 DEF Shape, TableShape
<1>6. PICK q : q = mainQ' /\ q = Append(mainQ, MainMessage("confirmOpen", c, n, r))
  BY <1>4
<1>7. /\ q \in Seq(MainMsg) /\ \A d \in Slots \ {c} : View(q, d) = Main(d)
      /\ \E b : ConfirmsAs(b, c, n, q)
  <2>1. n \in Nat /\ r \in Numbers /\ r > MaxMade
    BY <1>3
  <2> QED BY <1>6, <2>1, Confirms
<1>8. PICK b : ConfirmsAs(b, c, n, q)
  BY <1>7
<1>9. PICK M, o, f, S, d : /\ M = Main(c) /\ o = outQ[c] /\ f = In(c) /\ S = Recs(c)
                           /\ d = Disconnecting /\ d \in BOOLEAN /\ M \in Seq(Msg)
  BY <1>s, StateTypes DEF Disconnecting
<1>10. Stands(TRUE, y, M, o, f, S, d)
  <2>1. SlotOf(c) /\ alive = TRUE
    BY <1>s, StateTypes DEF TableInv, Offers
  <2>2. Stands(TRUE, NoChannel, M, o, f, S, d)
    BY <1>1, <1>9, <2>1 DEF SlotOf
  <2> QED BY <1>3, <1>9, <2>2, StandsPlaceholder
<1>11. Stands(TRUE, y, Append(M, b), o, f, S, d)
  BY <1>2, <1>3, <1>8, <1>9, <1>10, StandsConfirm
<1>12. Main(c)' = Append(M, b) /\ \A k \in Slots \ {c} : Main(k)' = Main(k)
  BY <1>6, <1>7, <1>8, <1>9 DEF ConfirmsAs, Main
<1>13. \A k \in Slots : In(k)' = In(k) /\ Recs(k)' = Recs(k)
  <2>1. \A k \in Slots : View(fromServer', k) = In(k)
    BY Offered DEF Handled
  <2> QED BY <2>1 DEF In, Recs, Offers
<1>14. SlotOf(c)'
  <2>1. alive' = TRUE /\ Disconnecting' = d
    BY <1>s, <1>9, StateTypes DEF Offers, Disconnecting
  <2> QED BY <1>5, <1>9, <1>11, <1>12, <1>13, <2>1 DEF SlotOf
<1>15. Renumbered(c)
  BY <1>2, <1>3, <1>5 DEF Renumbered
<1>16. Confirming'
  <2>1. Objected'
    BY <1>s, <1>3, <1>15, StateTypes, ObjectIs, ObjectedKept DEF NumberInv
  <2>2. Sits(b.inc, b.c)' /\ b \in Msg /\ mainQ' = Append(mainQ, b)
    BY <1>2, <1>5, <1>6, <1>8, <2>1 DEF ConfirmsAs, Objected, Sits
  <2> QED BY <1>s, <1>3, <1>15, <2>2, ConfirmingKept DEF NumberInv
<1>17. NumberInv' /\ TableInv' /\ UserInv'
  <2>1. chan[c] \notin Regular /\ chan'[c] \notin Regular
    BY <1>1, <1>3, <1>5, ObjectIs
  <2>2. \A k \in Slots \ {c} : Unmoved(k)
    BY <1>5, <1>12, <1>13 DEF Unmoved
  <2>3. UNCHANGED <<pc, api, slot, asked, alive, server>>
    BY DEF Offers
  <2> QED BY <1>14, <1>15, <1>16, <2>1, <2>2, <2>3, Placed
<1>18. OpeningInv'
  BY DEF OpeningInv, Handled
<1>19. Shape'
  <2>1. fromServer' \in Seq(InMsg)
    BY Offered DEF Handled
  <2>2. TableShape'
    <3>1. chan' \in [Slots -> Objects]
      BY <1>s, <1>3, <1>4 DEF Shape, TableShape
    <3>2. mainQ' \in Seq(MainMsg) /\ made' \in 0 .. MaxMade
      BY <1>3, <1>6, <1>7, ChannelsAssumption
    <3> QED BY <1>s, <3>1, <3>2 DEF Shape, TableShape
  <2> QED BY <1>s, <2>1, <2>2 DEF Shape, UserShape, NetShape, Handled, Openings, Offers
<1> QED BY <1>17, <1>18, <1>19 DEF ChannelsInv

LEMMA TransportKeeps ==
    ASSUME ChannelsInv, Transport
    PROVE  ChannelsInv'
<1>1. PICK m : m = Head(fromServer)
  OBVIOUS
<1>2. /\ alive /\ fromServer # <<>>
      /\ UNCHANGED <<api, slot, reads, asked, asks, alive, server, said>>
  BY DEF Transport
<1>3. CASE GlobalResult(m) /\ Handled
  BY <1>1, <1>2, <1>3, AnsweredGlobally
<1>4. CASE /\ \/ setChannelCreateResult(m) \/ setChannelRequestResult(m)
              \/ setChannelCloseMsgReceived(m) \/ queueInboundData(m) \/ setEOF_recieved(m)
           /\ Handled
  BY <1>1, <1>2, <1>4, MessagesHandled
<1>5. CASE handleForwardedOpen(m)
  <2>1. Offers(m) /\ m.kind = "openForwarded" /\ UNCHANGED pc
    BY <1>1, <1>2, <1>5 DEF Offers, handleForwardedOpen
  <2>2. AskForPlaceholder => ChannelsInv'
    BY <1>1, <1>2, <2>1, PlaceholderAsked
  <2> QED BY <1>5, <2>1, <2>2, ForwardedAccepted, ForwardedNotified DEF handleForwardedOpen
<1>6. CASE handleX11Open(m)
  <2>1. Offers(m)
    BY <1>1, <1>2, <1>6 DEF Offers, handleX11Open
  <2>2. CASE FreeSlots = {}
    BY <1>2, <1>6, <2>2, Faults DEF handleX11Open
  <2>3. CASE FreeSlots # {}
    BY <1>6, <2>1, <2>3, X11Unanswered, X11Opened DEF handleX11Open
  <2> QED BY <2>2, <2>3
<1> QED BY <1>1, <1>3, <1>4, <1>5, <1>6 DEF Transport

-----------------------------------------------------------------------------
(* SocketSend and the server: only what is under way about the slot c changes. *)

Becomes(c, x, M, o, f, S, N, t, g, T) ==
    /\ x = chan[c] /\ M = Main(c) /\ o = outQ[c] /\ f = In(c) /\ S = Recs(c)
    /\ N = Main(c)' /\ t = outQ'[c] /\ g = In(c)' /\ T = Recs(c)'
Served(x, o, f, S, t, g, T) ==
    \A p, a, n : Works(TRUE, p, a, n, x, o, f, S) => Works(TRUE, p, a, n, x, t, g, T)
SameFirst ==
    fromServer # <<>> => fromServer' # <<>> /\ Head(fromServer') = Head(fromServer)
Quietly ==
    /\ alive /\ SameFirst /\ UNCHANGED <<chan, made, broken, opening, alive>>
    /\ UNCHANGED userVars

LEMMA Linked ==
    ASSUME ChannelsInv, Quietly, NEW c \in Slots, \A d \in Slots \ {c} : Unmoved(d),
           NEW x, NEW M, NEW o, NEW f, NEW S, NEW N, NEW t, NEW g, NEW T,
           Becomes(c, x, M, o, f, S, N, t, g, T), LinkOf(x, N, t, g, T, Disconnecting),
           ~Disconnecting => Served(x, o, f, S, t, g, T), Recorded', Confirming', Shape',
           opening # NotOpening /\ opening.at = "notify" /\ opening.c = c => Disconnecting
    PROVE  ChannelsInv'
<1>0. Disconnecting' = Disconnecting /\ alive = TRUE /\ alive' = TRUE
      /\ UNCHANGED <<pc, api, slot, asked>>
  BY StateTypes DEF Disconnecting, Quietly, userVars, ChannelsInv
<1>1. SlotOf(c) /\ chan'[c] = x /\ c # NoSlot
  BY ChannelsAssumption DEF ChannelsInv, TableInv, Becomes, Quietly, Slots, NoSlot
<1>2. SlotOf(c)'
  <2>1. Lasts(x, Disconnecting)
    BY <1>1 DEF SlotOf, Stands, Becomes
  <2>2. Stands(TRUE, x, N, t, g, T, Disconnecting)
    BY <2>1 DEF Stands
  <2> QED BY <1>0, <1>1, <2>2 DEF SlotOf, Becomes
<1>3. Renumbered(c)
  BY DEF Renumbered, Quietly
<1>4. Touches(c)
  BY <1>0, <1>3 DEF Touches, Quietly
<1>5. ASSUME ~Disconnecting, NEW v \in Users, slot[v] = c
      PROVE  UserOf(v)'
  <2>1. UserOf(v)
    BY <1>5 DEF ChannelsInv, UserInv, Working
  <2>2. PICK p, a, n : p = pc[v] /\ a = api[v] /\ n = asked[v]
    OBVIOUS
  <2>3. Works(TRUE, p, a, n, x, o, f, S)
    BY <1>0, <1>1, <1>5, <2>1, <2>2 DEF UserOf, Becomes
  <2>4. Works(TRUE, p, a, n, x, t, g, T)
    BY <1>5, <2>3 DEF Served
  <2> QED BY <1>0, <1>1, <1>5, <2>2, <2>4 DEF UserOf, Becomes
<1>6. ASSUME NEW u \in Users, api[u] = "disconnect"
      PROVE  Visits(pc[u], slot[u])'
  <2>1. Visits(pc[u], slot[u])
    BY <1>6 DEF ChannelsInv, UserInv, Departing, Leaves
  <2> QED BY <1>0, <2>1 DEF Visits, Quietly
<1>7. TableInv' /\ UserInv'
  BY <1>2, <1>4, <1>5, <1>6, NetStep
<1>8. Objected'
  BY DEF ChannelsInv, NumberInv, Objected, Sits, Quietly
<1>9. OpeningInv'
  <2>1. opening # NotOpening /\ opening.at = "notify" /\ opening.c = c => chan'[c] \notin Regular
    BY DEF ChannelsInv, OpeningInv, Quietly
  <2> QED BY <1>0, <2>1, OpeningKept DEF ChannelsInv, Quietly, SameFirst
<1> QED BY <1>7, <1>8, <1>9 DEF ChannelsInv, NumberInv

LEMMA FirstStays ==
    ASSUME NEW A, NEW s \in Seq(A), NEW m \in A, s # <<>>
    PROVE  Append(s, m) # <<>> /\ Head(Append(s, m)) = Head(s)
  OBVIOUS

LEMMA ServerOpensKeeps ==
    ASSUME ChannelsInv, ServerOpens
    PROVE  ChannelsInv'
<1>1. PICK kind \in {"openForwarded", "openX11"} :
         Answer(kind, [c |-> NoSlot, inc |-> 0, remote |-> MaxMade + said'], 0)
  BY DEF ServerOpens
<1>2. PICK a : a = Reply(kind, [c |-> NoSlot, inc |-> 0, remote |-> MaxMade + said'], 0)
  OBVIOUS
<1>3. /\ alive /\ said' = said + 1 /\ fromServer' = Append(fromServer, a)
      /\ UNCHANGED <<opening, alive, server>>
  BY <1>1, <1>2 DEF ServerOpens, Answer
<1>4. /\ UNCHANGED tableVars /\ UNCHANGED userVars
  BY DEF ServerOpens
<1>5. said \in Nat /\ MaxMade + said' \in Nat /\ MaxMade + said' > MaxMade
  BY <1>3, ChannelsAssumption DEF ChannelsInv, Shape, NetShape
<1>6. a \in Msg /\ a.kind = kind /\ a.c = NoSlot /\ a.remote > MaxMade /\ NoSlot \notin Slots
  <2>1. a = [kind |-> kind, c |-> NoSlot, inc |-> 0, remote |-> MaxMade + said', id |-> 0]
    BY <1>2 DEF Reply
  <2>2. kind \in InKinds /\ NoSlot \notin Slots
    BY ChannelsAssumption DEF InKinds, Unasked, NoSlot, Slots
  <2> QED BY <1>5, <2>1, <2>2 DEF Msg, Numbers
<1>7. a \in InMsg
  BY <1>6 DEF InMsg, InKinds, Unasked
<1>8. fromServer \in Seq(InMsg) /\ fromServer \in Seq(Msg)
  BY StateTypes DEF ChannelsInv, Shape, NetShape
<1>9. Aside
  <2>1. Appends(fromServer', fromServer, a)
    BY <1>3, <1>6, <1>8 DEF Appends
  <2>2. \A d \in Slots : View(fromServer', d) = View(fromServer, d)
    BY <1>6, <2>1, ViewAppended
  <2> QED BY <1>3, <1>4, <2>2 DEF Aside, In, Main, tableVars, userVars
<1>10. Shape'
  BY <1>3, <1>4, <1>5, <1>7, <1>8
     DEF ChannelsInv, Shape, TableShape, UserShape, NetShape, tableVars, userVars
<1>11. Confirming'
  BY <1>4 DEF ChannelsInv, NumberInv, Confirming, Sits, tableVars
<1>12. OpeningInv'
  <2>1. fromServer # <<>> => fromServer' # <<>> /\ Head(fromServer') = Head(fromServer)
    BY <1>3, <1>7, <1>8, FirstStays
  <2>2. \A d \in Slots : Unmoved(d)
    BY <1>9 DEF Aside, Unmoved, Recs
  <2>3. Disconnecting' = Disconnecting /\ NoSlot \notin Slots
    BY <1>4, <1>6 DEF Disconnecting, userVars
  <2>4. PICK k : k = NoSlot
    OBVIOUS
  <2>5. opening # NotOpening /\ opening.at = "notify" => opening.c # k
    BY <2>3, <2>4 DEF ChannelsInv, OpeningInv
  <2> QED BY <1>3, <2>1, <2>2, <2>3, <2>5, OpeningKept DEF ChannelsInv
<1> QED BY <1>9, <1>10, <1>11, <1>12, AsideKeeps

-----------------------------------------------------------------------------
(* The number that the server gives a channel, and the messages of the main queue. *)

\* It has given at most as many numbers as there are objects.
LEMMA NumberLeft ==
    ASSUME ChannelsInv
    PROVE  \E n \in 0 .. MaxMade : \A r \in server : r.remote # n
<1> SUFFICES ASSUME \A n \in 0 .. MaxMade : \E r \in server : r.remote = n
             PROVE  FALSE
  OBVIOUS
<1>1. server \in SUBSET Records /\ made \in 0 .. MaxMade /\ MaxMade \in Nat /\ Recorded
  BY ChannelsAssumption DEF ChannelsInv, Shape, TableShape, NetShape, NumberInv
<1>2. PICK g : g = [n \in 0 .. MaxMade |-> (CHOOSE r \in server : r.remote = n)]
  OBVIOUS
<1>3. ASSUME NEW n \in 0 .. MaxMade
      PROVE  g[n] \in server /\ g[n].remote = n /\ Own(g[n]) /\ g[n].inc \in 1 .. MaxMade
  <2>1. g[n] \in server /\ g[n].remote = n
    BY <1>2
  <2>2. Own(g[n])
    BY <1>1, <1>3, <2>1 DEF Own
  <2>3. PICK k : k = g[n].inc
    OBVIOUS
  <2>4. k \in Nat /\ k # 0 /\ k <= made
    BY <1>1, <2>1, <2>2, <2>3 DEF Recorded, Sits, Records
  <2> QED BY <1>1, <2>1, <2>2, <2>3, <2>4
<1>4. PICK h : h = [n \in 0 .. MaxMade |-> g[n].inc]
  OBVIOUS
<1>5. h \in [0 .. MaxMade -> 1 .. MaxMade]
  BY <1>3, <1>4
<1>6. /\ IsFiniteSet(0 .. MaxMade) /\ IsFiniteSet(1 .. MaxMade)
      /\ Cardinality(1 .. MaxMade) < Cardinality(0 .. MaxMade)
  <2>1. /\ IsFiniteSet(0 .. MaxMade)
        /\ Cardinality(0 .. MaxMade) = IF 0 > MaxMade THEN 0 ELSE MaxMade - 0 + 1
    BY <1>1, FS_Interval
  <2>2. /\ IsFiniteSet(1 .. MaxMade)
        /\ Cardinality(1 .. MaxMade) = IF 1 > MaxMade THEN 0 ELSE MaxMade - 1 + 1
    BY <1>1, FS_Interval
  <2> QED BY <1>1, <2>1, <2>2
<1>7. PICK n, k \in 0 .. MaxMade : n # k /\ h[n] = h[k]
  <2>1. PICK A, B : A = 0 .. MaxMade /\ B = 1 .. MaxMade
    OBVIOUS
  <2>2. /\ IsFiniteSet(A) /\ IsFiniteSet(B) /\ Cardinality(B) < Cardinality(A)
        /\ h \in [A -> B]
    BY <1>5, <1>6, <2>1
  <2>3. \E n, k \in A : n # k /\ h[n] = h[k]
    BY <2>2, FS_PigeonHole
  <2> QED BY <2>1, <2>3
<1>8. g[n].inc = g[k].inc
  BY <1>4, <1>7
<1>9. g[n] = g[k]
  BY <1>1, <1>3, <1>7, <1>8 DEF Recorded
<1> QED BY <1>3, <1>7, <1>9

LEMMA OwnNumberIs ==
    ASSUME ChannelsInv
    PROVE  OwnNumber \in 0 .. MaxMade /\ \A r \in server : r.remote # OwnNumber
<1>1. PICK A : A = (0 .. MaxMade) \ {r.remote : r \in server}
  OBVIOUS
<1>2. A \in SUBSET Nat /\ A # {}
  BY <1>1, NumberLeft
<1>3. \E n \in A : \A k \in A : n <= k
  BY <1>2, LeastNumber
<1>4. Min(A) \in A
  BY <1>3, Zenon DEF Min
<1> QED BY <1>1, <1>4 DEF OwnNumber

\* What is taken from the main queue, about c.
MainTaken(m) ==
    /\ mainQ # <<>> /\ m = Head(mainQ) /\ mainQ' = Tail(mainQ) /\ ServerTakesMain(m)
    /\ Quietly /\ outQ' = outQ /\ said' = said

LEMMA MainIs ==
    ASSUME ChannelsInv, NEW m, mainQ # <<>>, m = Head(mainQ), mainQ' = Tail(mainQ), made' = made,
           chan' = chan
    PROVE  /\ mainQ \in Seq(MainMsg) /\ m \in MainMsg /\ m \in Msg /\ mainQ' \in Seq(MainMsg)
           /\ m.kind \in MainKinds /\ (m.c \in Slots <=> m.kind \in {"open", "confirmOpen"})
           /\ (m.kind = "confirmOpen" => m.remote > MaxMade /\ m.remote \in Nat)
           /\ Sits(m.inc, m.c) /\ m.inc \in Nat /\ m.remote \in Numbers /\ Confirming'
           /\ \A d \in Slots \ {m.c} : Main(d)' = Main(d)
           /\ m.c \in Slots => Main(m.c) # <<>> /\ Head(Main(m.c)) = m
           /\ m.c \in Slots => View(mainQ', m.c) = Tail(Main(m.c))
<1>1. mainQ \in Seq(MainMsg) /\ mainQ \in Seq(Msg) /\ made \in Nat
  BY StateTypes DEF ChannelsInv, Shape, TableShape
<1>2. m \in MainMsg /\ mainQ' \in Seq(MainMsg) /\ m = mainQ[1] /\ 1 \in DOMAIN mainQ
  BY <1>1, TailType
<1>3. m \in Msg /\ m.kind \in MainKinds /\ (m.c \in Slots <=> m.kind \in {"open", "confirmOpen"})
  BY <1>2 DEF MainMsg
<1>4. m.inc \in Nat /\ m.remote \in Numbers
  BY <1>3 DEF Msg
<1>5. m.kind = "confirmOpen" => m.remote > MaxMade /\ m.remote \in Nat
  <2>1. m.kind = "confirmOpen" => m.remote > MaxMade
    BY <1>2 DEF MainMsg
  <2> QED BY <1>4, <2>1, ChannelsAssumption DEF Numbers, NoSlot
<1>6. Sits(m.inc, m.c)
  BY <1>2 DEF ChannelsInv, NumberInv, Confirming
<1>7. Confirming'
  <2>1. Renumbered(0)
    BY ChannelsAssumption DEF Renumbered, Slots
  <2> QED BY <1>1, <2>1, ConfirmingKept DEF ChannelsInv, NumberInv
<1>8. Takesoff(mainQ', mainQ)
  BY <1>1 DEF Takesoff
<1>9. \A d \in Slots \ {m.c} : Main(d)' = Main(d)
  <2>1. \A d : Head(mainQ).c # d => View(mainQ', d) = View(mainQ, d)
    BY <1>8, ViewTaken
  <2> QED BY <2>1 DEF Main
<1>10. ASSUME m.c \in Slots
       PROVE  /\ Main(m.c) # <<>> /\ Head(Main(m.c)) = m
              /\ View(mainQ', m.c) = Tail(Main(m.c))
  <2>1. PICK c : c = m.c /\ Head(mainQ).c = c
    OBVIOUS
  <2>2. Takesoff(View(mainQ', c), View(mainQ, c)) /\ Head(View(mainQ, c)) = Head(mainQ)
    BY <1>8, <2>1, ViewTaken
  <2> QED BY <2>1, <2>2 DEF Main, Takesoff
<1> QED BY <1>1, <1>2, <1>3, <1>4, <1>5, <1>6, <1>7, <1>9, <1>10

LEMMA ReplyIs ==
    ASSUME NEW kind \in InKinds, NEW s, s.c \in Slots \cup {NoSlot}, s.inc \in Nat,
           s.remote \in Numbers, NEW id \in Nat, NEW a, a = Reply(kind, s, id)
    PROVE  /\ a \in Msg /\ a.kind = kind /\ a.c = s.c /\ a.inc = s.inc /\ a.id = id
           /\ a.remote = s.remote
           /\ kind \in InKinds \ Unasked /\ s.c \in Slots => a \in InMsg
           /\ kind = "forwarded" /\ s.c \notin Slots => a \in InMsg
<1>1. a = [kind |-> kind, c |-> s.c, inc |-> s.inc, remote |-> s.remote, id |-> id]
  BY DEF Reply
<1>2. a \in Msg /\ a.kind = kind /\ a.c = s.c /\ a.inc = s.inc /\ a.id = id /\ a.remote = s.remote
  BY <1>1 DEF Msg
<1>3. kind \in InKinds \ Unasked /\ s.c \in Slots => a \in InMsg
  BY <1>2 DEF InMsg, Unasked
<1>4. kind = "forwarded" /\ s.c \notin Slots => a \in InMsg
  BY <1>2 DEF InMsg, Unasked
<1> QED BY <1>2, <1>3, <1>4

LEMMA Answering ==
    ASSUME ChannelsInv, NEW a \in InMsg, fromServer' = Append(fromServer, a)
    PROVE  /\ fromServer' \in Seq(InMsg) /\ SameFirst /\ a \in Msg
           /\ \A d : a.c # d => View(fromServer', d) = In(d)
           /\ \A d : a.c = d => View(fromServer', d) = Append(In(d), a)
<1>1. fromServer \in Seq(InMsg) /\ fromServer \in Seq(Msg) /\ a \in Msg
  BY StateTypes DEF ChannelsInv, Shape, NetShape, InMsg
<1>2. fromServer' \in Seq(InMsg)
  BY <1>1
<1>3. SameFirst
  BY <1>1, FirstStays DEF SameFirst
<1>4. Appends(fromServer', fromServer, a)
  BY <1>1 DEF Appends
<1>5. ASSUME NEW d
      PROVE  /\ a.c # d => View(fromServer', d) = In(d)
             /\ a.c = d => View(fromServer', d) = Append(In(d), a)
  <2>1. PICK q : q = fromServer' /\ Appends(q, fromServer, a)
    BY <1>4
  <2>2. /\ a.c = d => Appends(View(q, d), View(fromServer, d), a)
        /\ a.c # d => View(q, d) = View(fromServer, d)
    BY <2>1, ViewAppended
  <2> QED BY <2>1, <2>2 DEF In, Appends
<1> QED BY <1>1, <1>2, <1>3, <1>5

\* A message that is about no slot.
LEMMA MainAside ==
    ASSUME ChannelsInv, NEW m, MainTaken(m), m.kind \in {"forward", "refuseOpen"}
    PROVE  ChannelsInv'
<1>1. Quietly /\ mainQ # <<>> /\ m = Head(mainQ) /\ mainQ' = Tail(mainQ)
      /\ outQ' = outQ /\ said' = said /\ made' = made /\ chan' = chan
  BY DEF MainTaken, Quietly
<1>2. /\ mainQ' \in Seq(MainMsg) /\ m.c \notin Slots /\ m \in Msg
      /\ m.inc \in Nat /\ m.remote \in Numbers /\ Confirming'
      /\ \A d \in Slots : Main(d)' = Main(d)
  BY <1>1, MainIs
<1>3. /\ fromServer' \in Seq(InMsg) /\ server' = server
      /\ \A d \in Slots : View(fromServer', d) = In(d)
  <2>1. CASE m.kind = "forward"
    <3>1. PICK a : a = Reply("forwarded", m, 0)
      OBVIOUS
    <3>2. server' = server /\ fromServer' = Append(fromServer, a)
      BY <2>1, <3>1 DEF MainTaken, ServerTakesMain, Answer
    <3>3. a \in InMsg /\ a.c = m.c
      <4>1. "forwarded" \in InKinds /\ m.c \in Slots \cup {NoSlot} /\ 0 \in Nat
        BY <1>2 DEF InKinds, Unasked, Msg
      <4> QED BY <1>2, <3>1, <4>1, ReplyIs
    <3>4. /\ fromServer' \in Seq(InMsg)
          /\ \A d : a.c # d => View(fromServer', d) = In(d)
      BY <3>2, <3>3, Answering
    <3> QED BY <1>2, <3>2, <3>3, <3>4
  <2>2. CASE m.kind = "refuseOpen"
    BY <2>2 DEF MainTaken, ServerTakesMain, ChannelsInv, Shape, NetShape, In
  <2> QED BY <2>1, <2>2
<1>4. Aside
  BY <1>1, <1>2, <1>3 DEF Aside, In, Quietly, userVars
<1>5. Shape'
  BY <1>1, <1>2, <1>3 DEF ChannelsInv, Shape, TableShape, UserShape, NetShape, Quietly, userVars
<1>6. OpeningInv'
  <2>1. \A d \in Slots : Unmoved(d)
    BY <1>4 DEF Aside, Unmoved, Recs
  <2>2. Disconnecting' = Disconnecting /\ NoSlot \notin Slots
    BY <1>1, ChannelsAssumption DEF Disconnecting, Quietly, userVars, NoSlot, Slots
  <2>3. PICK k : k = NoSlot
    OBVIOUS
  <2>4. opening # NotOpening /\ opening.at = "notify" => opening.c # k
    BY <2>2, <2>3 DEF ChannelsInv, OpeningInv
  <2> QED BY <1>1, <2>1, <2>2, <2>4, OpeningKept DEF ChannelsInv, Quietly, SameFirst
<1> QED BY <1>2, <1>4, <1>5, <1>6, AsideKeeps

\* A record is added for the slot c, and a message: there is r, or nothing.
LEMMA RecsAdded ==
    ASSUME NEW r, server' = server \cup {r}
    PROVE  \A d : Recs(d)' = IF r.c = d THEN Recs(d) \cup {r} ELSE Recs(d)
<1>1. ASSUME NEW d
      PROVE  {s \in server \cup {r} : s.c = d}
             = IF r.c = d THEN {s \in server : s.c = d} \cup {r} ELSE {s \in server : s.c = d}
  OBVIOUS
<1> QED BY <1>1 DEF Recs

LEMMA MainConfirmTaken ==
    ASSUME ChannelsInv, NEW m, MainTaken(m), m.kind = "confirmOpen"
    PROVE  ChannelsInv'
<1>1. Quietly /\ mainQ # <<>> /\ m = Head(mainQ) /\ mainQ' = Tail(mainQ)
      /\ outQ' = outQ /\ said' = said /\ made' = made /\ chan' = chan
  BY DEF MainTaken, Quietly
<1>2. PICK c \in Slots : c = m.c
  BY <1>1, MainIs
<1>3. /\ mainQ' \in Seq(MainMsg) /\ m \in Msg /\ m.remote \in Nat /\ m.remote > MaxMade
      /\ m.inc \in Nat /\ Sits(m.inc, m.c) /\ Confirming'
      /\ \A d \in Slots \ {c} : Main(d)' = Main(d)
      /\ Main(c) # <<>> /\ Head(Main(c)) = m /\ Main(c)' = Tail(Main(c))
  <2>1. View(mainQ', m.c) = Tail(Main(m.c)) /\ Main(m.c) # <<>> /\ Head(Main(m.c)) = m
    BY <1>1, <1>2, MainIs
  <2>2. Main(c)' = Tail(Main(c))
    BY <1>2, <2>1 DEF Main
  <2> QED BY <1>1, <1>2, <2>1, <2>2, MainIs
<1>4. PICK r : r = Record(m, m.remote)
  OBVIOUS
<1>5. server' = server \cup {r} /\ fromServer' = fromServer
  BY <1>4 DEF MainTaken, ServerTakesMain
<1>6. r \in Records /\ r.c = c /\ r.inc = m.inc /\ r.remote = m.remote /\ ~r.closed /\ r.acks = 0
  BY <1>2, <1>3, <1>4 DEF Record, Records
<1>7. ~Own(r)
  BY <1>3, <1>6, ChannelsAssumption DEF Own
<1>8. PICK x, M, o, f, S, N, t, g, T, d :
         Becomes(c, x, M, o, f, S, N, t, g, T) /\ d = Disconnecting /\ d \in BOOLEAN
  BY DEF Becomes, Disconnecting
<1>9. /\ x \in Objects /\ M \in Seq(Msg) /\ o \in Seq(Msg) /\ f \in Seq(Msg)
      /\ S \in SUBSET Records /\ server \in SUBSET Records /\ made \in Nat
  BY <1>8, StateTypes DEF Becomes, ChannelsInv
<1>10. N = Tail(M) /\ t = o /\ g = f /\ T = S \cup {r} /\ M # <<>> /\ Head(M) = m
  BY <1>1, <1>3, <1>5, <1>6, <1>8, RecsAdded DEF Becomes, In
<1>11. LinkOf(x, M, o, f, S, d)
  <2>1. SlotOf(c) /\ alive = TRUE
    BY <1>1, StateTypes DEF ChannelsInv, TableInv, Quietly
  <2> QED BY <1>8, <2>1 DEF SlotOf, Stands, Becomes
<1>12. LinkOf(x, N, t, g, T, d)
  BY <1>6, <1>9, <1>10, <1>11, LinkConfirmTaken
<1>13. Served(x, o, f, S, t, g, T)
  <2>1. x \notin Regular
    BY <1>9, <1>10, <1>11, MainFirst
  <2> QED BY <2>1 DEF Served, Works, Held
<1>14. \A k \in Slots \ {c} : Unmoved(k)
  BY <1>1, <1>3, <1>5, <1>6, RecsAdded DEF Unmoved, In
<1>15. Recorded'
  <2>1. Renumbered(c)
    BY <1>1 DEF Renumbered
  <2>2. Sits(r.inc, r.c)
    BY <1>2, <1>3, <1>6
  <2> QED BY <1>5, <1>6, <1>7, <1>9, <2>1, <2>2, RecordedAdded DEF ChannelsInv, NumberInv
<1>16. Shape'
  BY <1>1, <1>3, <1>5, <1>6
     DEF ChannelsInv, Shape, TableShape, UserShape, NetShape, Quietly, userVars
<1>17. opening # NotOpening /\ opening.at = "notify" /\ opening.c = c => Disconnecting
  BY <1>3 DEF ChannelsInv, OpeningInv
<1> QED BY <1>1, <1>3, <1>8, <1>12, <1>13, <1>14, <1>15, <1>16, <1>17, Linked

\* The request to open the channel of slot c reaches the server.
Opening(c, m, x, M, o, f, S, N, t, g, T, d) ==
    /\ c \in Slots /\ m \in Msg /\ m.kind = "open" /\ m.c = c /\ m.inc = x.inc
    /\ m.remote \in Numbers /\ Sits(m.inc, m.c)
    /\ Becomes(c, x, M, o, f, S, N, t, g, T) /\ d = Disconnecting /\ d \in BOOLEAN
    /\ x \in Regular /\ x.inc \in Nat \ {0} /\ M \in Seq(Msg) /\ o \in Seq(Msg) /\ f \in Seq(Msg)
    /\ S \in SUBSET Records /\ Mine(x, S) = {} /\ M # <<>> /\ Head(M) = m
    /\ N = Tail(M) /\ t = o /\ LinkOf(x, M, o, f, S, d)

LEMMA OpeningAt ==
    ASSUME ChannelsInv, NEW m, MainTaken(m), m.kind = "open"
    PROVE  /\ \E c, x, M, o, f, S, N, t, g, T, d : Opening(c, m, x, M, o, f, S, N, t, g, T, d)
           /\ mainQ' \in Seq(MainMsg) /\ Confirming'
           /\ \A k \in Slots \ {m.c} : Main(k)' = Main(k)
           /\ Quietly /\ outQ' = outQ /\ said' = said /\ made' = made /\ chan' = chan
<1>1. Quietly /\ mainQ # <<>> /\ m = Head(mainQ) /\ mainQ' = Tail(mainQ)
      /\ outQ' = outQ /\ said' = said /\ made' = made /\ chan' = chan
  BY DEF MainTaken, Quietly
<1>2. PICK c \in Slots : c = m.c
  BY <1>1, MainIs
<1>3. /\ mainQ' \in Seq(MainMsg) /\ m \in Msg
      /\ m.remote \in Numbers /\ Sits(m.inc, m.c) /\ Confirming'
      /\ \A k \in Slots \ {m.c} : Main(k)' = Main(k)
  BY <1>1, MainIs
<1>4. Main(c) # <<>> /\ Head(Main(c)) = m /\ Main(c)' = Tail(Main(c))
  <2>1. View(mainQ', m.c) = Tail(Main(m.c)) /\ Main(m.c) # <<>> /\ Head(Main(m.c)) = m
    BY <1>1, <1>2, MainIs
  <2> QED BY <1>2, <2>1 DEF Main
<1>8. PICK x, M, o, f, S, N, t, g, T, d :
         Becomes(c, x, M, o, f, S, N, t, g, T) /\ d = Disconnecting /\ d \in BOOLEAN
  BY DEF Becomes, Disconnecting
<1>9. /\ x \in Objects /\ M \in Seq(Msg) /\ o \in Seq(Msg) /\ f \in Seq(Msg)
      /\ S \in SUBSET Records
  BY <1>8, StateTypes DEF Becomes, ChannelsInv
<1>10. N = Tail(M) /\ t = o /\ M # <<>> /\ Head(M) = m
  BY <1>1, <1>4, <1>8 DEF Becomes
<1>11. LinkOf(x, M, o, f, S, d)
  <2>1. SlotOf(c) /\ alive = TRUE
    BY <1>1, StateTypes DEF ChannelsInv, TableInv, Quietly
  <2> QED BY <1>8, <2>1 DEF SlotOf, Stands, Becomes
<1>12. x \in Regular /\ Mine(x, S) = {} /\ m.inc = x.inc
  BY <1>9, <1>10, <1>11, MainFirst
<1>13. x.inc \in Nat \ {0}
  BY <1>12, ObjectIs
<1>14. Opening(c, m, x, M, o, f, S, N, t, g, T, d)
  BY <1>2, <1>3, <1>8, <1>9, <1>10, <1>11, <1>12, <1>13 DEF Opening
<1> QED BY <1>1, <1>3, <1>14

LEMMA MainOpens ==
    ASSUME ChannelsInv, NEW m, MainTaken(m), m.kind = "open", NEW kind \in {"confirm", "refuse"},
           NEW r, NEW s,
           IF kind = "confirm"
           THEN s = r /\ r = Record(m, OwnNumber) /\ server' = server \cup {r}
           ELSE s = m /\ server' = server,
           Answer(kind, s, 0)
    PROVE  ChannelsInv'
<1>1. PICK c, x, M, o, f, S, N, t, g, T, d : Opening(c, m, x, M, o, f, S, N, t, g, T, d)
  BY OpeningAt
<1>2. /\ mainQ' \in Seq(MainMsg) /\ Confirming' /\ \A k \in Slots \ {c} : Main(k)' = Main(k)
      /\ Quietly /\ outQ' = outQ /\ said' = said /\ made' = made /\ chan' = chan
  BY <1>1, OpeningAt DEF Opening
<1>3. PICK a : a = Reply(kind, s, 0)
  OBVIOUS
<1>4. kind = "confirm" =>
        /\ r \in Records /\ r.c = c /\ r.inc = x.inc /\ Own(r) /\ ~r.closed /\ r.acks = 0
        /\ \A q \in server : r.remote # q.remote
  <2>1. PICK n : n = OwnNumber
    OBVIOUS
  <2>2. n \in 0 .. MaxMade /\ \A q \in server : q.remote # n
    BY <2>1, OwnNumberIs
  <2>3. n \in Nat /\ n <= MaxMade
    BY <2>2, ChannelsAssumption
  <2>4. ASSUME kind = "confirm"
        PROVE  /\ r \in Records /\ r.c = c /\ r.inc = x.inc /\ Own(r) /\ ~r.closed /\ r.acks = 0
               /\ r.remote = n
    <3>1. r = [c |-> m.c, inc |-> m.inc, remote |-> n, closed |-> FALSE, acks |-> 0]
      BY <2>1, <2>4 DEF Record
    <3>2. m.c = c /\ c \in Slots /\ m.inc = x.inc /\ x.inc \in Nat
      BY <1>1 DEF Opening
    <3> QED BY <2>3, <3>1, <3>2 DEF Records, Own
  <2> QED BY <2>2, <2>4
<1>5. s.c = c /\ s.inc = x.inc /\ s.remote \in Numbers
  <2>1. CASE kind = "confirm"
    BY <1>4, <2>1 DEF Records, Numbers
  <2>2. CASE kind = "refuse"
    BY <1>1, <2>2 DEF Opening
  <2> QED BY <2>1, <2>2
<1>6. /\ a \in Msg /\ a \in InMsg /\ a.kind = kind /\ a.c = c /\ a.inc = x.inc
      /\ a.remote = s.remote
  <2>1. kind \in InKinds \ Unasked /\ 0 \in Nat /\ s.c \in Slots \cup {NoSlot} /\ s.inc \in Nat
    BY <1>1, <1>5 DEF InKinds, Unasked, Opening
  <2> QED BY <1>1, <1>3, <1>5, <2>1, ReplyIs DEF Opening
<1>7. /\ fromServer' \in Seq(InMsg) /\ SameFirst
      /\ \A k \in Slots \ {c} : View(fromServer', k) = In(k)
      /\ View(fromServer', c) = Append(In(c), a)
  <2>1. fromServer' = Append(fromServer, a)
    BY <1>3 DEF Answer
  <2> QED BY <1>6, <2>1, Answering
<1>8. g = Append(f, a) /\ T = IF kind = "confirm" THEN S \cup {r} ELSE S
  BY <1>1, <1>4, <1>7, RecsAdded DEF Opening, Becomes, In, Recs
<1>9. LinkOf(x, N, t, g, T, d)
  <2>0. x \in Objects
    BY <1>1, ObjectIs DEF Opening
  <2>1. CASE kind = "confirm"
    <3>1. a.kind = "confirm" /\ a.remote = r.remote /\ T = S \cup {r} /\ r.inc = x.inc
      BY <1>4, <1>6, <1>8, <2>1
    <3>2. LinkOf(x, Tail(M), o, Append(f, a), S \cup {r}, d)
      BY <1>1, <1>4, <1>6, <2>0, <2>1, <3>1, LinkOpenConfirmed DEF Opening
    <3> QED BY <1>1, <1>8, <3>1, <3>2 DEF Opening
  <2>2. CASE kind = "refuse"
    <3>1. a.kind = "refuse" /\ T = S
      BY <1>6, <1>8, <2>2
    <3>2. LinkOf(x, Tail(M), o, Append(f, a), S, d)
      BY <1>1, <1>6, <2>0, <3>1, LinkOpenRefused DEF Opening
    <3> QED BY <1>1, <1>8, <3>1, <3>2 DEF Opening
  <2> QED BY <2>1, <2>2
<1>10. Served(x, o, f, S, t, g, T)
  <2>1. x \in Objects /\ a.kind \in {"confirm", "refuse"}
    BY <1>1, <1>6, ObjectIs DEF Opening
  <2>2. ASSUME NEW p, NEW b, NEW n, Works(TRUE, p, b, n, x, o, f, S)
        PROVE  Works(TRUE, p, b, n, x, t, g, T)
    BY <1>1, <1>6, <1>8, <2>1, <2>2, WorksOpenAnswered DEF Opening
  <2> QED BY <2>2 DEF Served
<1>11. \A k \in Slots \ {c} : Unmoved(k)
  <2>1. \A k \in Slots \ {c} : Recs(k)' = Recs(k)
    BY <1>4, RecsAdded DEF Recs
  <2> QED BY <1>2, <1>7, <2>1 DEF Unmoved, In
<1>12. Recorded'
  <2>1. Renumbered(c) /\ made \in Nat /\ server \in SUBSET Records
    BY <1>1, <1>2, StateTypes DEF Renumbered, Opening, ChannelsInv
  <2>2. CASE kind = "refuse"
    BY <2>1, <2>2, RecordedKept DEF ChannelsInv, NumberInv
  <2>3. CASE kind = "confirm"
    <3>1. server' = server \cup {r} /\ r \in Records /\ Sits(r.inc, r.c) /\ r.inc # 0
      BY <1>1, <1>4, <2>3 DEF Opening
    <3>2. ASSUME NEW q \in server, Own(q)
          PROVE  q.remote # r.remote /\ q.inc # r.inc
      <4>1. Sits(q.inc, q.c)
        BY <3>2 DEF ChannelsInv, NumberInv, Recorded
      <4>2. q.inc = x.inc => q.c = c
        BY <1>1, <4>1 DEF Sits, Opening, Becomes
      <4>3. q.c = c => q \in S
        BY <1>1, <3>2 DEF Opening, Becomes, Recs
      <4>4. q.inc # x.inc
        BY <1>1, <4>2, <4>3 DEF Opening, Mine
      <4> QED BY <1>4, <2>3, <3>2, <4>4
    <3> QED BY <2>1, <3>1, <3>2, RecordedAdded DEF ChannelsInv, NumberInv
  <2> QED BY <2>2, <2>3
<1>13. Shape'
  BY <1>2, <1>4, <1>7
     DEF ChannelsInv, Shape, TableShape, UserShape, NetShape, Quietly, userVars
<1>14. opening # NotOpening /\ opening.at = "notify" /\ opening.c = c => Disconnecting
  BY <1>1 DEF ChannelsInv, OpeningInv, Opening, Becomes
<1> QED BY <1>1, <1>2, <1>9, <1>10, <1>11, <1>12, <1>13, <1>14, Linked DEF Opening

LEMMA SendMainKeeps ==
    ASSUME ChannelsInv, SendMain
    PROVE  ChannelsInv'
<1>1. PICK m : m = Head(mainQ)
  OBVIOUS
<1>2. /\ alive /\ mainQ # <<>> /\ mainQ' = Tail(mainQ) /\ ServerTakesMain(m)
      /\ UNCHANGED <<chan, outQ, made, broken, opening, alive, said>> /\ UNCHANGED userVars
  BY <1>1 DEF SendMain
<1>3. SameFirst
  <2>1. ASSUME NEW k, NEW s, Answer(k, s, 0), k \in InKinds \ Unasked \/ k = "forwarded"
        PROVE  SameFirst
    <3>1. PICK a : a = Reply(k, s, 0) /\ fromServer' = Append(fromServer, a)
      BY <2>1 DEF Answer
    <3>2. fromServer \in Seq(InMsg)
      BY DEF ChannelsInv, Shape, NetShape
    <3>3. ASSUME NEW A, NEW q \in Seq(A), NEW b, q # <<>>
          PROVE  Append(q, b) # <<>> /\ Head(Append(q, b)) = Head(q)
      BY <3>3
    <3> QED BY <3>1, <3>2, <3>3 DEF SameFirst
  <2>2. \/ fromServer' = fromServer
        \/ \E k \in {"confirm", "refuse", "forwarded"}, s \in {m, Record(m, OwnNumber)} :
             Answer(k, s, 0)
    BY <1>2 DEF ServerTakesMain
  <2> QED BY <2>1, <2>2 DEF SameFirst, InKinds, Unasked
<1>4. MainTaken(m)
  BY <1>1, <1>2, <1>3 DEF MainTaken, Quietly
<1>5. CASE m.kind \in {"forward", "refuseOpen"}
  BY <1>4, <1>5, MainAside
<1>6. CASE m.kind = "confirmOpen"
  BY <1>4, <1>6, MainConfirmTaken
<1>7. CASE m.kind = "open"
  <2>1. PICK r : r = Record(m, OwnNumber)
    OBVIOUS
  <2>2. CASE Answer("confirm", r, 0) /\ server' = server \cup {r}
    <3>1. PICK kind, s : kind = "confirm" /\ s = r
      OBVIOUS
    <3>2. /\ kind \in {"confirm", "refuse"} /\ Answer(kind, s, 0)
          /\ IF kind = "confirm"
             THEN s = r /\ r = Record(m, OwnNumber) /\ server' = server \cup {r}
             ELSE s = m /\ server' = server
      BY <2>1, <2>2, <3>1
    <3> QED BY <1>4, <1>7, <3>2, MainOpens
  <2>3. CASE Answer("refuse", m, 0) /\ server' = server
    <3>1. PICK kind, s : kind = "refuse" /\ s = m
      OBVIOUS
    <3>2. /\ kind \in {"confirm", "refuse"} /\ Answer(kind, s, 0)
          /\ IF kind = "confirm"
             THEN s = r /\ r = Record(m, OwnNumber) /\ server' = server \cup {r}
             ELSE s = m /\ server' = server
      BY <2>3, <3>1
    <3> QED BY <1>4, <1>7, <3>2, MainOpens
  <2> QED BY <1>2, <1>7, <2>1, <2>2, <2>3 DEF ServerTakesMain
<1> QED BY <1>2, <1>5, <1>6, <1>7 DEF ServerTakesMain

-----------------------------------------------------------------------------
(* The server takes a message of the channel in slot c. *)

Drained(c) ==
    /\ c \in Slots /\ alive /\ outQ[c] # <<>> /\ outQ' = [outQ EXCEPT ![c] = Tail(@)]
    /\ UNCHANGED <<chan, mainQ, made, broken, opening, alive, said>> /\ UNCHANGED userVars
Draining(c, m, r, x, M, o, f, S, N, t, g, T, d) ==
    /\ Becomes(c, x, M, o, f, S, N, t, g, T) /\ d = Disconnecting /\ d \in BOOLEAN
    /\ Sending(x, M, o, f, S, d, r) /\ Head(o) = m /\ m \in Msg /\ m.kind \in OutKinds
    /\ x \in Regular /\ Mine(x, S) = {r} /\ m.inc = x.inc /\ r.inc = x.inc
    /\ r \in server /\ r \in Records /\ r.c = c /\ m.c = c /\ Known(m) = {r}
    /\ N = M /\ t = Tail(o) /\ o # <<>>

LEMMA DrainingAt ==
    ASSUME ChannelsInv, NEW c, Drained(c), NEW m, m = Head(outQ[c])
    PROVE  /\ \E r, x, M, o, f, S, N, t, g, T, d : Draining(c, m, r, x, M, o, f, S, N, t, g, T, d)
           /\ \A k \in Slots \ {c} : outQ'[k] = outQ[k] /\ Main(k)' = Main(k)
           /\ \A k \in Slots : outQ'[k] \in Seq(OutMsg(k)) /\ outQ'[k] \in Seq(Msg)
           /\ outQ' \in [Slots -> Seq(Msg)]
<1>1. outQ \in [Slots -> Seq(Msg)] /\ outQ[c] \in Seq(OutMsg(c)) /\ c \in Slots
      /\ outQ[c] # <<>> /\ outQ[c] \in Seq(Msg)
  BY DEF ChannelsInv, Shape, TableShape, Drained
<1>2. m \in OutMsg(c) /\ Tail(outQ[c]) \in Seq(OutMsg(c)) /\ Tail(outQ[c]) \in Seq(Msg)
  BY <1>1, TailType
<1>3. m \in Msg /\ m.kind \in OutKinds /\ m.c = c
  BY <1>2 DEF OutMsg
<1>4. outQ'[c] = Tail(outQ[c]) /\ \A k \in Slots \ {c} : outQ'[k] = outQ[k]
  BY <1>1 DEF Drained
<1>5. \A k : Main(k)' = Main(k)
  BY DEF Main, Drained
<1>6. PICK x, M, o, f, S, N, t, g, T, d :
         Becomes(c, x, M, o, f, S, N, t, g, T) /\ d = Disconnecting /\ d \in BOOLEAN
  BY DEF Becomes, Disconnecting
<1>7. /\ x \in Objects /\ M \in Seq(Msg) /\ o \in Seq(Msg) /\ f \in Seq(Msg)
      /\ S \in SUBSET Records
  BY <1>1, <1>6, StateTypes DEF Becomes, ChannelsInv
<1>8. LinkOf(x, M, o, f, S, d)
  <2>1. SlotOf(c) /\ alive = TRUE
    BY <1>1, StateTypes DEF ChannelsInv, TableInv, Drained
  <2> QED BY <1>6, <2>1 DEF SlotOf, Stands, Becomes
<1>9. o # <<>> /\ Head(o) = m /\ N = M /\ t = Tail(o)
  BY <1>1, <1>4, <1>5, <1>6 DEF Becomes
<1>10. PICK r : /\ x \in Regular /\ m.inc = x.inc
                /\ Mine(x, S) = {r} /\ Own(r) /\ m.remote = r.remote
  <2>1. x \in Regular /\ Head(o).inc = x.inc
    BY <1>7, <1>8, <1>9, OutFirst
  <2>2. \E s : Mine(x, S) = {s} /\ KnownAs(s, x, o, f)
    BY <1>7, <1>8, <1>9, OutFirst
  <2>3. PICK r : Mine(x, S) = {r} /\ KnownAs(r, x, o, f)
    BY <2>2
  <2>4. Head(o) = o[1] /\ 1 \in DOMAIN o
    BY <1>7, <1>9
  <2>5. m.remote = x.remote
    BY <1>9, <2>3, <2>4 DEF KnownAs, OfRemote
  <2> QED BY <1>9, <2>1, <2>3, <2>5 DEF KnownAs
<1>11. r \in S /\ r.inc = x.inc /\ r \in server /\ r \in Records /\ r.c = c
  BY <1>6, <1>7, <1>10 DEF Mine, Becomes, Recs
<1>12. Known(m) = {r}
  <2>1. ASSUME NEW s \in server, s.remote = m.remote
        PROVE  s = r
    BY <1>10, <1>11, <2>1 DEF ChannelsInv, NumberInv, Recorded, Own
  <2> QED BY <1>10, <1>11, <2>1 DEF Known
<1>13. Sending(x, M, o, f, S, d, r)
  BY <1>7, <1>8, <1>9, <1>10 DEF Sending
<1>14. Draining(c, m, r, x, M, o, f, S, N, t, g, T, d)
  BY <1>3, <1>6, <1>9, <1>10, <1>11, <1>12, <1>13 DEF Draining
<1>15. \A k \in Slots : outQ'[k] \in Seq(OutMsg(k)) /\ outQ'[k] \in Seq(Msg)
  BY <1>1, <1>2, <1>4 DEF ChannelsInv, Shape, TableShape
<1>16. outQ' \in [Slots -> Seq(Msg)]
  BY <1>1, <1>2 DEF Drained
<1> QED BY <1>4, <1>5, <1>14, <1>15, <1>16

\* What the records of c become when r is replaced.
LEMMA RecsSwapped ==
    ASSUME NEW r \in server, NEW q, q.c = r.c, server' = (server \ {r}) \cup {q}
    PROVE  \A d : Recs(d)' = IF r.c = d THEN (Recs(d) \ {r}) \cup {q} ELSE Recs(d)
<1>1. ASSUME NEW d
      PROVE  {s \in (server \ {r}) \cup {q} : s.c = d}
             = IF r.c = d THEN ({s \in server : s.c = d} \ {r}) \cup {q}
               ELSE {s \in server : s.c = d}
  OBVIOUS
<1> QED BY <1>1 DEF Recs

\* The answer goes on its way.
Spoken(c, f, g) ==
    /\ fromServer' \in Seq(InMsg) /\ SameFirst /\ In(c) = f /\ In(c)' = g
    /\ \A k \in Slots \ {c} : In(k)' = In(k)

LEMMA ChannelTakes ==
    ASSUME ChannelsInv, NEW c, Drained(c), NEW m, m = Head(outQ[c]),
           NEW r, NEW x, NEW M, NEW o, NEW f, NEW S, NEW N, NEW t, NEW g, NEW T, NEW d,
           Draining(c, m, r, x, M, o, f, S, N, t, g, T, d),
           Spoken(c, f, g), NEW q, Takes(m, r, q, f, g), q.c = r.c,
           server' = (server \ {r}) \cup {q}
    PROVE  ChannelsInv'
<1>1. /\ \A k \in Slots \ {c} : outQ'[k] = outQ[k] /\ Main(k)' = Main(k)
      /\ \A k \in Slots : outQ'[k] \in Seq(OutMsg(k)) /\ outQ'[k] \in Seq(Msg)
      /\ outQ' \in [Slots -> Seq(Msg)]
  BY DrainingAt
<1>2. c \in Slots /\ Quietly
  BY DEF Drained, Spoken, Quietly
<1>3. r \in server /\ r.c = c /\ T = (S \ {r}) \cup {q}
  BY RecsSwapped DEF Draining, Becomes
<1>4. Sending(x, M, o, f, S, d, r) /\ Head(o) = m /\ t = Tail(o) /\ N = M /\ x \in Regular
  BY DEF Draining
<1>t. Takes(Head(o), r, q, f, g)
  BY <1>4
<1>5. LinkOf(x, N, t, g, T, d)
  <2>1. LinkOf(x, M, Tail(o), g, (S \ {r}) \cup {q}, d)
    BY <1>4, <1>t, LinkTakes
  <2> QED BY <1>3, <1>4, <2>1
<1>6. Served(x, o, f, S, t, g, T)
  <2>1. ASSUME NEW p, NEW a, NEW n, Works(TRUE, p, a, n, x, o, f, S)
        PROVE  Works(TRUE, p, a, n, x, t, g, T)
    <3>1. Works(TRUE, p, a, n, x, Tail(o), g, (S \ {r}) \cup {q})
      BY <1>4, <1>t, <2>1, WorksTakes
    <3> QED BY <1>3, <1>4, <3>1
  <2> QED BY <2>1 DEF Served
<1>7. \A k \in Slots \ {c} : Unmoved(k)
  BY <1>1, <1>2, <1>3, RecsSwapped DEF Unmoved, Spoken, Quietly
<1>8. made \in Nat /\ server \in SUBSET Records /\ Renumbered(c)
  BY <1>2, StateTypes DEF ChannelsInv, Renumbered, Quietly
<1>9. Recorded'
  <2>1. q.inc = r.inc /\ q.remote = r.remote
    BY DEF Takes
  <2> QED BY <1>3, <1>8, <2>1, RecordedSwapped DEF ChannelsInv, NumberInv
<1>10. Confirming'
  BY <1>8, ConfirmingSame DEF Drained
<1>11. Shape'
  <2>1. q \in Records
    BY DEF Takes
  <2>2. server' \in SUBSET Records
    BY <1>8, <2>1
  <2> QED BY <1>1, <2>2
          DEF ChannelsInv, Shape, TableShape, UserShape, NetShape, Drained, userVars, Spoken
<1>12. opening # NotOpening /\ opening.at = "notify" /\ opening.c = c => Disconnecting
  BY <1>4 DEF ChannelsInv, OpeningInv, Draining, Becomes
<1>13. Becomes(c, x, M, o, f, S, N, t, g, T) /\ LinkOf(x, N, t, g, T, Disconnecting)
  BY <1>5 DEF Draining
<1> QED BY <1>2, <1>6, <1>7, <1>9, <1>10, <1>11, <1>12, <1>13, Linked

LEMMA ChannelCloses ==
    ASSUME ChannelsInv, NEW c, Drained(c), NEW m, m = Head(outQ[c]), m.kind = "close",
           NEW r, NEW x, NEW M, NEW o, NEW f, NEW S, NEW N, NEW t, NEW g, NEW T, NEW d,
           Draining(c, m, r, x, M, o, f, S, N, t, g, T, d), Spoken(c, f, g),
           NEW a \in Msg, a.kind = "close", a.inc = x.inc,
           g = IF r.closed THEN f ELSE Append(f, a),
           server' = server \ {r}
    PROVE  ChannelsInv'
<1>1. /\ \A k \in Slots \ {c} : outQ'[k] = outQ[k] /\ Main(k)' = Main(k)
      /\ \A k \in Slots : outQ'[k] \in Seq(OutMsg(k)) /\ outQ'[k] \in Seq(Msg)
      /\ outQ' \in [Slots -> Seq(Msg)]
  BY DrainingAt
<1>2. c \in Slots /\ Quietly
  BY DEF Drained, Spoken, Quietly
<1>3. r \in server /\ r.c = c /\ \A k : Recs(k)' = IF k = c THEN Recs(k) \ {r} ELSE Recs(k)
  <2>1. ASSUME NEW k
        PROVE  {s \in server \ {r} : s.c = k}
               = IF k = r.c THEN {s \in server : s.c = k} \ {r} ELSE {s \in server : s.c = k}
    OBVIOUS
  <2> QED BY <2>1 DEF Draining, Recs
<1>4. T = S \ {r}
  BY <1>3 DEF Draining, Becomes
<1>5. /\ Sending(x, M, o, f, S, d, r) /\ Head(o) = m /\ t = Tail(o) /\ N = M /\ x \in Regular
      /\ x \in Objects /\ o \in Seq(Msg) /\ f \in Seq(Msg) /\ S \in SUBSET Records
      /\ LinkOf(x, M, o, f, S, d) /\ o # <<>> /\ r \in Mine(x, S)
  BY DEF Draining, Sending
<1>6. LinkOf(x, N, t, g, T, d)
  <2>1. LinkOf(x, M, Tail(o), g, S \ {r}, d)
    BY <1>5, LinkCloseTaken
  <2> QED BY <1>4, <1>5, <2>1
<1>7. Served(x, o, f, S, t, g, T)
  <2>1. g = f \/ \E b \in Msg : b.kind = "close" /\ g = Append(f, b)
    OBVIOUS
  <2>2. ASSUME NEW p, NEW b, NEW n, Works(TRUE, p, b, n, x, o, f, S)
        PROVE  Works(TRUE, p, b, n, x, t, g, T)
    <3>1. Works(TRUE, p, b, n, x, Tail(o), g, T)
      BY <1>5, <2>1, <2>2, WorksCloseTaken
    <3> QED BY <1>5, <3>1
  <2> QED BY <2>2 DEF Served
<1>8. \A k \in Slots \ {c} : Unmoved(k)
  BY <1>1, <1>2, <1>3 DEF Unmoved, Spoken, Quietly
<1>9. made \in Nat /\ server \in SUBSET Records /\ Renumbered(c)
  BY <1>2, StateTypes DEF ChannelsInv, Renumbered, Quietly
<1>10. Recorded'
  BY <1>9, RecordedKept DEF ChannelsInv, NumberInv
<1>11. Confirming'
  BY <1>9, ConfirmingSame DEF Drained
<1>12. Shape'
  BY <1>1
     DEF ChannelsInv, Shape, TableShape, UserShape, NetShape, Drained, userVars, Spoken
<1>13. opening # NotOpening /\ opening.at = "notify" /\ opening.c = c => Disconnecting
  BY <1>5 DEF ChannelsInv, OpeningInv, Draining, Becomes
<1>14. Becomes(c, x, M, o, f, S, N, t, g, T) /\ LinkOf(x, N, t, g, T, Disconnecting)
  BY <1>6 DEF Draining
<1> QED BY <1>2, <1>7, <1>8, <1>10, <1>11, <1>12, <1>13, <1>14, Linked

-----------------------------------------------------------------------------
LEMMA SaysNothing ==
    ASSUME ChannelsInv, NEW c, fromServer' = fromServer, NEW f, f = In(c)
    PROVE  Spoken(c, f, f)
<1>1. fromServer \in Seq(InMsg)
  BY DEF ChannelsInv, Shape, NetShape
<1>2. \A k : In(k)' = In(k)
  BY DEF In
<1> QED BY <1>1, <1>2 DEF Spoken, SameFirst

LEMMA SaysOne ==
    ASSUME ChannelsInv, NEW c, NEW a \in InMsg, a.c = c, fromServer' = Append(fromServer, a),
           NEW f, f = In(c)
    PROVE  Spoken(c, f, Append(f, a))
<1>1. /\ fromServer' \in Seq(InMsg) /\ SameFirst
      /\ \A d : a.c # d => View(fromServer', d) = In(d)
      /\ \A d : a.c = d => View(fromServer', d) = Append(In(d), a)
  BY Answering
<1>2. \A d : In(d)' = View(fromServer', d)
  BY DEF In
<1> QED BY <1>1, <1>2 DEF Spoken

LEMMA SendChannelKeeps ==
    ASSUME ChannelsInv, NEW c \in Slots, SendChannel(c)
    PROVE  ChannelsInv'
<1>1. PICK m : m = Head(outQ[c])
  OBVIOUS
<1>2. Drained(c) /\ ServerTakes(m)
  BY <1>1 DEF SendChannel, Drained
<1>3. PICK r, x, M, o, f, S, N, t, g, T, d : Draining(c, m, r, x, M, o, f, S, N, t, g, T, d)
  BY <1>1, <1>2, DrainingAt
<1>4. /\ m \in Msg /\ m.kind \in OutKinds /\ m.inc = x.inc /\ r.inc = x.inc /\ r \in server
      /\ r \in Records /\ r.c = c /\ Known(m) = {r} /\ f = In(c) /\ g = In(c)'
  BY <1>3 DEF Draining, Becomes
<1>5. /\ r.c \in Slots /\ r.inc \in Nat /\ r.remote \in Nat /\ r.closed \in BOOLEAN
      /\ r.acks \in Nat /\ m.id \in Nat
  BY <1>4 DEF Records, Msg
<1>6. ASSUME fromServer' = fromServer
      PROVE  Spoken(c, f, g) /\ g = f
  BY <1>4, <1>6, SaysNothing DEF In
<1>7. ASSUME NEW kind \in InKinds \ Unasked, NEW id \in Nat, Answer(kind, r, id)
      PROVE  \E a \in Msg : /\ a.kind = kind /\ a.inc = m.inc /\ a.id = id
                            /\ g = Append(f, a) /\ Spoken(c, f, g)
  <2>1. PICK a : a = Reply(kind, r, id)
    OBVIOUS
  <2>2. a \in Msg /\ a.kind = kind /\ a.c = c /\ a.inc = r.inc /\ a.id = id /\ a \in InMsg
    <3>1. r.c \in Slots \cup {NoSlot} /\ r.remote \in Numbers
      BY <1>5 DEF Numbers
    <3> QED BY <1>4, <1>5, <2>1, <3>1, ReplyIs
  <2>3. fromServer' = Append(fromServer, a)
    BY <1>7, <2>1 DEF Answer
  <2>4. Spoken(c, f, Append(f, a))
    BY <1>4, <2>2, <2>3, SaysOne
  <2>5. g = Append(f, a)
    BY <1>4, <2>4 DEF Spoken
  <2> QED BY <1>4, <2>2, <2>4, <2>5
<1>8. ASSUME NEW q, q.c = r.c, Takes(m, r, q, f, g), Spoken(c, f, g),
             server' = (server \ {r}) \cup {q}
      PROVE  ChannelsInv'
  BY <1>1, <1>2, <1>3, <1>8, ChannelTakes
<1>9. (server \ {r}) \cup {r} = server
  BY <1>4
<1>10. CASE m.kind \in {"eof", "windowChange"}
  <2>1. fromServer' = fromServer /\ server' = server
    BY <1>2, <1>10 DEF ServerTakes
  <2>2. Takes(m, r, r, f, g)
    BY <1>4, <1>5, <1>6, <1>10, <2>1 DEF Takes
  <2> QED BY <1>6, <1>8, <1>9, <2>1, <2>2
<1>11. CASE m.kind = "data"
  <2>1. PICK q : q = [r EXCEPT !.acks = @ + 1]
    OBVIOUS
  <2>2. fromServer' = fromServer /\ server' = (server \ {r}) \cup {q}
    BY <1>2, <1>4, <1>11, <2>1 DEF ServerTakes
  <2>3. q \in Records /\ q.inc = r.inc /\ q.remote = r.remote /\ q.closed = r.closed
        /\ q.acks = r.acks + 1 /\ q.c = r.c
    BY <1>4, <2>1 DEF Records
  <2>4. Takes(m, r, q, f, g)
    BY <1>6, <1>11, <2>2, <2>3 DEF Takes
  <2> QED BY <1>6, <1>8, <2>2, <2>3, <2>4
<1>12. CASE m.kind \in Requests
  <2>1. PICK q : q = IF m.kind = "scpSend" THEN [r EXCEPT !.acks = 1] ELSE r
    OBVIOUS
  <2>2. server' = (server \ {r}) \cup {q}
    BY <1>2, <1>4, <1>9, <1>12, <2>1 DEF ServerTakes, Requests
  <2>3. q \in Records /\ q.inc = r.inc /\ q.remote = r.remote /\ q.closed = r.closed
        /\ q.acks = (IF m.kind = "scpSend" THEN 1 ELSE r.acks) /\ q.c = r.c
    BY <1>4, <2>1 DEF Records
  <2>4. IF ~r.closed THEN \E answer \in {"success", "failure"} : Answer(answer, r, m.id)
        ELSE fromServer' = fromServer
    BY <1>2, <1>4, <1>12 DEF ServerTakes, Requests
  <2>5. CASE r.closed
    <3>1. Takes(m, r, q, f, g)
      BY <1>6, <1>12, <2>3, <2>4, <2>5 DEF Takes
    <3> QED BY <1>6, <1>8, <2>2, <2>3, <2>4, <2>5, <3>1
  <2>6. CASE ~r.closed
    <3>1. PICK answer \in {"success", "failure"} : Answer(answer, r, m.id)
      BY <2>4, <2>6
    <3>2. answer \in InKinds \ Unasked /\ answer \in Answers
      BY DEF InKinds, Unasked, Answers
    <3>3. PICK a \in Msg : /\ a.kind = answer /\ a.inc = m.inc /\ a.id = m.id
                           /\ g = Append(f, a) /\ Spoken(c, f, g)
      BY <1>5, <1>7, <3>1, <3>2
    <3>4. Takes(m, r, q, f, g)
      BY <1>12, <2>3, <2>6, <3>2, <3>3 DEF Takes
    <3> QED BY <1>8, <2>2, <2>3, <3>3, <3>4
  <2> QED BY <2>5, <2>6
<1>13. CASE m.kind = "close"
  <2>1. server' = server \ {r}
        /\ IF ~r.closed THEN Answer("close", r, 0) ELSE fromServer' = fromServer
    BY <1>2, <1>4, <1>13 DEF ServerTakes
  <2>2. \E a \in Msg : /\ a.kind = "close" /\ a.inc = x.inc /\ Spoken(c, f, g)
                       /\ g = IF r.closed THEN f ELSE Append(f, a)
    <3>1. CASE r.closed
      <4>1. PICK a : a = [kind |-> "close", c |-> c, inc |-> x.inc, remote |-> 0, id |-> 0]
        OBVIOUS
      <4>2. a \in Msg /\ a.kind = "close" /\ a.inc = x.inc
        BY <1>4, <1>5, <4>1 DEF Msg, InKinds, Numbers
      <4> QED BY <1>6, <2>1, <3>1, <4>2
    <3>2. CASE ~r.closed
      <4>1. PICK kind, id : kind = "close" /\ id = 0
        OBVIOUS
      <4>2. kind \in InKinds \ Unasked /\ id \in Nat /\ Answer(kind, r, id)
        BY <2>1, <3>2, <4>1 DEF InKinds, Unasked, Answers
      <4>3. PICK a \in Msg : /\ a.kind = kind /\ a.inc = m.inc
                             /\ g = Append(f, a) /\ Spoken(c, f, g)
        BY <1>7, <4>2
      <4> QED BY <1>4, <3>2, <4>1, <4>3
    <3> QED BY <1>5, <3>1, <3>2
  <2>3. PICK a \in Msg : /\ a.kind = "close" /\ a.inc = x.inc /\ Spoken(c, f, g)
                         /\ g = IF r.closed THEN f ELSE Append(f, a)
    BY <2>2
  <2> QED BY <1>1, <1>2, <1>3, <1>13, <2>1, <2>3, ChannelCloses
<1> QED BY <1>2, <1>10, <1>11, <1>12, <1>13 DEF ServerTakes, Requests

-----------------------------------------------------------------------------
(* What the server says of its own accord. *)

Speaking(c, r, q, x, M, o, f, S, N, t, g, T, d) ==
    /\ Becomes(c, x, M, o, f, S, N, t, g, T) /\ d = Disconnecting /\ d \in BOOLEAN
    /\ c \in Slots /\ x \in Objects /\ M \in Seq(Msg) /\ o \in Seq(Msg) /\ f \in Seq(Msg)
    /\ S \in SUBSET Records /\ LinkOf(x, M, o, f, S, d) /\ r \in S /\ N = M /\ t = o
    /\ T = (S \ {r}) \cup {q}

LEMMA SayingCloses ==
    ASSUME NEW x, NEW M, NEW o, NEW f, NEW S, NEW d, NEW r, NEW q, NEW a, NEW b,
           Saying(x, M, o, f, S, d, r, q), Closing(r, q, a, b)
    PROVE  LinkOf(x, M, o, Append(Append(f, a), b), (S \ {r}) \cup {q}, d)
  BY LinkServerCloses DEF Saying, Closing

LEMMA SpeakingAt ==
    ASSUME ChannelsInv, NEW r \in server, ServerSpeaks(r), NEW q, q.c = r.c,
           server' = (server \ {r}) \cup {q}
    PROVE  \E x, M, o, f, S, N, t, g, T, d :
             Speaking(r.c, r, q, x, M, o, f, S, N, t, g, T, d)
<1>1. alive /\ UNCHANGED <<chan, outQ, mainQ>>
  BY DEF ServerSpeaks, tableVars
<1>2. r \in Records /\ r.c \in Slots
  BY StateTypes DEF ChannelsInv, Records
<1>3. PICK c \in Slots : c = r.c
  BY <1>2
<1>4. PICK x, M, o, f, S, N, t, g, T, d :
         Becomes(c, x, M, o, f, S, N, t, g, T) /\ d = Disconnecting /\ d \in BOOLEAN
  BY DEF Becomes, Disconnecting
<1>5. /\ x \in Objects /\ M \in Seq(Msg) /\ o \in Seq(Msg) /\ f \in Seq(Msg)
      /\ S \in SUBSET Records
  BY <1>4, StateTypes DEF Becomes, ChannelsInv
<1>6. LinkOf(x, M, o, f, S, d)
  <2>1. SlotOf(c) /\ alive = TRUE
    BY <1>1, StateTypes DEF ChannelsInv, TableInv
  <2> QED BY <1>4, <2>1 DEF SlotOf, Stands, Becomes
<1>7. r \in S /\ N = M /\ t = o /\ T = (S \ {r}) \cup {q}
  <2>1. \A k : Recs(k)' = IF r.c = k THEN (Recs(k) \ {r}) \cup {q} ELSE Recs(k)
    BY RecsSwapped
  <2> QED BY <1>1, <1>3, <1>4, <2>1 DEF Becomes, Recs, Main
<1> QED BY <1>3, <1>4, <1>5, <1>6, <1>7 DEF Speaking

LEMMA Spoke ==
    ASSUME ChannelsInv, NEW r \in server, ServerSpeaks(r), ~r.closed, NEW q \in Records,
           q.c = r.c, q.inc = r.inc, q.remote = r.remote, server' = (server \ {r}) \cup {q},
           NEW c, c = r.c,
           NEW x, NEW M, NEW o, NEW f, NEW S, NEW N, NEW t, NEW g, NEW T, NEW d,
           Speaking(c, r, q, x, M, o, f, S, N, t, g, T, d), Spoken(c, f, g),
           LinkOf(x, M, o, g, T, d), Served(x, o, f, S, o, g, T)
    PROVE  ChannelsInv'
<1>1. /\ alive /\ said' = said + 1
      /\ UNCHANGED <<chan, outQ, mainQ, made, broken, opening, alive>> /\ UNCHANGED userVars
  BY DEF ServerSpeaks, tableVars
<1>2. c \in Slots /\ Quietly
  BY <1>1 DEF Spoken, Quietly, Speaking
<1>3. \A k \in Slots \ {c} : Unmoved(k)
  BY <1>1, RecsSwapped DEF Unmoved, Spoken, Main
<1>4. made \in Nat /\ server \in SUBSET Records /\ Renumbered(c)
  <2>1. made \in Nat /\ server \in SUBSET Records
    BY StateTypes DEF ChannelsInv
  <2>2. c \in Slots /\ made' = made /\ chan' = chan
    BY <1>1, <1>2
  <2>3. Renumbered(c)
    BY <2>2 DEF Renumbered
  <2> QED BY <2>1, <2>3
<1>5. Recorded'
  BY <1>4, RecordedSwapped DEF ChannelsInv, NumberInv
<1>6. Confirming'
  BY <1>1, <1>4, ConfirmingSame
<1>7. Shape'
  <2>1. server' \in SUBSET Records
    BY <1>4
  <2> QED BY <1>1, <2>1
          DEF ChannelsInv, Shape, TableShape, UserShape, NetShape, userVars, Spoken
<1>8. opening # NotOpening /\ opening.at = "notify" /\ opening.c = c => Disconnecting
  <2>1. r \in Recs(c)
    BY DEF Recs
  <2> QED BY <2>1 DEF ChannelsInv, OpeningInv
<1>9. /\ Becomes(c, x, M, o, f, S, N, t, g, T) /\ LinkOf(x, N, t, g, T, Disconnecting)
      /\ Served(x, o, f, S, t, g, T)
  BY DEF Speaking
<1> QED BY <1>2, <1>3, <1>5, <1>6, <1>7, <1>8, <1>9, Linked

LEMMA ServerData ==
    ASSUME ChannelsInv, NEW r \in server, ServerSpeaks(r), r.acks > 0,
           NEW q, q = [r EXCEPT !.acks = @ - 1], server' = (server \ {r}) \cup {q},
           NEW ok \in {0, 1}, Answer("data", r, ok)
    PROVE  ChannelsInv'
<1>1. PICK c : c = r.c
  OBVIOUS
<1>2. r \in Records /\ ~r.closed /\ q.c = r.c
  BY StateTypes DEF ChannelsInv, ServerSpeaks, Records
<1>3. /\ q \in Records /\ q.c = r.c /\ q.inc = r.inc /\ q.remote = r.remote /\ ~q.closed
      /\ q.acks = r.acks - 1 /\ r.inc \in Nat /\ r.remote \in Nat /\ r.c \in Slots
  BY <1>2 DEF Records
<1>4. PICK x, M, o, f, S, N, t, g, T, d : Speaking(c, r, q, x, M, o, f, S, N, t, g, T, d)
  BY <1>1, <1>3, SpeakingAt
<1>5. PICK a \in Msg : /\ a.kind = "data" /\ a.inc = r.inc /\ g = Append(f, a)
                       /\ Spoken(c, f, g)
  <2>1. PICK kind, a : kind = "data" /\ a = Reply(kind, r, ok)
    OBVIOUS
  <2>2. a \in Msg /\ a.kind = kind /\ a.c = c /\ a.inc = r.inc /\ a \in InMsg
    <3>1. /\ r.c \in Slots \cup {NoSlot} /\ r.remote \in Numbers /\ ok \in Nat
          /\ kind \in InKinds \ Unasked /\ kind \in InKinds
      BY <1>3, <2>1 DEF Numbers, InKinds, Unasked
    <3> QED BY <1>1, <1>3, <2>1, <3>1, ReplyIs
  <2>3. fromServer' = Append(fromServer, a)
    BY <2>1 DEF Answer
  <2>4. f = In(c) /\ g = In(c)'
    BY <1>4 DEF Speaking, Becomes
  <2>5. Spoken(c, f, Append(f, a))
    BY <2>2, <2>3, <2>4, SaysOne
  <2>6. g = Append(f, a)
    BY <2>4, <2>5 DEF Spoken
  <2> QED BY <2>1, <2>2, <2>5, <2>6
<1>6. /\ x \in Objects /\ M \in Seq(Msg) /\ o \in Seq(Msg) /\ f \in Seq(Msg)
      /\ S \in SUBSET Records /\ LinkOf(x, M, o, f, S, d) /\ r \in S /\ d \in BOOLEAN
      /\ T = (S \ {r}) \cup {q}
  BY <1>4 DEF Speaking
<1>7. Saying(x, M, o, f, S, d, r, q) /\ ScpAnswers(r, q, a)
  BY <1>2, <1>3, <1>5, <1>6 DEF Saying, ScpAnswers
<1>8. /\ LinkOf(x, M, o, g, T, d) /\ Mine(x, S) = {r} /\ Mine(x, T) = {q}
      /\ Owed(x, g, o, q.acks) = Owed(x, f, o, r.acks)
  <2>1. Said(x, M, o, f, S, d, r, q, Append(f, a), (S \ {r}) \cup {q})
    BY <1>7, LinkServerData
  <2>2. Said(x, M, o, f, S, d, r, q, g, T)
    BY <1>5, <1>6, <2>1
  <2> QED BY <2>2 DEF Said
<1>9. Served(x, o, f, S, o, g, T)
  <2>1. SameOwed(x, f, o, r, g, o, q)
    BY <1>5, <1>6, <1>8 DEF SameOwed
  <2>2. ASSUME NEW p, NEW b, NEW n, Works(TRUE, p, b, n, x, o, f, S)
        PROVE  Works(TRUE, p, b, n, x, o, g, T)
    BY <1>5, <1>6, <1>8, <2>1, <2>2, WorksServerData
  <2> QED BY <2>2 DEF Served
<1>10. LinkOf(x, M, o, g, T, d)
  BY <1>5, <1>6, <1>8
<1> QED BY <1>1, <1>2, <1>3, <1>4, <1>5, <1>9, <1>10, Spoke

LEMMA ServerCloses ==
    ASSUME ChannelsInv, NEW r \in server, ServerSpeaks(r),
           NEW q, q = [r EXCEPT !.closed = TRUE], server' = (server \ {r}) \cup {q},
           fromServer' = fromServer \o <<Reply("eof", r, 0), Reply("close", r, 0)>>
    PROVE  ChannelsInv'
<1>1. PICK c : c = r.c
  OBVIOUS
<1>2. r \in Records /\ ~r.closed
  BY StateTypes DEF ChannelsInv, ServerSpeaks
<1>3. /\ q \in Records /\ q.c = r.c /\ q.inc = r.inc /\ q.remote = r.remote /\ q.closed
      /\ q.acks = r.acks /\ r.inc \in Nat /\ r.remote \in Nat /\ r.c \in Slots
  BY <1>2 DEF Records
<1>4. PICK x, M, o, f, S, N, t, g, T, d : Speaking(c, r, q, x, M, o, f, S, N, t, g, T, d)
  BY <1>1, <1>3, SpeakingAt
<1>5. f = In(c) /\ g = In(c)' /\ fromServer \in Seq(InMsg)
  BY <1>4 DEF Speaking, Becomes, ChannelsInv, Shape, NetShape
<1>6. PICK a, b : a = Reply("eof", r, 0) /\ b = Reply("close", r, 0)
  OBVIOUS
<1>7. /\ a \in InMsg /\ b \in InMsg /\ a.kind = "eof" /\ b.kind = "close"
      /\ a.c = c /\ b.c = c /\ a.inc = r.inc /\ b.inc = r.inc /\ a \in Msg /\ b \in Msg
  <2>1. ASSUME NEW kind \in {"eof", "close"}, NEW e, e = Reply(kind, r, 0)
        PROVE  e \in Msg /\ e.kind = kind /\ e.c = c /\ e.inc = r.inc /\ e \in InMsg
    <3>1. /\ r.c \in Slots \cup {NoSlot} /\ r.remote \in Numbers /\ 0 \in Nat
          /\ kind \in InKinds \ Unasked /\ kind \in InKinds
      BY <1>3, <2>1 DEF Numbers, InKinds, Unasked, Answers
    <3> QED BY <1>1, <1>3, <2>1, <3>1, ReplyIs
  <2>2. PICK k, l : k = "eof" /\ l = "close"
    OBVIOUS
  <2>3. k \in {"eof", "close"} /\ l \in {"eof", "close"} /\ a = Reply(k, r, 0)
        /\ b = Reply(l, r, 0)
    BY <1>6, <2>2
  <2> QED BY <2>1, <2>2, <2>3
<1>8. PICK s : s = Append(fromServer, a)
  OBVIOUS
<1>9. s \in Seq(InMsg) /\ fromServer' = Append(s, b)
  BY <1>5, <1>6, <1>7, <1>8
<1>10. /\ fromServer' \in Seq(InMsg) /\ SameFirst
       /\ \A k : k # c => View(fromServer', k) = In(k)
       /\ View(fromServer', c) = Append(Append(f, a), b)
  <2>0. fromServer \in Seq(Msg) /\ s \in Seq(Msg)
    BY <1>5, <1>7, <1>8, StateTypes DEF ChannelsInv
  <2>1. Appends(s, fromServer, a)
    BY <1>7, <1>8, <2>0 DEF Appends
  <2>2. PICK h : h = fromServer' /\ Appends(h, s, b)
    BY <1>7, <1>9, <2>0 DEF Appends
  <2>3. ASSUME NEW k, k # c
        PROVE  View(h, k) = View(fromServer, k)
    <3>1. View(s, k) = View(fromServer, k)
      BY <1>7, <2>1, <2>3, ViewAppended
    <3>2. View(h, k) = View(s, k)
      BY <1>7, <2>2, <2>3, ViewAppended
    <3> QED BY <3>1, <3>2
  <2>4. View(h, c) = Append(Append(f, a), b)
    <3>1. Appends(View(s, c), View(fromServer, c), a)
      BY <1>7, <2>1, ViewAppended
    <3>2. Appends(View(h, c), View(s, c), b)
      BY <1>7, <2>2, ViewAppended
    <3> QED BY <1>5, <3>1, <3>2 DEF Appends, In
  <2>5. s # <<>> /\ (fromServer # <<>> => Head(s) = Head(fromServer))
    BY <1>5, <1>7, <1>8, FirstStays
  <2>6. h # <<>> /\ Head(h) = Head(s)
    BY <1>7, <1>9, <2>2, <2>5, FirstStays
  <2>7. h \in Seq(InMsg)
    <3>1. h = Append(s, b)
      BY <1>9, <2>2
    <3> QED BY <1>7, <1>9, <3>1
  <2>8. SameFirst
    BY <2>2, <2>5, <2>6 DEF SameFirst
  <2>9. h = fromServer' /\ \A k : In(k) = View(fromServer, k)
    BY <2>2 DEF In
  <2> QED BY <2>3, <2>4, <2>7, <2>8, <2>9
<1>11. Spoken(c, f, g) /\ g = Append(Append(f, a), b)
  <2>1. \A k : In(k)' = View(fromServer', k)
    BY DEF In
  <2> QED BY <1>5, <1>10, <2>1 DEF Spoken
<1>12. /\ x \in Objects /\ M \in Seq(Msg) /\ o \in Seq(Msg) /\ f \in Seq(Msg)
       /\ S \in SUBSET Records /\ LinkOf(x, M, o, f, S, d) /\ r \in S /\ d \in BOOLEAN
       /\ T = (S \ {r}) \cup {q}
  BY <1>4 DEF Speaking
<1>d. Saying(x, M, o, f, S, d, r, q) /\ Closing(r, q, a, b)
  BY <1>2, <1>3, <1>7, <1>12 DEF Saying, Closing
<1>13. LinkOf(x, M, o, Append(Append(f, a), b), (S \ {r}) \cup {q}, d)
  BY <1>d, SayingCloses
<1>14. Served(x, o, f, S, o, g, T)
  <2>1. ASSUME NEW p, NEW e, NEW n, Works(TRUE, p, e, n, x, o, f, S)
        PROVE  Works(TRUE, p, e, n, x, o, g, T)
    BY <1>3, <1>7, <1>11, <1>12, <2>1, WorksServerCloses
  <2> QED BY <2>1 DEF Served
<1>15. LinkOf(x, M, o, g, T, d)
  BY <1>11, <1>12, <1>13
<1> QED BY <1>1, <1>2, <1>3, <1>4, <1>11, <1>14, <1>15, Spoke

LEMMA ServerSpeaksKeeps ==
    ASSUME ChannelsInv, NEW r \in server, ServerSpeaks(r)
    PROVE  ChannelsInv'
<1>1. CASE /\ fromServer' = fromServer \o <<Reply("eof", r, 0), Reply("close", r, 0)>>
           /\ server' = (server \ {r}) \cup {[r EXCEPT !.closed = TRUE]}
  BY <1>1, ServerCloses
<1>2. CASE r.acks > 0 /\ (\E ok \in {0, 1} : Answer("data", r, ok))
           /\ server' = (server \ {r}) \cup {[r EXCEPT !.acks = @ - 1]}
  BY <1>2, ServerData
<1> QED BY <1>1, <1>2 DEF ServerSpeaks

-----------------------------------------------------------------------------
(* The invariant is inductive. *)

LEMMA InitKeeps ==
    ASSUME Init
    PROVE  ChannelsInv
<1>1. /\ chan = [c \in Slots |-> NoChannel] /\ outQ = [c \in Slots |-> <<>>] /\ mainQ = <<>>
      /\ pc = [u \in Users |-> "idle"] /\ api = [u \in Users |-> "none"]
      /\ slot = [u \in Users |-> NoSlot] /\ asked = [u \in Users |-> 0]
      /\ reads = [u \in Users |-> 0]
      /\ fromServer = <<>> /\ opening = NotOpening /\ alive = TRUE /\ broken = FALSE
      /\ made = 0 /\ asks = 0 /\ server = {} /\ said = 0
  BY DEF Init
<1>2. NoChannel \in Objects /\ NoChannel \notin Regular /\ NoChannel \notin Channel
  BY ObjectIs DEF Objects
<1>3. TableShape
  <2>1. ASSUME NEW c \in Slots
        PROVE  outQ[c] \in Seq(OutMsg(c))
    BY <1>1
  <2>2. 0 \in 0 .. MaxMade /\ <<>> \in Seq(Msg) /\ <<>> \in Seq(MainMsg)
    BY ChannelsAssumption
  <2>3. chan \in [Slots -> Objects] /\ outQ \in [Slots -> Seq(Msg)]
    BY <1>1, <1>2, <2>2
  <2> QED BY <1>1, <2>1, <2>2, <2>3 DEF TableShape
<1>4. UserShape
  <2>1. "idle" \in Using \cup Leaving /\ "none" \in Calls /\ 0 \in 0 .. 2
    BY DEF Using, Calls
  <2> QED BY <1>1, <2>1 DEF UserShape
<1>5. NetShape
  BY <1>1 DEF NetShape, Openings
<1>6. NumberInv
  BY <1>1 DEF NumberInv, Objected, Recorded, Confirming, Sits, NoChannel
<1>7. ~Disconnecting /\ UserInv
  <2>1. \A u \in Users : api[u] # "disconnect"
    BY <1>1
  <2>2. \A u \in Users : UserOf(u)
    BY <1>1 DEF UserOf
  <2>3. Alone
    BY <1>1, <1>2 DEF Alone
  <2> QED BY <2>1, <2>2, <2>3 DEF UserInv, Working, Departing, Disconnecting
<1>8. ASSUME NEW c \in Slots
      PROVE  SlotOf(c) /\ Sent(c)
  <2>1. /\ chan[c] = NoChannel /\ outQ[c] = <<>> /\ Main(c) = <<>> /\ In(c) = <<>>
        /\ Recs(c) = {} /\ Disconnecting = FALSE
    BY <1>1, <1>7, SelectionEmpty DEF Main, In, View, Recs, Disconnecting
  <2>2. PICK x : x = NoChannel /\ x \notin Channel /\ x \notin Regular
    BY <1>2
  <2>3. Lasts(x, FALSE) /\ OtherLink(x, <<>>, <<>>, <<>>, {}, FALSE)
    BY <2>2, NothingUnderWay DEF Lasts, OtherLink
  <2>4. LinkOf(x, <<>>, <<>>, <<>>, {}, FALSE)
    BY <2>2, <2>3 DEF LinkOf
  <2> QED BY <2>1, <2>2, <2>3, <2>4 DEF SlotOf, Stands, Sent
<1> QED BY <1>1, <1>3, <1>4, <1>5, <1>6, <1>7, <1>8
       DEF ChannelsInv, Shape, TableInv, OpeningInv

LEMMA BeginKeeps ==
    ASSUME ChannelsInv, NEW u \in Users, Begin(u)
    PROVE  ChannelsInv'
<1>1. CASE \/ createChannel_session(u) \/ createChannel_directTCPIP(u)
           \/ scpSendInit(u) \/ scpReceiveInit(u)
  <2>1. \E call \in {"create", "scpSend", "scpReceive"}, type \in {"session", "direct_tcpip"} :
           Create(u, call, type)
    BY <1>1 DEF createChannel_session, createChannel_directTCPIP, scpSendInit, scpReceiveInit
  <2> QED BY <2>1, Creates
<1>2. CASE requestRemotePortFowarding(u)
  BY <1>2, ForwardsAsked
<1>3. CASE ChannelRequest(u, "request") \/ ChannelRequest(u, "windowChange")
  BY <1>3, RequestsOfUsers
<1>4. CASE channelSendEOF(u) \/ scpSendFinish(u)
  BY <1>4, EofsOfUsers
<1>5. CASE closeChannel(u) \/ scpReceiveFinish(u)
  BY <1>5, ClosesChannel DEF scpReceiveFinish
<1>6. CASE disconnect(u)
  BY <1>6, Disconnects
<1> QED BY <1>1, <1>2, <1>3, <1>4, <1>5, <1>6
       DEF Begin, channelRequest_pty, channelRequest_shell, channelRequest_x11,
           channelRequest_env, channelRequest_exec, channelRequest_subsystem,
           channelRequest_windowChange, channelRequest_sendSignal

LEMMA ContinueKeeps ==
    ASSUME ChannelsInv, NEW u \in Users, Continue(u)
    PROVE  ChannelsInv'
<1>1. CASE getChannelCreateResult(u)
  BY <1>1, CreateAnswered
<1>2. CASE RequestLook(u)
  BY <1>2, Looks
<1>3. CASE getChannelRequestResult(u)
  BY <1>3, RequestTaken
<1>4. CASE ScpRead(u)
  BY <1>4, ReadsOfUsers
<1>5. CASE CloseLook(u)
  BY <1>5, ClosesOfUsers, LeaverCloses
<1>6. CASE CloseQueue(u)
  BY <1>6, CloseQueued, LeaverQueues
<1>7. CASE waitForChannelClose(u)
  BY <1>7, WaitsForClose, LeaverWaits
<1>8. CASE deleteChannel(u)
  BY <1>8, DeletesOfUsers, LeaverDeletes
<1>9. CASE DisconnectVisit(u)
  BY <1>9, LeaverVisits
<1>10. CASE DisconnectEnds(u)
  BY <1>10, Ends
<1> QED BY <1>1, <1>2, <1>3, <1>4, <1>5, <1>6, <1>7, <1>8, <1>9, <1>10 DEF Continue

LEMMA StepKeeps ==
    ASSUME ChannelsInv, [Next]_vars
    PROVE  ChannelsInv'
<1>1. CASE \E u \in Users : Begin(u) \/ Continue(u)
  BY <1>1, BeginKeeps, ContinueKeeps
<1>2. CASE Transport
  BY <1>2, TransportKeeps
<1>3. CASE Send
  BY <1>3, SendMainKeeps, SendChannelKeeps DEF Send
<1>4. CASE Server
  BY <1>4, ServerOpensKeeps, ServerSpeaksKeeps DEF Server
<1>5. CASE ConnectionLost
  BY <1>5, Loses
<1>6. CASE UNCHANGED vars
  <2>1. /\ broken' \in BOOLEAN /\ UNCHANGED <<chan, outQ, mainQ, made>>
        /\ UNCHANGED userVars /\ UNCHANGED netVars
    BY <1>6 DEF vars, tableVars, ChannelsInv, Shape, TableShape
  <2> QED BY <2>1, OnlyBroken
<1> QED BY <1>1, <1>2, <1>3, <1>4, <1>5, <1>6 DEF Next

\* The table, the calls of the users, the handler of a channel the server opens and
\* what is under way agree with each other at every moment (PTssh.cpp, ChannelManager.cpp,
\* Transport.cpp).
THEOREM ChannelsInvariant == Spec => []ChannelsInv
<1>1. Init => ChannelsInv
  BY InitKeeps
<1>2. ChannelsInv /\ [Next]_vars => ChannelsInv'
  BY StepKeeps
<1> QED BY <1>1, <1>2, PTL DEF Spec

-----------------------------------------------------------------------------
(* What follows from it. *)

\* Messages about a slot are messages of the whole queue.
LEMMA Whole ==
    ASSUME NEW q \in Seq(Msg), NEW c
    PROVE  /\ \A m \in ToSet(q) : m.c = c => \E i \in DOMAIN View(q, c) : View(q, c)[i] = m
           /\ \A i \in DOMAIN View(q, c) : View(q, c)[i] \in ToSet(q) /\ View(q, c)[i].c = c
<1>1. View(q, c) \in Seq(Msg)
  BY ViewType
<1>2. \A m : Holds(View(q, c), m) <=> Holds(q, m) /\ m \in About(c)
  BY SelectionHolds DEF View
<1>3. ASSUME NEW m \in ToSet(q), m.c = c
      PROVE  \E i \in DOMAIN View(q, c) : View(q, c)[i] = m
  <2>1. Holds(q, m) /\ m \in About(c)
    BY <1>3 DEF ToSet, Holds, About
  <2> QED BY <1>1, <1>2, <2>1 DEF Holds
<1>4. ASSUME NEW i \in DOMAIN View(q, c)
      PROVE  View(q, c)[i] \in ToSet(q) /\ View(q, c)[i].c = c
  <2>1. Holds(View(q, c), View(q, c)[i])
    BY <1>1 DEF Holds
  <2>2. Holds(q, View(q, c)[i]) /\ View(q, c)[i] \in About(c)
    BY <1>2, <2>1
  <2> QED BY <2>2 DEF Holds, ToSet, About
<1> QED BY <1>3, <1>4

LEMMA Counted ==
    ASSUME NEW s \in Seq(Msg), NEW K, Count(s, K) # 0
    PROVE  \E i \in DOMAIN s : s[i].kind \in K
<1>1. ASSUME \A i \in 1 .. Len(s) : s[i] \notin OfKind(K)
      PROVE  FALSE
  BY <1>1, SelectionNone DEF Count
<1> QED BY <1>1 DEF OfKind

LEMMA TypesFollow ==
    ASSUME ChannelsInv
    PROVE  TypeOK
<1>1. chan \in [Slots -> Objects] /\ slot \in [Users -> Slots \cup {NoSlot, MaxChannels}]
      /\ alive \in BOOLEAN /\ broken \in BOOLEAN
  BY DEF ChannelsInv, Shape, TableShape, UserShape, NetShape
<1>2. ASSUME NEW c \in Slots, chan[c] # NoChannel
      PROVE  /\ chan[c] \in [inc : Nat, type : Types,
                  status : Statuses, result : Results, answered : Nat, closeSent : BOOLEAN,
                  closeRecvd : BOOLEAN, placeholder : BOOLEAN, address : BOOLEAN,
                  remote : {NoSlot} \cup Nat, eof : BOOLEAN,
                  data : Seq(BOOLEAN), told : BOOLEAN]
             /\ Len(chan[c].data) <= 2
  <2>1. PICK x \in Channel : x = chan[c]
    BY <1>1, <1>2 DEF Objects
  <2>2. Lasts(x, Disconnecting)
    BY <2>1 DEF ChannelsInv, TableInv, SlotOf, Stands
  <2>3. x.data \in Seq(BOOLEAN) /\ (x.placeholder \/ x \in Regular)
    BY DEF Channel, Regular
  <2>4. Len(x.data) <= 2
    <3>1. CASE x.placeholder
      BY <2>2, <3>1 DEF Lasts
    <3>2. CASE x \in Regular
      <4>1. Len(x.data) <= 1 /\ Len(x.data) \in Nat
        BY <2>2, <2>3, <3>2 DEF Lasts
      <4> QED BY <4>1
    <3> QED BY <2>3, <3>1, <3>2
  <2>5. x \in [inc : Nat, type : Types,
                  status : Statuses, result : Results, answered : Nat, closeSent : BOOLEAN,
                  closeRecvd : BOOLEAN, placeholder : BOOLEAN, address : BOOLEAN,
                  remote : {NoSlot} \cup Nat, eof : BOOLEAN,
                  data : Seq(BOOLEAN), told : BOOLEAN]
    BY DEF Channel, Numbers
  <2> QED BY <2>1, <2>4, <2>5
<1>3. \A c \in Slots \ FreeSlots : Len(chan[c].data) <= 2
  BY <1>2 DEF FreeSlots
<1> QED BY <1>1, <1>2, <1>3 DEF TypeOK

LEMMA AnswersFollow ==
    ASSUME ChannelsInv
    PROVE  OwnAnswer
<1>1. ASSUME NEW u \in Users, pc[u] = "requestTake"
      PROVE  chan[slot[u]].answered = asked[u]
  <2>1. pc[u] \notin Leaving /\ pc[u] \notin {"idle", "global"}
    BY <1>1 DEF Leaving, Asleep
  <2>2. ~Disconnecting
    BY <2>1, InCallAt DEF ChannelsInv
  <2>3. UserOf(u)
    BY <2>2 DEF ChannelsInv, UserInv, Working
  <2>4. Held(pc[u], api[u], asked[u], chan[slot[u]])
    BY <2>1, <2>3 DEF UserOf, Works
  <2> QED BY <1>1, <2>4 DEF Held
<1> QED BY <1>1 DEF OwnAnswer

LEMMA CauseFollows ==
    ASSUME ChannelsInv
    PROVE  KeptForCause
<1>1. ASSUME NEW c \in Slots, chan[c] # NoChannel, chan[c].told
      PROVE  chan[c].status = "closed" \/ chan[c].placeholder
  <2>1. PICK x \in Channel : x = chan[c]
    BY <1>1 DEF ChannelsInv, Shape, TableShape, Objects
  <2>2. Lasts(x, Disconnecting)
    BY <2>1 DEF ChannelsInv, TableInv, SlotOf, Stands
  <2> QED BY <1>1, <2>1, <2>2 DEF Lasts, Regular
<1> QED BY <1>1 DEF KeptForCause

\* The slot c while the connection is up.
Here(c, x, M, o, f, S) ==
    /\ x = chan[c] /\ M = Main(c) /\ o = outQ[c] /\ f = In(c) /\ S = Recs(c)
    /\ x \in Objects /\ M \in Seq(Msg) /\ o \in Seq(Msg) /\ o \in Seq(OutMsg(c))
    /\ f \in Seq(Msg) /\ S \in SUBSET Records
    /\ Lasts(x, Disconnecting) /\ LinkOf(x, M, o, f, S, Disconnecting)
LEMMA HereIs ==
    ASSUME ChannelsInv, alive, NEW c \in Slots
    PROVE  \E x, M, o, f, S : Here(c, x, M, o, f, S)
<1>1. PICK x, M, o, f, S : x = chan[c] /\ M = Main(c) /\ o = outQ[c] /\ f = In(c) /\ S = Recs(c)
  OBVIOUS
<1>2. /\ x \in Objects /\ M \in Seq(Msg) /\ o \in Seq(Msg)
      /\ f \in Seq(Msg) /\ S \in SUBSET Records
  BY <1>1, StateTypes DEF ChannelsInv
<1>3. o \in Seq(OutMsg(c))
  BY <1>1 DEF ChannelsInv, Shape, TableShape
<1>4. Stands(TRUE, x, M, o, f, S, Disconnecting)
  <2>1. SlotOf(c) /\ alive = TRUE
    BY StateTypes DEF ChannelsInv, TableInv
  <2> QED BY <1>1, <2>1 DEF SlotOf
<1> QED BY <1>1, <1>2, <1>3, <1>4 DEF Here, Stands

LEMMA AgreementFollows ==
    ASSUME ChannelsInv
    PROVE  NumbersAgree
<1> SUFFICES ASSUME alive, ~Disconnecting
             PROVE  /\ \A m \in ToSet(fromServer) :
                          isValidChannelNumber(m.c) => chan[m.c].inc = m.inc
                    /\ \A r \in server :
                          ~r.closed => isValidChannelNumber(r.c) /\ chan[r.c].inc = r.inc
                    /\ \A c \in Slots : \A m \in ToSet(outQ[c]) :
                          \A r \in Known(m) : r.inc = m.inc
  BY DEF NumbersAgree
<1>1. ASSUME NEW m \in ToSet(fromServer), isValidChannelNumber(m.c)
      PROVE  chan[m.c].inc = m.inc
  <2>1. PICK c \in Slots : c = m.c
    BY <1>1 DEF isValidChannelNumber
  <2>2. PICK x, M, o, f, S : Here(c, x, M, o, f, S)
    BY HereIs
  <2>3. OfInc(f, x.inc)
    BY <2>2 DEF Here, LinkOf, RegularLink, OtherLink
  <2>4. PICK i \in DOMAIN f : f[i] = m
    <3>1. fromServer \in Seq(Msg)
      BY StateTypes DEF ChannelsInv
    <3> QED BY <2>1, <2>2, <3>1, Whole DEF Here, In
  <2> QED BY <2>1, <2>2, <2>3, <2>4 DEF OfInc, Here
<1>2. ASSUME NEW r \in server, ~r.closed
      PROVE  isValidChannelNumber(r.c) /\ chan[r.c].inc = r.inc
  <2>1. PICK c \in Slots : c = r.c
    BY StateTypes DEF ChannelsInv, Records
  <2>2. PICK x, M, o, f, S : Here(c, x, M, o, f, S)
    BY HereIs
  <2>3. r \in S
    BY <2>1, <2>2 DEF Here, Recs
  <2>4. x # NoChannel /\ r.inc = x.inc
    BY <1>2, <2>2, <2>3 DEF Here, LinkOf
  <2> QED BY <2>1, <2>2, <2>4 DEF Here, isValidChannelNumber
<1>3. ASSUME NEW c \in Slots, NEW m \in ToSet(outQ[c]), NEW r \in Known(m)
      PROVE  r.inc = m.inc
  <2>1. PICK x, M, o, f, S : Here(c, x, M, o, f, S)
    BY HereIs
  <2>2. PICK i \in DOMAIN o : o[i] = m
    BY <2>1 DEF Here, ToSet
  <2>3. /\ x \in Objects /\ M \in Seq(Msg) /\ o \in Seq(Msg) /\ f \in Seq(Msg)
        /\ S \in SUBSET Records /\ LinkOf(x, M, o, f, S, Disconnecting) /\ o # <<>>
    BY <2>1, <2>2 DEF Here
  <2>4. x \in Regular
    BY <2>3, OutFirst
  <2>5. \E s : Mine(x, S) = {s} /\ KnownAs(s, x, o, f)
    BY <2>3, OutFirst
  <2>6. PICK s : Mine(x, S) = {s} /\ KnownAs(s, x, o, f)
    BY <2>5
  <2>7. s \in server /\ s.inc = x.inc /\ Own(s) /\ m.remote = s.remote
    BY <2>1, <2>2, <2>6 DEF Mine, Here, Recs, KnownAs, OfRemote
  <2>8. OfInc(o, x.inc)
    BY <2>3, <2>4 DEF LinkOf, RegularLink
  <2>9. m.inc = x.inc
    BY <2>2, <2>8 DEF OfInc
  <2>10. r \in server /\ r.remote = s.remote /\ Own(r)
    BY <2>7 DEF Known, Own
  <2> QED BY <2>7, <2>9, <2>10 DEF ChannelsInv, NumberInv, Recorded
<1> QED BY <1>1, <1>2, <1>3

-----------------------------------------------------------------------------
(* The threads that sleep. *)

\* A message on its way about the channel in the slot c.
LEMMA OnItsWay ==
    ASSUME ChannelsInv, NEW c \in Slots, NEW x, NEW M, NEW o, NEW f, NEW S,
           Here(c, x, M, o, f, S), NEW kinds, NEW answers,
           \/ \E i \in DOMAIN M : M[i].inc = x.inc /\ M[i].kind \in kinds
           \/ \E i \in DOMAIN o : o[i].inc = x.inc /\ o[i].kind \in kinds
           \/ \E i \in DOMAIN f : f[i].inc = x.inc /\ f[i].kind \in answers
    PROVE  Underway(c, kinds, answers)
<1>1. /\ mainQ \in Seq(Msg) /\ fromServer \in Seq(Msg) /\ outQ[c] \in Seq(Msg)
      /\ outQ[c] = o /\ chan[c] = x /\ o \in Seq(OutMsg(c)) /\ f = View(fromServer, c)
      /\ M = View(mainQ, c)
  BY StateTypes DEF Here, ChannelsInv, In, Main
<1>2. \A m : m \in ToSet(mainQ \o outQ[c]) <=> m \in ToSet(mainQ) \/ m \in ToSet(outQ[c])
  <2>1. mainQ \o outQ[c] \in Seq(Msg) /\ Len(mainQ \o outQ[c]) = Len(mainQ) + Len(outQ[c])
    BY <1>1
  <2>2. ASSUME NEW i \in 1 .. Len(mainQ)
        PROVE  mainQ[i] \in ToSet(mainQ \o outQ[c])
    <3>1. (mainQ \o outQ[c])[i] = mainQ[i] /\ i \in DOMAIN (mainQ \o outQ[c])
      BY <1>1, <2>1, <2>2
    <3> QED BY <3>1 DEF ToSet
  <2>3. ASSUME NEW i \in 1 .. Len(outQ[c])
        PROVE  outQ[c][i] \in ToSet(mainQ \o outQ[c])
    <3>1. /\ (mainQ \o outQ[c])[Len(mainQ) + i] = outQ[c][i]
          /\ Len(mainQ) + i \in DOMAIN (mainQ \o outQ[c])
      BY <1>1, <2>1, <2>3
    <3> QED BY <3>1 DEF ToSet
  <2>4. ASSUME NEW i \in 1 .. Len(mainQ \o outQ[c])
        PROVE  (mainQ \o outQ[c])[i] \in ToSet(mainQ) \cup ToSet(outQ[c])
    <3>1. CASE i <= Len(mainQ)
      <4>1. (mainQ \o outQ[c])[i] = mainQ[i] /\ i \in DOMAIN mainQ
        BY <1>1, <2>1, <2>4, <3>1
      <4> QED BY <4>1 DEF ToSet
    <3>2. CASE i > Len(mainQ)
      <4>1. /\ (mainQ \o outQ[c])[i] = outQ[c][i - Len(mainQ)]
            /\ i - Len(mainQ) \in DOMAIN outQ[c]
        BY <1>1, <2>1, <2>4, <3>2
      <4> QED BY <4>1 DEF ToSet
    <3> QED BY <1>1, <2>1, <2>4, <3>1, <3>2
  <2>5. /\ DOMAIN mainQ = 1 .. Len(mainQ) /\ DOMAIN outQ[c] = 1 .. Len(outQ[c])
        /\ DOMAIN (mainQ \o outQ[c]) = 1 .. Len(mainQ \o outQ[c])
    BY <1>1, <2>1
  <2> QED BY <2>2, <2>3, <2>4, <2>5 DEF ToSet
<1>3. CASE \E i \in DOMAIN M : M[i].inc = x.inc /\ M[i].kind \in kinds
  <2>1. PICK m : m \in ToSet(mainQ) /\ m.c = c /\ m.inc = x.inc /\ m.kind \in kinds
    BY <1>1, <1>3, Whole
  <2> QED BY <1>1, <1>2, <2>1 DEF Underway
<1>4. CASE \E i \in DOMAIN o : o[i].inc = x.inc /\ o[i].kind \in kinds
  <2>1. PICK i \in DOMAIN o : o[i].inc = x.inc /\ o[i].kind \in kinds
    BY <1>4
  <2>2. o[i] \in OutMsg(c)
    BY <1>1
  <2>3. PICK m : m \in ToSet(outQ[c]) /\ m.c = c /\ m.inc = x.inc /\ m.kind \in kinds
    BY <1>1, <2>1, <2>2 DEF OutMsg, ToSet
  <2> QED BY <1>1, <1>2, <2>3 DEF Underway
<1>5. CASE \E i \in DOMAIN f : f[i].inc = x.inc /\ f[i].kind \in answers
  <2>1. PICK m : m \in ToSet(fromServer) /\ m.c = c /\ m.inc = x.inc /\ m.kind \in answers
    BY <1>1, <1>5, Whole
  <2> QED BY <1>1, <2>1 DEF Underway
<1> QED BY <1>3, <1>4, <1>5

LEMMA CloseOnItsWay ==
    ASSUME ChannelsInv, NEW c \in Slots, NEW x, NEW M, NEW o, NEW f, NEW S,
           Here(c, x, M, o, f, S), x \in Regular, x.status = "open",
           x.closeSent \/ Some(f, "close")
    PROVE  /\ ~Some(f, "close") => \E i \in DOMAIN o : o[i].inc = x.inc /\ o[i].kind \in {"close"}
           /\ Some(f, "close") => \E i \in DOMAIN f : f[i].inc = x.inc /\ f[i].kind \in {"close"}
<1>1. /\ UsedLink(x, M, o, f, Mine(x, S)) /\ OfInc(f, x.inc) /\ OfInc(o, x.inc)
  BY DEF Here, LinkOf, RegularLink, Used
<1>2. ASSUME ~Some(f, "close")
      PROVE  Some(o, "close")
  BY <1>1, <1>2 DEF UsedLink, KnownAs, Forgotten
<1> QED BY <1>1, <1>2 DEF Some, OfInc

LEMMA ClosersServed ==
    ASSUME ChannelsInv, alive, NEW u \in Users, pc[u] \in {"closeAsleep", "deleteAsleep"}
    PROVE  Underway(slot[u], {"close"}, {"close"})
<1>1. pc[u] = "closeAsleep"
  <2>1. pc[u] \in Using \cup Leaving
    BY DEF ChannelsInv, Shape, UserShape
  <2> QED BY <2>1 DEF Using, Leaving, Asking, Asleep, Requests
<1>2. PICK c \in Slots : /\ c = slot[u] /\ chan[c] \in Regular /\ chan[c].closeSent
                         /\ chan[c].status = "open"
  <2>1. CASE Disconnecting
    <3>1. PICK v \in Users : api[v] = "disconnect"
      BY <2>1 DEF Disconnecting
    <3>2. Leaves(v)
      BY <3>1 DEF ChannelsInv, UserInv, Departing
    <3>3. u = v
      BY <1>1, <3>2 DEF Leaves
    <3>4. Visits(pc[u], slot[u])
      BY <3>2, <3>3 DEF Leaves
    <3> QED BY <1>1, <3>4 DEF Visits, Asleep
  <2>2. CASE ~Disconnecting
    <3>1. UserOf(u)
      BY <2>2 DEF ChannelsInv, UserInv, Working
    <3>2. slot[u] \in Slots /\ Held(pc[u], api[u], asked[u], chan[slot[u]])
      BY <1>1, <3>1 DEF UserOf, Works
    <3> QED BY <1>1, <3>2 DEF Held, Asleep
  <2> QED BY <2>1, <2>2
<1>3. PICK x, M, o, f, S : Here(c, x, M, o, f, S)
  BY HereIs
<1>4. x \in Regular /\ x.status = "open" /\ x.closeSent
  BY <1>2, <1>3 DEF Here
<1>5. \/ \E i \in DOMAIN o : o[i].inc = x.inc /\ o[i].kind \in {"close"}
      \/ \E i \in DOMAIN f : f[i].inc = x.inc /\ f[i].kind \in {"close"}
  BY <1>3, <1>4, CloseOnItsWay
<1> QED BY <1>2, <1>3, <1>5, OnItsWay

LEMMA CreatorsServed ==
    ASSUME ChannelsInv, alive, NEW u \in Users, pc[u] = "creating",
           chan[slot[u]].status = "unknown"
    PROVE  Underway(slot[u], {"open"}, {"confirm", "refuse"})
<1>1. ~Disconnecting
  BY InCallAt DEF ChannelsInv, Leaving, Asleep
<1>2. UserOf(u)
  BY <1>1 DEF ChannelsInv, UserInv, Working
<1>3. PICK c \in Slots : c = slot[u] /\ chan[c] \in Regular
  BY <1>2 DEF UserOf, Works, Held
<1>4. PICK x, M, o, f, S : Here(c, x, M, o, f, S)
  BY HereIs
<1>5. /\ x \in Regular /\ x.status = "unknown" /\ M \in Seq(Msg) /\ f \in Seq(Msg)
      /\ UnknownLink(x, M, o, f, Mine(x, S)) /\ OfInc(f, x.inc)
  BY <1>3, <1>4 DEF Here, LinkOf, RegularLink
<1>6. CASE OpenAsked(x, M, f, Mine(x, S))
  <2>1. 1 \in DOMAIN M /\ M[1].inc = x.inc /\ M[1].kind \in {"open"}
    BY <1>5, <1>6 DEF OpenAsked
  <2> QED BY <1>3, <1>4, <2>1, OnItsWay
<1>7. CASE OpenAnswered(M, f, Mine(x, S))
  <2>1. 1 \in DOMAIN f /\ f[1].kind \in {"confirm", "refuse"}
    BY <1>5, <1>7 DEF OpenAnswered, ConfirmedAs
  <2>2. f[1].inc = x.inc
    BY <1>5, <2>1 DEF OfInc
  <2> QED BY <1>3, <1>4, <2>1, <2>2, OnItsWay
<1> QED BY <1>5, <1>6, <1>7 DEF UnknownLink

LEMMA AskersServed ==
    ASSUME ChannelsInv, alive, NEW u \in Users, pc[u] = "requestWait",
           api[u] # "windowChange", chan[slot[u]].status # "closed"
    PROVE  Underway(slot[u], {"request", "scpSend", "scpReceive"},
                    {"success", "failure", "close"})
<1>1. ~Disconnecting
  BY InCallAt DEF ChannelsInv, Leaving, Asleep
<1>2. UserOf(u) /\ alive = TRUE
  BY <1>1, StateTypes DEF ChannelsInv, UserInv, Working
<1>3. PICK c \in Slots : c = slot[u]
  BY <1>2 DEF UserOf
<1>4. PICK x, M, o, f, S : Here(c, x, M, o, f, S)
  BY HereIs
<1>5. PICK p, a, n : p = pc[u] /\ a = api[u] /\ n = asked[u]
  OBVIOUS
<1>6. Works(TRUE, p, a, n, x, o, f, S)
  <2>1. slot[u] # NoSlot
    BY <1>3, ChannelsAssumption DEF Slots, NoSlot
  <2> QED BY <1>2, <1>3, <1>4, <1>5, <2>1 DEF UserOf, Here
<1>7. /\ x \in Regular /\ x.status = "open" /\ x.result = "pending"
      /\ p \in Asking /\ a # "windowChange"
  BY <1>3, <1>4, <1>5, <1>6 DEF Works, Held, Used, Here, Asking
<1>8. Count(o, Requests) + Count(f, Answers) = 1 \/ Some(f, "close")
  BY <1>6, <1>7 DEF Works, AskOf, AskedFor
<1>9. OfInc(f, x.inc) /\ OfInc(o, x.inc) /\ o \in Seq(Msg) /\ f \in Seq(Msg)
  BY <1>4, <1>7 DEF Here, LinkOf, RegularLink
<1>10. \/ \E i \in DOMAIN o : /\ o[i].inc = x.inc
                              /\ o[i].kind \in {"request", "scpSend", "scpReceive"}
       \/ \E i \in DOMAIN f : /\ f[i].inc = x.inc
                              /\ f[i].kind \in {"success", "failure", "close"}
  <2>1. CASE Some(f, "close")
    BY <1>9, <2>1 DEF Some, OfInc
  <2>2. CASE Count(o, Requests) + Count(f, Answers) = 1
    <3>1. Count(o, Requests) # 0 \/ Count(f, Answers) # 0
      BY <2>2
    <3>2. \/ \E i \in DOMAIN o : o[i].kind \in Requests
          \/ \E i \in DOMAIN f : f[i].kind \in Answers
      BY <1>9, <3>1, Counted
    <3> QED BY <1>9, <3>2 DEF Requests, Answers, OfInc
  <2> QED BY <1>8, <2>1, <2>2
<1> QED BY <1>3, <1>4, <1>10, OnItsWay

LEMMA SleepersFollow ==
    ASSUME ChannelsInv
    PROVE  SleepersServed
  BY ClosersServed, CreatorsServed, AskersServed DEF SleepersServed

-----------------------------------------------------------------------------
\* The variables have their types, and a channel never holds more than two packets that
\* nobody has read yet (ChannelManager.h, Channel.h).
THEOREM TypesKept == Spec => []TypeOK
<1>1. ChannelsInv => TypeOK
  BY TypesFollow
<1> QED BY <1>1, ChannelsInvariant, PTL

\* A channel request returns the server's answer to that very request
\* (getChannelRequestResult, PTssh.cpp and Channel.cpp).
THEOREM OwnAnswerTaken == Spec => []OwnAnswer
<1>1. ChannelsInv => OwnAnswer
  BY AnswersFollow
<1> QED BY <1>1, ChannelsInvariant, PTL

\* While nobody disconnects, client and server mean the same channel by a number
\* (newChannel and deleteChannel, ChannelManager.cpp).
THEOREM NumbersAgreed == Spec => []NumbersAgree
<1>1. ChannelsInv => NumbersAgree
  BY AgreementFollows
<1> QED BY <1>1, ChannelsInvariant, PTL

\* What closeChannel leaves in the table, the server closed first or opened itself
\* (closeChannel, PTssh.cpp).
THEOREM CauseKept == Spec => []KeptForCause
<1>1. ChannelsInv => KeptForCause
  BY CauseFollows
<1> QED BY <1>1, ChannelsInvariant, PTL

\* A thread that sleeps with one look at a field sleeps for something that is still to
\* come (getChannelCreateResult, getChannelRequestResult, waitForChannelClose).
THEOREM SleepersAreServed == Spec => []SleepersServed
<1>1. ChannelsInv => SleepersServed
  BY SleepersFollow
<1> QED BY <1>1, ChannelsInvariant, PTL

=============================================================================
