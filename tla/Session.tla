---------------------------- MODULE Session ----------------------------
(***************************************************************************)
(* One PTssh connection: a user thread that connects, authenticates, asks  *)
(* global requests, disconnects and at last destroys the object            *)
(* (PTssh.cpp), the Transport thread that hands it the answers             *)
(* (Transport.cpp), the SocketSend and SocketRecieve threads that          *)
(* PTsshSocket starts and stops, and the life of a thread                  *)
(* (PTsshThread.cpp).  Channels are in Channels, packets in Outbound and   *)
(* Receive; here the main queue is a sequence of whole messages.           *)
(***************************************************************************)
EXTENDS Integers, Sequences, FiniteSets, SequencesExt

CONSTANTS
    MaxConnects,    \* connectUp calls the user makes
    MaxRequests,    \* requests the user queues in all
    MaxEvents       \* connectUp calls, requests, a banner and a fault together

ASSUME SessionAssumption == {MaxConnects, MaxRequests, MaxEvents} \subseteq Nat

Threads == {"TR", "SS", "SR"}           \* Transport, SocketSend, SocketRecieve
Actors == {"user", "TR", "SR"}          \* who starts or stops a thread
Blockers == {"connect", "service", "auth", "global"}
AuthApis == {"password", "publickey", "methods"}
Apis == AuthApis \cup {"none", "connect", "global", "disconnect"}
Answers == {"undefined", "success", "failure", "change", "banner"}

\* What the field of an answer holds: m_connectResponse a result of the library or, after
\* Transport has ended, the number 51 of a message (SSH_MSG_USERAUTH_FAILURE).
Holds(b) == IF b = "connect" THEN {"undefined", "success", "failure", "51"} ELSE Answers

\* An answer and the number of the request, or the connection, it belongs to.
Response == [answer : Answers \cup {"51"}, id : Nat]
NoResponse == [answer |-> "undefined", id |-> 0]

NothingReturned == [api |-> "none", id |-> 0, result |-> "success", got |-> NoResponse]

VARIABLES
    \* PTsshThread, per thread
    running,        \* m_bIsRunning
    stop,           \* m_bStopRunning
    waiters,        \* who waits on m_isRunning_cv
    allocated,      \* which thread objects exist
    pc,             \* where each of the three threads is
    \* the user thread and the fields of PTssh
    userPc, api, phase, callId, lastId, connects,
    bIsConnected, serviceType, bAuthenticated, bAuthMethods,
    returned,       \* history: the call that has ended last, its request and its result
    \* Transport
    response,       \* m_connectResponse, m_serviceResponse, m_authResponse, ...
    bConnected,     \* m_bConnected
    inboundQ,       \* what SocketRecieve has queued for Transport
    notified,       \* history: an ET_DISCONNECT callback was started
    \* SocketSend, SocketRecieve
    outQ, disconnectSent, disconnectRecieved,
    \* external: the socket and the server
    sock, toServer, fromServer,
    mishaps         \* history: what went wrong outside of the library, and races it lost

threadVars == <<running, stop, waiters, allocated>>
callVars == <<api, phase, callId, lastId, connects>>
fieldVars == <<serviceType, bAuthenticated, bAuthMethods>>
quietVars == <<callVars, bIsConnected, fieldVars, returned>>
userVars == <<userPc, quietVars>>
transportVars == <<response, bConnected, inboundQ, notified>>
socketVars == <<outQ, disconnectSent, disconnectRecieved>>
serverVars == <<sock, toServer, fromServer, mishaps>>
vars == <<threadVars, pc, userVars, transportVars, socketVars, serverVars>>

\* PTsshThread::PTsshThread and init: a new thread object.
ThreadInit ==
    /\ running = [t \in Threads |-> FALSE]
    /\ stop = [t \in Threads |-> FALSE]
    /\ waiters = [t \in Threads |-> {}]
    /\ pc = [t \in Threads |-> "none"]
\* PTssh::init makes the Transport object, or fails and leaves nothing that can be used.
PTsshInit ==
    \/ userPc = "idle" /\ allocated = {"TR"}
    \/ userPc = "gone" /\ allocated = {}
\* PTssh::PTssh
FieldsInit ==
    /\ api = "none" /\ phase = "connect"
    /\ callId = 0 /\ lastId = 0 /\ connects = 0
    /\ bIsConnected = FALSE /\ serviceType = "unknown"
    /\ bAuthenticated = FALSE /\ bAuthMethods = FALSE
    /\ returned = NothingReturned
\* Transport::init: for each kind of answer a mutex, a condition and nothing to hand out.
TransportInit ==
    /\ response = [b \in Blockers |-> NoResponse]
    /\ bConnected = FALSE /\ inboundQ = <<>> /\ notified = FALSE
Init ==
    /\ ThreadInit /\ PTsshInit /\ FieldsInit /\ TransportInit
    /\ outQ = <<>> /\ disconnectSent = FALSE /\ disconnectRecieved = FALSE
    /\ sock = "none" /\ toServer = <<>> /\ fromServer = <<>> /\ mishaps = {}

\* Bound: n more events.
Events(n) ==
    connects + lastId + n + Cardinality(mishaps \cap {"banner", "fault"}) <= MaxEvents

Goto(t, label) == pc' = [pc EXCEPT ![t] = label]

-----------------------------------------------------------------------------
(* PTsshThread.                                                            *)

\* SocketRecieve holds its own m_isRunningMutex while it waits for SocketSend.
MutexFree(t) == t = "SR" => pc["SR"] \notin {"tellSS", "waitSS", "stuck"}

\* pthread_create; a new object starts with its flags clear.
CreateThread(t, fresh) ==
    /\ running' = [running EXCEPT ![t] = FALSE]
    /\ stop' = [stop EXCEPT ![t] = @ /\ ~fresh]
    /\ waiters' = [waiters EXCEPT ![t] = {}]
    /\ allocated' = allocated \cup {t}

\* startThread and stopThread look at m_bIsRunning once and wait at most once.
AwaitStart(t, actor) ==
    /\ MutexFree(t)
    /\ waiters' = IF running[t] THEN waiters ELSE [waiters EXCEPT ![t] = @ \cup {actor}]
    /\ UNCHANGED <<running, stop, allocated>>
StopThread(t, actor) ==
    /\ MutexFree(t)
    /\ stop' = [stop EXCEPT ![t] = TRUE]
    /\ waiters' = IF running[t] THEN [waiters EXCEPT ![t] = @ \cup {actor}] ELSE waiters
    /\ UNCHANGED <<running, allocated>>
Delete(t) ==
    /\ allocated' = allocated \ {t}
    /\ UNCHANGED <<running, stop, waiters>>

\* preRunInit, before and after run: one of those who wait is signalled.
SignalIsRunning(t) ==
    IF waiters[t] = {} THEN UNCHANGED waiters
    ELSE \E w \in waiters[t] : waiters' = [waiters EXCEPT ![t] = @ \ {w}]
RunBegins(t) ==
    /\ pc[t] = "created"
    /\ running' = [running EXCEPT ![t] = TRUE]
    /\ SignalIsRunning(t)
    /\ Goto(t, "run")
    /\ UNCHANGED <<stop, allocated, userVars, transportVars, socketVars, serverVars>>
RunEnds(t) ==
    /\ pc[t] = "exit"
    /\ running' = [running EXCEPT ![t] = FALSE]
    /\ SignalIsRunning(t)
    /\ Goto(t, "ended")
    /\ UNCHANGED <<stop, allocated, userVars, transportVars, socketVars, serverVars>>

-----------------------------------------------------------------------------
(* The user thread.                                                        *)

Return(result, got) ==
    /\ userPc' = "idle" /\ api' = "none" /\ phase' = "connect" /\ callId' = 0
    /\ returned' = [api |-> api, id |-> callId, result |-> result, got |-> got]

\* PTssh::connectUp and Transport::connect, which stops a thread that still runs.
ConnectUp ==
    /\ userPc = "idle" /\ ~bIsConnected /\ "TR" \in allocated
    /\ connects < MaxConnects /\ Events(1)
    /\ connects' = connects + 1
    /\ api' = "connect" /\ phase' = "connect" /\ callId' = connects'
    /\ IF running["TR"]
       THEN StopThread("TR", "user") /\ userPc' = "stopping"
       ELSE userPc' = "create" /\ UNCHANGED threadVars
    /\ returned' = NothingReturned
    /\ UNCHANGED <<pc, lastId, bIsConnected, fieldVars, transportVars, socketVars,
                   serverVars>>
StartTransport ==
    /\ \/ userPc = "create"
       \/ userPc = "stopping" /\ api = "connect" /\ "user" \notin waiters["TR"]
    /\ CreateThread("TR", FALSE)
    /\ Goto("TR", "created")
    /\ userPc' = "look"
    /\ UNCHANGED <<quietVars, transportVars, socketVars, serverVars>>
LookTransport ==
    /\ userPc = "look"
    /\ AwaitStart("TR", "user")
    /\ userPc' = "starting"
    /\ UNCHANGED <<pc, quietVars, transportVars, socketVars, serverVars>>
TransportStarted ==
    /\ userPc = "starting" /\ "user" \notin waiters["TR"]
    /\ userPc' = "ask"
    /\ UNCHANGED <<threadVars, pc, quietVars, transportVars, socketVars, serverVars>>

\* Queue a request and remember its number; the wait is a step of its own.
Request(kind) ==
    /\ lastId' = lastId + 1
    /\ callId' = lastId + 1
    /\ phase' = kind
    /\ outQ' = Append(outQ, [kind |-> kind, id |-> lastId + 1])
    /\ userPc' = "ask"
    /\ UNCHANGED <<disconnectSent, disconnectRecieved, connects>>

\* A pair of keys.  rsaCreate takes e and n from the public half and the rest from the
\* private one, dsaCreate p, q, g and y from the public half and x from the private one.
rsaCreate(pub, priv) ==
    [n |-> pub.n, e |-> pub.e, d |-> priv.d, p |-> priv.p, q |-> priv.q, iqmp |-> priv.iqmp]
dsaCreate(pub, priv) == [p |-> pub.p, q |-> pub.q, g |-> pub.g, y |-> pub.y, x |-> priv.x]
\* e and d are not compared.
rsaVerify(key) ==
    /\ key.n = key.p * key.q
    /\ key.p > key.q
    /\ (key.iqmp * key.q) % key.p = 1
\* dsaVerify compares nothing.
dsaVerify(key) == TRUE
\* What a signature is made with: nothing, in dsaSign.
rsaSign(key) == <<"RSA", key.n, key.d>>
dsaSign(key) == <<>>
NoSignature == <<"none">>
createSignature(type, pub, priv) ==
    CASE type = "ssh-rsa" ->
           LET key == rsaCreate(pub, priv) IN
             IF rsaVerify(key) THEN rsaSign(key) ELSE NoSignature
      [] type = "ssh-dss" ->
           LET key == dsaCreate(pub, priv) IN
             IF dsaVerify(key) THEN dsaSign(key) ELSE NoSignature
      [] OTHER -> NoSignature
\* Small keys: two RSA pairs and a DSA pair; the halves may be mixed up within a type.
RsaPublic == {[n |-> 15, e |-> 3], [n |-> 21, e |-> 5]}
RsaPrivate == {[d |-> 3, p |-> 5, q |-> 3, iqmp |-> 2], [d |-> 5, p |-> 7, q |-> 3, iqmp |-> 5]}
DsaPublic == {[p |-> 7, q |-> 3, g |-> 2, y |-> 4]}
DsaPrivate == {[x |-> 1], [x |-> 2]}
Signatures ==
    {createSignature("ssh-rsa", pub, priv) : pub \in RsaPublic, priv \in RsaPrivate}
    \cup {createSignature("ssh-dss", pub, priv) : pub \in DsaPublic, priv \in DsaPrivate}

\* authByPassword, authByPublicKey and getAuthMethods ask for the service first.
RequestsLeft(n) == lastId + n <= MaxRequests /\ Events(n)
Authenticate ==
    /\ userPc = "idle" /\ bIsConnected
    /\ RequestsLeft(IF serviceType = "userauth" THEN 1 ELSE 2)
    /\ Request(IF serviceType = "userauth" THEN "auth" ELSE "service")
    /\ returned' = NothingReturned
    /\ UNCHANGED <<threadVars, pc, bIsConnected, fieldVars, transportVars, serverVars>>
AuthByPassword == Authenticate /\ api' = "password"
AuthByPublicKey == Authenticate /\ api' = "publickey"
GetAuthMethods == Authenticate /\ api' = "methods"
\* A key that is not base64, or of no known type, is refused before anything is sent; one
\* whose halves do not fit is, when the service is there already.
UnusableKey ==
    /\ userPc = "idle" /\ bIsConnected
    /\ returned' = [api |-> "publickey", id |-> 0, result |-> "failure", got |-> NoResponse]
    /\ UNCHANGED <<threadVars, pc, userPc, callVars, bIsConnected, fieldVars, transportVars,
                   socketVars, serverVars>>
\* isAuthSupported answers from the list it has, or asks for it.
IsAuthSupported ==
    \/ /\ userPc = "idle" /\ bAuthMethods
       /\ returned' = [api |-> "methods", id |-> 0, result |-> "success", got |-> NoResponse]
       /\ UNCHANGED <<threadVars, pc, userPc, callVars, bIsConnected, fieldVars,
                      transportVars, socketVars, serverVars>>
    \/ ~bAuthMethods /\ GetAuthMethods
\* requestRemotePortFowarding and cancelRemotePortFowarding.
GlobalRequest ==
    /\ userPc = "idle" /\ bIsConnected /\ RequestsLeft(1)
    /\ api' = "global"
    /\ Request("global")
    /\ returned' = NothingReturned
    /\ UNCHANGED <<threadVars, pc, bIsConnected, fieldVars, transportVars, serverVars>>

\* A mutant of Wait: an answer that is there already is taken, and never cleared.
WaitForAny ==
    /\ userPc = "ask"
    /\ userPc' = IF response[phase].answer = "undefined" THEN "wait" ELSE "woken"
    /\ UNCHANGED <<threadVars, pc, quietVars, transportVars, socketVars, serverVars>>
\* pthread_cond_wait on m_condVars: without a predicate, so an answer that is
\* already there is not seen.
Wait ==
    /\ userPc = "ask"
    /\ userPc' = "wait"
    /\ UNCHANGED <<threadVars, pc, quietVars, transportVars, socketVars, serverVars>>

Connected ==
    /\ userPc = "woken" /\ phase = "connect"
    /\ LET got == response["connect"] IN
         \E result \in IF got.answer = "undefined" THEN {"success", "failure"} ELSE {got.answer} :
            /\ Return(result, got)
            /\ bIsConnected' = (result = "success")
    /\ UNCHANGED <<threadVars, pc, lastId, connects, fieldVars, transportVars, socketVars,
                   serverVars>>

\* setServiceType, and the authentication request that follows it.
\* m_serviceResponse starts as 0, which is PTSSH_SUCCESS.
ServiceAnswered ==
    /\ userPc = "woken" /\ phase = "service"
    /\ IF response["service"].answer = "failure"
       THEN /\ Return("failure", response["service"])
            /\ UNCHANGED <<lastId, connects, serviceType, socketVars>>
       ELSE /\ serviceType' = "userauth"
            /\ \E signature \in IF api = "publickey" THEN Signatures ELSE {<<>>} :
                 IF signature # NoSignature
                 THEN Request("auth") /\ UNCHANGED <<api, returned>>
                 ELSE /\ Return("failure", response["service"])
                      /\ UNCHANGED <<lastId, connects, socketVars>>
    /\ UNCHANGED <<threadVars, pc, bIsConnected, bAuthenticated, bAuthMethods,
                   transportVars, serverVars>>

\* What each of the three calls makes of m_authResponse: authByPublicKey returns 0,
\* which is PTSSH_SUCCESS, when the user was refused.
PasswordResult(answer) ==
    IF answer \in {"success", "failure", "change"} THEN answer ELSE "failure"
PublicKeyResult(answer) ==
    IF answer = "failure" THEN "success" ELSE PasswordResult(answer)
MethodsResult(answer) ==
    IF answer \in {"success", "failure"} THEN "success" ELSE "failure"
AuthAnswered ==
    /\ userPc = "woken" /\ phase = "auth"
    /\ LET got == response["auth"] IN
         /\ Return(CASE api = "password" -> PasswordResult(got.answer)
                     [] api = "publickey" -> PublicKeyResult(got.answer)
                     [] api = "methods" -> MethodsResult(got.answer), got)
         /\ bAuthenticated' = (bAuthenticated \/ (got.answer = "success" /\ api # "methods"))
         /\ bAuthMethods' = (bAuthMethods \/ (got.answer = "failure" /\ api = "methods"))
         /\ serviceType' = IF got.answer = "success" /\ api = "password"
                           THEN "connection" ELSE serviceType
    /\ UNCHANGED <<threadVars, pc, lastId, connects, bIsConnected, transportVars, socketVars,
                   serverVars>>
GlobalAnswered ==
    /\ userPc = "woken" /\ phase = "global"
    /\ Return(response["global"].answer, response["global"])
    /\ UNCHANGED <<threadVars, pc, lastId, connects, bIsConnected, fieldVars, transportVars,
                   socketVars, serverVars>>

\* PTssh::disconnect without its channels and handlers.
Disconnect ==
    /\ userPc = "idle" /\ bIsConnected
    /\ api' = "disconnect" /\ phase' = "disconnect"
    /\ IF running["TR"]
       THEN /\ outQ' = Append(outQ, [kind |-> "disconnect", id |-> 0])
            /\ userPc' = "stop"
       ELSE UNCHANGED outQ /\ userPc' = "stopping"
    /\ returned' = NothingReturned
    /\ UNCHANGED <<threadVars, pc, callId, lastId, connects, bIsConnected, fieldVars,
                   transportVars, disconnectSent, disconnectRecieved, serverVars>>
StopTransport ==
    /\ userPc = "stop"
    /\ StopThread("TR", "user")
    /\ userPc' = "stopping"
    /\ UNCHANGED <<pc, quietVars, transportVars, socketVars, serverVars>>
Disconnected ==
    /\ userPc = "stopping" /\ api = "disconnect" /\ "user" \notin waiters["TR"]
    /\ Return("success", NoResponse)
    /\ bIsConnected' = FALSE
    /\ UNCHANGED <<threadVars, pc, lastId, connects, fieldVars, transportVars, socketVars,
                   serverVars>>

\* ~Transport and ~ChannelManager: what is queued goes with them.
DeleteTransport ==
    /\ Delete("TR")
    /\ inboundQ' = <<>> /\ outQ' = <<>>
    /\ userPc' = "gone"
    /\ UNCHANGED <<response, bConnected, notified, disconnectSent, disconnectRecieved>>
\* PTssh::~PTssh of an object that is not connected.
Destroy ==
    /\ userPc = "idle" /\ ~bIsConnected /\ connects > 0 /\ "TR" \in allocated
    /\ IF running["TR"]
       THEN /\ StopThread("TR", "user") /\ userPc' = "destroy"
            /\ UNCHANGED <<transportVars, socketVars>>
       ELSE DeleteTransport
    /\ UNCHANGED <<pc, quietVars, serverVars>>
Destroyed ==
    /\ userPc = "destroy" /\ "user" \notin waiters["TR"]
    /\ DeleteTransport
    /\ UNCHANGED <<pc, quietVars, serverVars>>

-----------------------------------------------------------------------------
(* Transport.                                                              *)

\* A mutant of Answer: a refusal is stored and not signalled.
AnswerUnheard(b, answer, id) ==
    /\ response' = [response EXCEPT ![b] = [answer |-> answer, id |-> id]]
    /\ userPc' = IF userPc = "wait" /\ phase = b /\ answer # "failure" THEN "woken" ELSE userPc
    /\ UNCHANGED mishaps
\* An answer is stored and the thread that waits for it is woken; nobody
\* remembers the signal for a thread that does not wait yet.
Answer(b, answer, id) ==
    /\ response' = [response EXCEPT ![b] = [answer |-> answer, id |-> id]]
    /\ userPc' = IF userPc = "wait" /\ phase = b THEN "woken" ELSE userPc
    /\ mishaps' = mishaps \cup
         (IF userPc \in {"look", "starting", "ask"} /\ phase = b THEN {"overtaken"} ELSE {})
\* The thread that waits in connect is woken and finds what is there.
WakeConnect ==
    userPc' = IF userPc = "wait" /\ phase = "connect" THEN "woken" ELSE userPc

\* PTsshSocket::init or connectToServer fails before any thread is started.
ConnectFails ==
    /\ pc["TR"] = "run"
    /\ Answer("connect", "failure", connects)
    /\ Goto("TR", "exit")
    /\ UNCHANGED <<threadVars, quietVars, bConnected, inboundQ, notified, socketVars, sock,
                   toServer, fromServer>>
\* PTsshSocket::init: a socket and an empty queue for what is received.
NewSocket ==
    /\ inboundQ' = <<>> /\ disconnectSent' = FALSE /\ disconnectRecieved' = FALSE
    /\ sock' = "open"
\* connectToServer: new objects with clear flags and queues; SocketSend is created.
ConnectToServer ==
    /\ pc["TR"] = "run"
    /\ allocated' = allocated \cup {"SS", "SR"}
    /\ running' = [running EXCEPT !["SS"] = FALSE, !["SR"] = FALSE]
    /\ stop' = [stop EXCEPT !["SS"] = FALSE, !["SR"] = FALSE]
    /\ waiters' = [waiters EXCEPT !["SS"] = {}, !["SR"] = {}]
    /\ pc' = [pc EXCEPT !["TR"] = "lookSS", !["SS"] = "created", !["SR"] = "none"]
    /\ NewSocket
    /\ UNCHANGED <<userVars, response, bConnected, notified, outQ, toServer, fromServer,
                   mishaps>>
\* startThread: a thread that has ended before it is looked at is waited for in vain.
Look(t, here, next) ==
    /\ pc["TR"] = here
    /\ AwaitStart(t, "TR")
    /\ Goto("TR", next)
    /\ mishaps' = IF pc[t] = "ended" THEN mishaps \cup {"late"} ELSE mishaps
    /\ UNCHANGED <<userVars, transportVars, socketVars, sock, toServer, fromServer>>
StartReceive ==
    /\ pc["TR"] = "createSR" /\ "TR" \notin waiters["SS"]
    /\ pc' = [pc EXCEPT !["TR"] = "lookSR", !["SR"] = "created"]
    /\ UNCHANGED <<threadVars, userVars, transportVars, socketVars, serverVars>>

handleDisconnect ==
    /\ bConnected' = FALSE /\ WakeConnect
    /\ UNCHANGED <<response, mishaps>>
\* Success for the two services the client knows.
handleServiceAccept(m) == Answer("service", m.answer, m.id)
\* processInboundData, one message.
ProcessInbound ==
    /\ pc["TR"] = "poll" /\ "TR" \notin waiters["SR"] /\ inboundQ # <<>>
    /\ inboundQ' = Tail(inboundQ)
    /\ LET m == Head(inboundQ) IN
         CASE m.kind = "newkeys" ->
                IF bConnected THEN UNCHANGED <<bConnected, response, userPc, mishaps>>
                ELSE bConnected' = TRUE /\ Answer("connect", "success", connects)
           [] m.kind = "disconnect" -> handleDisconnect
           [] m.kind = "service" -> handleServiceAccept(m) /\ UNCHANGED bConnected
           [] OTHER -> Answer(m.kind, m.answer, m.id) /\ UNCHANGED bConnected
    /\ UNCHANGED <<threadVars, pc, quietVars, notified, socketVars, sock, toServer,
                   fromServer>>

\* The rest of the loop of Transport::run.  The question whether to stop overwrites
\* what processInboundData said in bKeepProcessing.
CheckStop ==
    /\ pc["TR"] = "poll" /\ "TR" \notin waiters["SR"] /\ inboundQ = <<>>
    /\ Goto("TR", IF stop["TR"] THEN "closing" ELSE "aliveSS")
    /\ UNCHANGED <<threadVars, userVars, transportVars, socketVars, serverVars>>
\* PTsshSocket::isAlive
IsAlive(t, here, otherwise) ==
    /\ pc["TR"] = here /\ MutexFree(t)
    /\ Goto("TR", IF running[t] THEN "poll" ELSE otherwise)
    /\ UNCHANGED <<threadVars, userVars, transportVars, socketVars, serverVars>>
\* A mutant of NotifyUser: isDisconnected does not ask whether a disconnect was sent.
NotifyUserAlways ==
    /\ pc["TR"] = "closing"
    /\ notified' = (notified \/ ~disconnectRecieved)
    /\ Goto("TR", "stopSS")
    /\ UNCHANGED <<threadVars, userVars, response, bConnected, inboundQ, socketVars, serverVars>>
\* Neither side has said goodbye.
isDisconnected == ~disconnectSent /\ ~disconnectRecieved
\* CallbackNotifier runs the function that the program set for ET_DISCONNECT.
NotifyUser ==
    /\ pc["TR"] = "closing"
    /\ notified' = (notified \/ isDisconnected)
    /\ Goto("TR", "stopSS")
    /\ UNCHANGED <<threadVars, userVars, response, bConnected, inboundQ, socketVars,
                   serverVars>>
\* PTsshSocket::shutdown
Shutdown(t, here, next) ==
    /\ pc["TR"] = here
    /\ StopThread(t, "TR")
    /\ Goto("TR", next)
    /\ UNCHANGED <<userVars, transportVars, socketVars, serverVars>>
DeleteSend ==
    /\ pc["TR"] = "deleteSS" /\ "TR" \notin waiters["SS"]
    /\ Delete("SS")
    /\ Goto("TR", "stopSR")
    /\ UNCHANGED <<userVars, transportVars, socketVars, serverVars>>
\* ~PTsshSocket: what is under way goes with it.
CloseSocket == sock' = "none" /\ toServer' = <<>> /\ fromServer' = <<>>
\* A mutant of DeleteReceive: the thread is told to stop and not waited for.
DeleteReceiveAtOnce ==
    /\ pc["TR"] = "deleteSR"
    /\ Delete("SR")
    /\ CloseSocket
    /\ Goto("TR", "last")
    /\ UNCHANGED <<userVars, transportVars, socketVars, mishaps>>
DeleteReceive ==
    /\ pc["TR"] = "deleteSR" /\ "TR" \notin waiters["SR"]
    /\ Delete("SR")
    /\ CloseSocket
    /\ Goto("TR", "last")
    /\ UNCHANGED <<userVars, transportVars, socketVars, mishaps>>
\* The end of Transport::run: a waiting connect is woken before its response is stored.
RunOut ==
    /\ pc["TR"] = "last"
    /\ IF bConnected THEN UNCHANGED userPc ELSE WakeConnect
    /\ Goto("TR", "cleanup")
    /\ UNCHANGED <<threadVars, quietVars, transportVars, socketVars, serverVars>>
\* A mutant of CleanupAfterShutdown: "fail and release" a service request in the same way.
CleanupService ==
    /\ pc["TR"] = "cleanup"
    /\ response' = [b \in Blockers |-> IF b \in {"connect", "service"}
                                      THEN [answer |-> "51", id |-> 0] ELSE response[b]]
    /\ Goto("TR", "exit")
    /\ UNCHANGED <<threadVars, userVars, bConnected, inboundQ, notified, socketVars, serverVars>>
\* cleanupAfterShutdown: the field of connect gets the number of a message.
CleanupAfterShutdown ==
    /\ pc["TR"] = "cleanup"
    /\ response' = [response EXCEPT !["connect"] = [answer |-> "51", id |-> 0]]
    /\ Goto("TR", "exit")
    /\ UNCHANGED <<threadVars, userVars, bConnected, inboundQ, notified, socketVars,
                   serverVars>>

-----------------------------------------------------------------------------
(* SocketSend and SocketRecieve.                                           *)

SendAll ==
    /\ pc["SS"] = "run"
    /\ outQ' = <<>>
    /\ \/ /\ sock \in {"open", "secure", "closing"} \/ outQ = <<>>
          /\ toServer' = IF sock \in {"open", "secure"} THEN toServer \o outQ ELSE toServer
          /\ disconnectSent' = (disconnectSent \/ \E m \in ToSet(outQ) : m.kind = "disconnect")
          /\ Goto("SS", "check")
       \/ /\ sock \in {"closing", "dead"} /\ outQ # <<>>
          /\ Goto("SS", "exit")
          /\ UNCHANGED <<toServer, disconnectSent>>
    /\ UNCHANGED <<threadVars, userVars, transportVars, disconnectRecieved, sock,
                   fromServer, mishaps>>
CheckSend ==
    /\ pc["SS"] = "check"
    /\ Goto("SS", IF disconnectSent \/ stop["SS"] THEN "exit" ELSE "run")
    /\ UNCHANGED <<threadVars, userVars, transportVars, socketVars, serverVars>>

RecvMessage ==
    /\ pc["SR"] = "run" /\ fromServer # <<>>
    /\ LET m == Head(fromServer) IN
         /\ inboundQ' = Append(inboundQ, m)
         /\ disconnectRecieved' = (disconnectRecieved \/ m.kind = "disconnect")
         /\ Goto("SR", IF m.kind = "disconnect" THEN "tail" ELSE "run")
    /\ fromServer' = Tail(fromServer)
    /\ UNCHANGED <<threadVars, userVars, response, bConnected, notified, outQ,
                   disconnectSent, sock, toServer, mishaps>>
RecvEnds ==
    /\ pc["SR"] = "run" /\ fromServer = <<>> /\ sock \in {"closing", "dead"}
    /\ Goto("SR", "tail")
    /\ UNCHANGED <<threadVars, userVars, transportVars, socketVars, serverVars>>
\* The end of SocketRecieve::run tells SocketSend to stop, unless it was stopped itself.
ReceiveTail ==
    /\ pc["SR"] = "tail"
    /\ Goto("SR", IF stop["SR"] THEN "exit" ELSE "tellSS")
    /\ UNCHANGED <<threadVars, userVars, transportVars, socketVars, serverVars>>
TellSend ==
    /\ pc["SR"] = "tellSS"
    /\ \/ /\ "SS" \in allocated /\ running["SS"]
          /\ StopThread("SS", "SR") /\ Goto("SR", "waitSS")
          /\ UNCHANGED mishaps
       \/ /\ "SS" \in allocated /\ ~running["SS"]
          /\ Goto("SR", "exit") /\ UNCHANGED <<threadVars, mishaps>>
       \* m_pSS is used after Transport has deleted it
       \/ /\ "SS" \notin allocated
          /\ \E label \in {"exit", "stuck"} : Goto("SR", label)
          /\ mishaps' = mishaps \cup {"deleted"} /\ UNCHANGED threadVars
    /\ UNCHANGED <<userVars, transportVars, socketVars, sock, toServer, fromServer>>
SendStopped ==
    /\ pc["SR"] = "waitSS" /\ "SR" \notin waiters["SS"]
    /\ Goto("SR", "exit")
    /\ UNCHANGED <<threadVars, userVars, transportVars, socketVars, serverVars>>

-----------------------------------------------------------------------------
(* External: the server and the socket, which fails at most once.          *)

NewKeys ==
    /\ sock = "open"
    /\ sock' = "secure"
    /\ fromServer' = Append(fromServer, [kind |-> "newkeys", answer |-> "success", id |-> 0])
    /\ UNCHANGED <<threadVars, pc, userVars, transportVars, socketVars, toServer, mishaps>>
Reply(kind) == IF kind = "auth" THEN {"success", "failure", "change"} ELSE {"success", "failure"}
ServerAnswers ==
    /\ sock = "secure" /\ toServer # <<>>
    /\ LET m == Head(toServer) IN
         \/ /\ m.kind # "disconnect"
            /\ toServer' = Tail(toServer)
            /\ \E a \in Reply(m.kind) :
                  fromServer' = Append(fromServer, [kind |-> m.kind, answer |-> a, id |-> m.id])
            /\ UNCHANGED <<sock, mishaps>>
         \/ /\ m.kind = "auth" /\ "banner" \notin mishaps /\ Events(1)
            /\ fromServer' = Append(fromServer, [kind |-> "auth", answer |-> "banner", id |-> m.id])
            /\ mishaps' = mishaps \cup {"banner"}
            /\ UNCHANGED <<sock, toServer>>
         \/ /\ m.kind = "disconnect"
            /\ sock' = "closing" /\ toServer' = <<>>
            /\ UNCHANGED <<fromServer, mishaps>>
    /\ UNCHANGED <<threadVars, pc, userVars, transportVars, socketVars>>
ServerDisconnects ==
    /\ sock = "secure" /\ "fault" \notin mishaps /\ Events(1)
    /\ sock' = "closing" /\ toServer' = <<>>
    /\ fromServer' = Append(fromServer, [kind |-> "disconnect", answer |-> "success", id |-> 0])
    /\ mishaps' = mishaps \cup {"fault"}
    /\ UNCHANGED <<threadVars, pc, userVars, transportVars, socketVars>>
Reset ==
    /\ sock \in {"open", "secure"} /\ "fault" \notin mishaps /\ Events(1)
    /\ sock' = "dead" /\ toServer' = <<>> /\ fromServer' = <<>>
    /\ mishaps' = mishaps \cup {"fault"}
    /\ UNCHANGED <<threadVars, pc, userVars, transportVars, socketVars>>

-----------------------------------------------------------------------------
User ==
    \/ ConnectUp \/ StartTransport \/ LookTransport \/ TransportStarted
    \/ AuthByPassword \/ AuthByPublicKey \/ UnusableKey \/ GetAuthMethods
    \/ IsAuthSupported \/ GlobalRequest
    \/ Disconnect \/ Destroy
Continue ==
    \/ Wait \/ Connected \/ ServiceAnswered \/ AuthAnswered \/ GlobalAnswered
    \/ StopTransport \/ Disconnected \/ Destroyed
Transport ==
    \/ RunBegins("TR") \/ ConnectFails \/ ConnectToServer
    \/ Look("SS", "lookSS", "createSR") \/ StartReceive \/ Look("SR", "lookSR", "poll")
    \/ ProcessInbound \/ CheckStop
    \/ IsAlive("SS", "aliveSS", "aliveSR") \/ IsAlive("SR", "aliveSR", "closing")
    \/ NotifyUser \/ Shutdown("SS", "stopSS", "deleteSS") \/ DeleteSend
    \/ Shutdown("SR", "stopSR", "deleteSR") \/ DeleteReceive
    \/ RunOut \/ CleanupAfterShutdown \/ RunEnds("TR")
Send == RunBegins("SS") \/ SendAll \/ CheckSend \/ RunEnds("SS")
Receive ==
    \/ RunBegins("SR") \/ RecvMessage \/ RecvEnds \/ ReceiveTail \/ TellSend
    \/ SendStopped \/ RunEnds("SR")
Server == NewKeys \/ ServerAnswers
Next == User \/ Continue \/ Transport \/ Send \/ Receive \/ Server
        \/ ServerDisconnects \/ Reset

Spec == Init /\ [][Next]_vars
\* Every thread of the library runs, the user comes back from its waits and the
\* server answers what it gets.
FairSpec == Spec
                 /\ WF_vars(Continue \/ StartTransport \/ LookTransport \/ TransportStarted)
                 /\ WF_vars(Transport) /\ WF_vars(Send)
                 /\ WF_vars(Receive) /\ WF_vars(Server)

-----------------------------------------------------------------------------
Kinds == {"newkeys", "service", "auth", "global", "disconnect"}
TypeOK ==
    /\ running \in [Threads -> BOOLEAN] /\ stop \in [Threads -> BOOLEAN]
    /\ waiters \in [Threads -> SUBSET Actors] /\ allocated \in SUBSET Threads
    /\ api \in Apis /\ response \in [Blockers -> Response]
    /\ \A b \in Blockers : response[b].answer \in Holds(b)
    /\ \A m \in ToSet(inboundQ \o fromServer) : m.kind \in Kinds /\ m.answer \in Answers
    /\ \A m \in ToSet(outQ \o toServer) : m.kind \in Kinds
    /\ {bIsConnected, bAuthenticated, bAuthMethods, bConnected, notified, disconnectSent,
        disconnectRecieved} \subseteq BOOLEAN

\* What a call returns is the server's answer to the request that this call sent,
\* not to an earlier one: the answers are kept in one field per kind and the waits
\* do not look who is answered (a banner is one answer too many).
AnswersMatch ==
    returned.api \in AuthApis \cup {"global"} /\ "banner" \notin mishaps
        => returned.got.id = returned.id

\* A thread object is deleted only after its thread has run out, and the threads of
\* the socket do not outlive Transport.
ThreadsOutlived ==
    /\ \A t \in Threads \ allocated : pc[t] \in {"none", "ended"}
    /\ pc["TR"] = "ended" => pc["SS"] \in {"none", "ended"} /\ pc["SR"] \in {"none", "ended"}

\* The user is not told that the connection broke while it is up and nobody asked to
\* stop: the callback comes after a fault, or with a disconnect or second connectUp.
NotifiedForCause ==
    notified => "fault" \in mishaps \/ stop["TR"]

\* A request is answered: unless the connection fails, the answer overtakes the wait,
\* or Transport was stopped before, the thread that waits for an answer returns.
RequestReturns ==
    (userPc = "wait" /\ phase # "disconnect")
        ~> (userPc = "idle" \/ mishaps \cap {"fault", "overtaken", "late"} # {} \/ stop["TR"])

\* SocketRecieve looks at SocketSend when it ends (its comment expects to find it
\* "not running"); Transport may have deleted the object by then.
NoUseAfterDelete == "deleted" \notin mishaps
=============================================================================
