---------------------------- MODULE SessionProofs ----------------------------
(***************************************************************************)
(* Theorems about Session, for any number of connections, requests and     *)
(* events: a thread object is deleted only after its thread has run out,   *)
(* and the threads of the socket do not outlive Transport; what a call     *)
(* returns is the answer to its own request; the program is told that the  *)
(* connection broke only when it did, or somebody asked to stop.           *)
(***************************************************************************)
EXTENDS Session, SequenceTheorems, TLAPS

\* Nothing of thread t runs, or is about to.
Over(t) == pc[t] \in {"none", "ended"}
Live(t) == pc[t] \notin {"none", "created", "ended"}

\* Who may wait for which thread.
ThreadTypes ==
    /\ running \in [Threads -> BOOLEAN]
    /\ waiters \in [Threads -> SUBSET Actors]
    /\ DOMAIN pc = Threads
    /\ waiters["TR"] \subseteq {"user"}

\* m_bIsRunning says whether the thread is between its two signals.
RunningExact == \A t \in Threads : running[t] <=> Live(t)

\* A thread that is created and does not run yet is waited for by who created it.
StartedInOrder ==
    /\ pc["SS"] = "created" =>
         pc["TR"] = "lookSS" \/ (pc["TR"] = "createSR" /\ "TR" \in waiters["SS"])
    /\ pc["SR"] = "created" =>
         pc["TR"] = "lookSR" \/ (pc["TR"] = "poll" /\ "TR" \in waiters["SR"])
    /\ pc["TR"] \in {"lookSS", "createSR"} => pc["SR"] = "none" /\ "SR" \in allocated
    /\ pc["TR"] = "created" =>
         userPc = "look" \/ (userPc = "starting" /\ "user" \in waiters["TR"])

\* Whoever does not wait any more has seen the thread end.
StoppedInOrder ==
    /\ pc["TR"] \in {"none", "created", "run", "last", "cleanup", "exit", "ended"} =>
         Over("SS") /\ Over("SR")
    /\ pc["TR"] = "deleteSS" /\ "TR" \notin waiters["SS"] => Over("SS")
    /\ pc["TR"] \in {"stopSR", "deleteSR"} => Over("SS")
    /\ pc["TR"] = "deleteSR" /\ "TR" \notin waiters["SR"] => Over("SR")
    /\ userPc = "create" => Over("TR")
    /\ userPc = "destroy" \/ (userPc = "stopping" /\ api = "connect") =>
         "user" \in waiters["TR"] \/ Over("TR")

DeletedAreOver == \A t \in Threads \ allocated : Over(t)

ThreadInv == ThreadTypes /\ RunningExact /\ StartedInOrder /\ StoppedInOrder /\ DeletedAreOver

-----------------------------------------------------------------------------

LEMMA InitThreads == Init => ThreadInv
  BY DEF Init, ThreadInit, PTsshInit, ThreadInv, ThreadTypes, RunningExact, StartedInOrder,
         StoppedInOrder, DeletedAreOver, Over, Live, Threads, Actors

-----------------------------------------------------------------------------
(* What the pieces of the actions do to each thread. *)

LEMMA ActorNames == {"user", "TR", "SR"} \subseteq Actors
  BY DEF Actors

LEMMA Moved ==
    ASSUME NEW t \in Threads, NEW l, ThreadInv, Goto(t, l)
    PROVE  /\ DOMAIN pc' = Threads /\ pc'[t] = l
           /\ \A u \in Threads : u # t => pc'[u] = pc[u]
  BY DEF Goto, ThreadInv, ThreadTypes

LEMMA Signalled ==
    ASSUME NEW t \in Threads, ThreadInv, SignalIsRunning(t)
    PROVE  /\ waiters' \in [Threads -> SUBSET Actors] /\ waiters'[t] \subseteq waiters[t]
           /\ \A u \in Threads : u # t => waiters'[u] = waiters[u]
  BY DEF SignalIsRunning, ThreadInv, ThreadTypes

LEMMA Awaited ==
    ASSUME NEW t \in Threads, NEW a \in Actors, ThreadInv, AwaitStart(t, a)
    PROVE  /\ waiters' \in [Threads -> SUBSET Actors]
           /\ waiters[t] \subseteq waiters'[t] /\ waiters'[t] \subseteq waiters[t] \cup {a}
           /\ ~Live(t) => a \in waiters'[t]
           /\ \A u \in Threads : u # t => waiters'[u] = waiters[u]
           /\ UNCHANGED <<running, allocated>>
  BY DEF AwaitStart, ThreadInv, ThreadTypes, RunningExact

LEMMA Stopped ==
    ASSUME NEW t \in Threads, NEW a \in Actors, ThreadInv, StopThread(t, a)
    PROVE  /\ waiters' \in [Threads -> SUBSET Actors]
           /\ waiters[t] \subseteq waiters'[t] /\ waiters'[t] \subseteq waiters[t] \cup {a}
           /\ Live(t) => a \in waiters'[t]
           /\ \A u \in Threads : u # t => waiters'[u] = waiters[u]
           /\ UNCHANGED <<running, allocated>>
  BY DEF StopThread, ThreadInv, ThreadTypes, RunningExact

-----------------------------------------------------------------------------
(* One step per action. *)

LEMMA UserStep ==
    ASSUME ThreadInv, User PROVE ThreadInv'
<1> USE DEF ThreadInv, ThreadTypes, RunningExact, StartedInOrder, StoppedInOrder,
            DeletedAreOver, Over, Live, Threads
<1>1. CASE ConnectUp
  BY <1>1, ActorNames DEF ConnectUp, StopThread, MutexFree, threadVars, userVars,
         quietVars, callVars, fieldVars
<1>2. CASE StartTransport
  <2>1. /\ DOMAIN pc' = Threads /\ pc'["TR"] = "created"
        /\ pc'["SS"] = pc["SS"] /\ pc'["SR"] = pc["SR"]
    BY <1>2 DEF StartTransport, Goto
  <2>2. /\ running' \in [Threads -> BOOLEAN] /\ running'["TR"] = FALSE
        /\ running'["SS"] = running["SS"] /\ running'["SR"] = running["SR"]
    BY <1>2 DEF StartTransport, CreateThread
  <2>3. /\ waiters' \in [Threads -> SUBSET Actors] /\ waiters'["TR"] = {}
        /\ waiters'["SS"] = waiters["SS"] /\ waiters'["SR"] = waiters["SR"]
    BY <1>2 DEF StartTransport, CreateThread
  <2>4. /\ allocated' = allocated \cup {"TR"} /\ userPc' = "look" /\ api' = api /\ Over("TR")
    BY <1>2 DEF StartTransport, CreateThread, quietVars, callVars
  <2> QED BY <2>1, <2>2, <2>3, <2>4
<1>3. CASE LookTransport
  <2>1. /\ userPc = "look" /\ userPc' = "starting" /\ AwaitStart("TR", "user")
        /\ UNCHANGED <<pc, api>>
    BY <1>3 DEF LookTransport, quietVars, callVars
  <2> QED BY <2>1, Awaited, ActorNames
<1>4. CASE TransportStarted
  BY <1>4, ActorNames DEF TransportStarted, threadVars, userVars, quietVars, callVars, fieldVars
<1>5. CASE AuthByPassword
  BY <1>5, ActorNames DEF AuthByPassword, Authenticate, Request, threadVars, userVars,
         quietVars, callVars, fieldVars
<1>6. CASE AuthByPublicKey
  BY <1>6, ActorNames DEF AuthByPublicKey, Authenticate, Request, threadVars, userVars,
         quietVars, callVars, fieldVars
<1>7. CASE UnusableKey
  BY <1>7, ActorNames DEF UnusableKey, threadVars, userVars, quietVars, callVars, fieldVars
<1>8. CASE GetAuthMethods
  BY <1>8, ActorNames DEF GetAuthMethods, Authenticate, Request, threadVars, userVars,
         quietVars, callVars, fieldVars
<1>9. CASE IsAuthSupported
  BY <1>9, ActorNames DEF IsAuthSupported, GetAuthMethods, Authenticate, Request,
         threadVars, userVars, quietVars, callVars, fieldVars
<1>10. CASE GlobalRequest
  BY <1>10, ActorNames DEF GlobalRequest, Request, threadVars, userVars, quietVars,
         callVars, fieldVars
<1>11. CASE Disconnect
  BY <1>11, ActorNames DEF Disconnect, threadVars, userVars, quietVars, callVars, fieldVars
<1>12. CASE Destroy
  BY <1>12, ActorNames DEF Destroy, StopThread, MutexFree, DeleteTransport, Delete,
         threadVars, userVars, quietVars, callVars, fieldVars
<1> QED BY <1>1, <1>2, <1>3, <1>4, <1>5, <1>6, <1>7, <1>8, <1>9, <1>10, <1>11, <1>12 DEF User

LEMMA ContinueStep ==
    ASSUME ThreadInv, Continue PROVE ThreadInv'
<1> USE DEF ThreadInv, ThreadTypes, RunningExact, StartedInOrder, StoppedInOrder,
            DeletedAreOver, Over, Live, Threads
<1>1. CASE Wait
  BY <1>1, ActorNames DEF Wait, threadVars, userVars, quietVars, callVars, fieldVars
<1>2. CASE Connected
  BY <1>2, ActorNames DEF Connected, Return, threadVars, userVars, quietVars, callVars,
         fieldVars
<1>3. CASE ServiceAnswered
  BY <1>3, ActorNames DEF ServiceAnswered, Return, Request, threadVars, userVars,
         quietVars, callVars, fieldVars
<1>4. CASE AuthAnswered
  BY <1>4, ActorNames DEF AuthAnswered, Return, threadVars, userVars, quietVars, callVars,
         fieldVars
<1>5. CASE GlobalAnswered
  BY <1>5, ActorNames DEF GlobalAnswered, Return, threadVars, userVars, quietVars,
         callVars, fieldVars
<1>6. CASE StopTransport
  BY <1>6, ActorNames DEF StopTransport, StopThread, MutexFree, threadVars, userVars,
         quietVars, callVars, fieldVars
<1>7. CASE Disconnected
  BY <1>7, ActorNames DEF Disconnected, Return, threadVars, userVars, quietVars, callVars,
         fieldVars
<1>8. CASE Destroyed
  BY <1>8, ActorNames DEF Destroyed, DeleteTransport, Delete, threadVars, userVars,
         quietVars, callVars, fieldVars
<1> QED BY <1>1, <1>2, <1>3, <1>4, <1>5, <1>6, <1>7, <1>8 DEF Continue

LEMMA TransportStep ==
    ASSUME ThreadInv, Transport PROVE ThreadInv'
<1> USE DEF ThreadInv, ThreadTypes, RunningExact, StartedInOrder, StoppedInOrder,
            DeletedAreOver, Over, Live, Threads
<1>1. CASE RunBegins("TR")
  <2>1. /\ pc["TR"] = "created" /\ Goto("TR", "run") /\ SignalIsRunning("TR")
        /\ UNCHANGED <<allocated, userPc, api>>
    BY <1>1 DEF RunBegins, userVars, quietVars, callVars
  <2>2. /\ running' \in [Threads -> BOOLEAN] /\ running'["TR"] = TRUE
        /\ running'["SS"] = running["SS"] /\ running'["SR"] = running["SR"]
    BY <1>1 DEF RunBegins
  <2> QED BY <2>1, <2>2, Moved, Signalled
<1>2. CASE ConnectFails
  <2>1. /\ DOMAIN pc' = Threads /\ pc'["TR"] = "exit"
        /\ pc'["SS"] = pc["SS"] /\ pc'["SR"] = pc["SR"]
    BY <1>2 DEF ConnectFails, Goto
  <2>2. /\ pc["TR"] = "run" /\ (userPc' = userPc \/ userPc' = "woken") /\ (userPc # "wait" => userPc' = userPc)
        /\ UNCHANGED <<running, waiters, allocated, api>>
    BY <1>2 DEF ConnectFails, Answer, threadVars, userVars, quietVars, callVars
  <2> QED BY <2>1, <2>2
<1>3. CASE ConnectToServer
  <2>1. /\ DOMAIN pc' = Threads /\ pc["TR"] = "run"
        /\ pc'["TR"] = "lookSS" /\ pc'["SS"] = "created" /\ pc'["SR"] = "none"
    BY <1>3 DEF ConnectToServer
  <2>2. /\ running' \in [Threads -> BOOLEAN] /\ running'["TR"] = running["TR"]
        /\ running'["SS"] = FALSE /\ running'["SR"] = FALSE
    BY <1>3 DEF ConnectToServer
  <2>3. waiters' \in [Threads -> SUBSET Actors] /\ waiters'["TR"] = waiters["TR"]
    BY <1>3 DEF ConnectToServer
  <2>4. allocated' = allocated \cup {"SS", "SR"} /\ UNCHANGED <<userPc, api>>
    BY <1>3 DEF ConnectToServer, userVars, quietVars, callVars
  <2> QED BY <2>1, <2>2, <2>3, <2>4
<1>4. CASE Look("SS", "lookSS", "createSR")
  <2>1. pc["TR"] = "lookSS" /\ Goto("TR", "createSR") /\ AwaitStart("SS", "TR")
        /\ UNCHANGED <<userPc, api>>
    BY <1>4 DEF Look, userVars, quietVars, callVars
  <2> QED BY <2>1, Moved, Awaited, ActorNames
<1>5. CASE StartReceive
  <2>1. /\ DOMAIN pc' = Threads /\ pc["TR"] = "createSR"
        /\ pc'["TR"] = "lookSR" /\ pc'["SS"] = pc["SS"] /\ pc'["SR"] = "created"
    BY <1>5 DEF StartReceive
  <2>2. "TR" \notin waiters["SS"] /\ UNCHANGED <<running, waiters, allocated, userPc, api>>
    BY <1>5 DEF StartReceive, threadVars, userVars, quietVars, callVars
  <2> QED BY <2>1, <2>2
<1>6. CASE Look("SR", "lookSR", "poll")
  <2>1. pc["TR"] = "lookSR" /\ Goto("TR", "poll") /\ AwaitStart("SR", "TR")
        /\ UNCHANGED <<userPc, api>>
    BY <1>6 DEF Look, userVars, quietVars, callVars
  <2> QED BY <2>1, Moved, Awaited, ActorNames
<1>7. CASE ProcessInbound
  <2>1. (userPc' = userPc \/ userPc' = "woken") /\ (userPc # "wait" => userPc' = userPc)
        /\ UNCHANGED <<pc, running, waiters, allocated, api>>
    BY <1>7 DEF ProcessInbound, Answer, handleDisconnect, handleServiceAccept, WakeConnect,
           threadVars, userVars, quietVars, callVars
  <2> QED BY <2>1
<1>8. CASE CheckStop
  <2>1. /\ DOMAIN pc' = Threads /\ pc'["TR"] \in {"closing", "aliveSS"}
        /\ pc'["SS"] = pc["SS"] /\ pc'["SR"] = pc["SR"]
    BY <1>8 DEF CheckStop, Goto
  <2>2. /\ pc["TR"] = "poll" /\ "TR" \notin waiters["SR"]
        /\ UNCHANGED <<running, waiters, allocated, userPc, api>>
    BY <1>8 DEF CheckStop, threadVars, userVars, quietVars, callVars
  <2> QED BY <2>1, <2>2
<1>9. CASE IsAlive("SS", "aliveSS", "aliveSR")
  <2>1. /\ DOMAIN pc' = Threads /\ pc'["TR"] \in {"poll", "aliveSR"}
        /\ pc'["SS"] = pc["SS"] /\ pc'["SR"] = pc["SR"]
    BY <1>9 DEF IsAlive, Goto
  <2>2. /\ pc["TR"] = "aliveSS"
        /\ UNCHANGED <<running, waiters, allocated, userPc, api>>
    BY <1>9 DEF IsAlive, threadVars, userVars, quietVars, callVars
  <2> QED BY <2>1, <2>2
<1>10. CASE IsAlive("SR", "aliveSR", "closing")
  <2>1. /\ DOMAIN pc' = Threads /\ pc'["TR"] \in {"poll", "closing"}
        /\ pc'["SS"] = pc["SS"] /\ pc'["SR"] = pc["SR"]
    BY <1>10 DEF IsAlive, Goto
  <2>2. /\ pc["TR"] = "aliveSR"
        /\ UNCHANGED <<running, waiters, allocated, userPc, api>>
    BY <1>10 DEF IsAlive, threadVars, userVars, quietVars, callVars
  <2> QED BY <2>1, <2>2
<1>11. CASE NotifyUser
  <2>1. /\ DOMAIN pc' = Threads /\ pc'["TR"] = "stopSS"
        /\ pc'["SS"] = pc["SS"] /\ pc'["SR"] = pc["SR"]
    BY <1>11 DEF NotifyUser, Goto
  <2>2. /\ pc["TR"] = "closing"
        /\ UNCHANGED <<running, waiters, allocated, userPc, api>>
    BY <1>11 DEF NotifyUser, threadVars, userVars, quietVars, callVars
  <2> QED BY <2>1, <2>2
<1>12. CASE Shutdown("SS", "stopSS", "deleteSS")
  <2>1. pc["TR"] = "stopSS" /\ Goto("TR", "deleteSS") /\ StopThread("SS", "TR")
        /\ UNCHANGED <<userPc, api>>
    BY <1>12 DEF Shutdown, userVars, quietVars, callVars
  <2> QED BY <2>1, Moved, Stopped, ActorNames
<1>13. CASE DeleteSend
  <2>1. /\ DOMAIN pc' = Threads /\ pc'["TR"] = "stopSR"
        /\ pc'["SS"] = pc["SS"] /\ pc'["SR"] = pc["SR"]
    BY <1>13 DEF DeleteSend, Goto
  <2>2. /\ pc["TR"] = "deleteSS" /\ "TR" \notin waiters["SS"]
        /\ allocated' = allocated \ {"SS"}
        /\ UNCHANGED <<running, waiters, userPc, api>>
    BY <1>13 DEF DeleteSend, Delete, userVars, quietVars, callVars
  <2> QED BY <2>1, <2>2
<1>14. CASE Shutdown("SR", "stopSR", "deleteSR")
  <2>1. pc["TR"] = "stopSR" /\ Goto("TR", "deleteSR") /\ StopThread("SR", "TR")
        /\ UNCHANGED <<userPc, api>>
    BY <1>14 DEF Shutdown, userVars, quietVars, callVars
  <2> QED BY <2>1, Moved, Stopped, ActorNames
<1>15. CASE DeleteReceive
  <2>1. /\ DOMAIN pc' = Threads /\ pc'["TR"] = "last"
        /\ pc'["SS"] = pc["SS"] /\ pc'["SR"] = pc["SR"]
    BY <1>15 DEF DeleteReceive, Goto
  <2>2. /\ pc["TR"] = "deleteSR" /\ "TR" \notin waiters["SR"]
        /\ allocated' = allocated \ {"SR"}
        /\ UNCHANGED <<running, waiters, userPc, api>>
    BY <1>15 DEF DeleteReceive, Delete, userVars, quietVars, callVars
  <2> QED BY <2>1, <2>2
<1>16. CASE RunOut
  <2>1. /\ DOMAIN pc' = Threads /\ pc'["TR"] = "cleanup"
        /\ pc'["SS"] = pc["SS"] /\ pc'["SR"] = pc["SR"]
    BY <1>16 DEF RunOut, Goto
  <2>2. /\ pc["TR"] = "last" /\ (userPc' = userPc \/ userPc' = "woken") /\ (userPc # "wait" => userPc' = userPc)
        /\ UNCHANGED <<running, waiters, allocated, api>>
    BY <1>16 DEF RunOut, WakeConnect, threadVars, userVars, quietVars, callVars
  <2> QED BY <2>1, <2>2
<1>17. CASE CleanupAfterShutdown
  <2>1. /\ DOMAIN pc' = Threads /\ pc'["TR"] = "exit"
        /\ pc'["SS"] = pc["SS"] /\ pc'["SR"] = pc["SR"]
    BY <1>17 DEF CleanupAfterShutdown, Goto
  <2>2. /\ pc["TR"] = "cleanup"
        /\ UNCHANGED <<running, waiters, allocated, userPc, api>>
    BY <1>17 DEF CleanupAfterShutdown, threadVars, userVars, quietVars, callVars
  <2> QED BY <2>1, <2>2
<1>18. CASE RunEnds("TR")
  <2>1. /\ pc["TR"] = "exit" /\ Goto("TR", "ended") /\ SignalIsRunning("TR")
        /\ UNCHANGED <<allocated, userPc, api>>
    BY <1>18 DEF RunEnds, userVars, quietVars, callVars
  <2>2. /\ running' \in [Threads -> BOOLEAN] /\ running'["TR"] = FALSE
        /\ running'["SS"] = running["SS"] /\ running'["SR"] = running["SR"]
    BY <1>18 DEF RunEnds
  <2> QED BY <2>1, <2>2, Moved, Signalled
<1> QED BY <1>1, <1>2, <1>3, <1>4, <1>5, <1>6, <1>7, <1>8, <1>9, <1>10, <1>11, <1>12,
       <1>13, <1>14, <1>15, <1>16, <1>17, <1>18 DEF Transport

LEMMA SendStep ==
    ASSUME ThreadInv, Send PROVE ThreadInv'
<1> USE DEF ThreadInv, ThreadTypes, RunningExact, StartedInOrder, StoppedInOrder,
            DeletedAreOver, Over, Live, Threads
<1>1. CASE RunBegins("SS")
  <2>1. /\ pc["SS"] = "created" /\ Goto("SS", "run") /\ SignalIsRunning("SS")
        /\ UNCHANGED <<allocated, userPc, api>>
    BY <1>1 DEF RunBegins, userVars, quietVars, callVars
  <2>2. /\ running' \in [Threads -> BOOLEAN] /\ running'["SS"] = TRUE
        /\ running'["TR"] = running["TR"] /\ running'["SR"] = running["SR"]
    BY <1>1 DEF RunBegins
  <2> QED BY <2>1, <2>2, Moved, Signalled
<1>2. CASE SendAll
  <2>1. /\ DOMAIN pc' = Threads /\ pc'["SS"] \in {"check", "exit"}
        /\ pc'["TR"] = pc["TR"] /\ pc'["SR"] = pc["SR"]
    BY <1>2 DEF SendAll, Goto
  <2>2. /\ pc["SS"] = "run"
        /\ UNCHANGED <<running, waiters, allocated, userPc, api>>
    BY <1>2 DEF SendAll, threadVars, userVars, quietVars, callVars
  <2> QED BY <2>1, <2>2
<1>3. CASE CheckSend
  <2>1. /\ DOMAIN pc' = Threads /\ pc'["SS"] \in {"run", "exit"}
        /\ pc'["TR"] = pc["TR"] /\ pc'["SR"] = pc["SR"]
    BY <1>3 DEF CheckSend, Goto
  <2>2. /\ pc["SS"] = "check"
        /\ UNCHANGED <<running, waiters, allocated, userPc, api>>
    BY <1>3 DEF CheckSend, threadVars, userVars, quietVars, callVars
  <2> QED BY <2>1, <2>2
<1>4. CASE RunEnds("SS")
  <2>1. /\ pc["SS"] = "exit" /\ Goto("SS", "ended") /\ SignalIsRunning("SS")
        /\ UNCHANGED <<allocated, userPc, api>>
    BY <1>4 DEF RunEnds, userVars, quietVars, callVars
  <2>2. /\ running' \in [Threads -> BOOLEAN] /\ running'["SS"] = FALSE
        /\ running'["TR"] = running["TR"] /\ running'["SR"] = running["SR"]
    BY <1>4 DEF RunEnds
  <2> QED BY <2>1, <2>2, Moved, Signalled
<1> QED BY <1>1, <1>2, <1>3, <1>4 DEF Send

LEMMA ReceiveStep ==
    ASSUME ThreadInv, Receive PROVE ThreadInv'
<1> USE DEF ThreadInv, ThreadTypes, RunningExact, StartedInOrder, StoppedInOrder,
            DeletedAreOver, Over, Live, Threads
<1>1. CASE RunBegins("SR")
  <2>1. /\ pc["SR"] = "created" /\ Goto("SR", "run") /\ SignalIsRunning("SR")
        /\ UNCHANGED <<allocated, userPc, api>>
    BY <1>1 DEF RunBegins, userVars, quietVars, callVars
  <2>2. /\ running' \in [Threads -> BOOLEAN] /\ running'["SR"] = TRUE
        /\ running'["TR"] = running["TR"] /\ running'["SS"] = running["SS"]
    BY <1>1 DEF RunBegins
  <2> QED BY <2>1, <2>2, Moved, Signalled
<1>2. CASE RecvMessage
  <2>1. /\ DOMAIN pc' = Threads /\ pc'["SR"] \in {"tail", "run"}
        /\ pc'["TR"] = pc["TR"] /\ pc'["SS"] = pc["SS"]
    BY <1>2 DEF RecvMessage, Goto
  <2>2. /\ pc["SR"] = "run"
        /\ UNCHANGED <<running, waiters, allocated, userPc, api>>
    BY <1>2 DEF RecvMessage, threadVars, userVars, quietVars, callVars
  <2> QED BY <2>1, <2>2
<1>3. CASE RecvEnds
  <2>1. /\ DOMAIN pc' = Threads /\ pc'["SR"] = "tail"
        /\ pc'["TR"] = pc["TR"] /\ pc'["SS"] = pc["SS"]
    BY <1>3 DEF RecvEnds, Goto
  <2>2. /\ pc["SR"] = "run"
        /\ UNCHANGED <<running, waiters, allocated, userPc, api>>
    BY <1>3 DEF RecvEnds, threadVars, userVars, quietVars, callVars
  <2> QED BY <2>1, <2>2
<1>4. CASE ReceiveTail
  <2>1. /\ DOMAIN pc' = Threads /\ pc'["SR"] \in {"exit", "tellSS"}
        /\ pc'["TR"] = pc["TR"] /\ pc'["SS"] = pc["SS"]
    BY <1>4 DEF ReceiveTail, Goto
  <2>2. /\ pc["SR"] = "tail"
        /\ UNCHANGED <<running, waiters, allocated, userPc, api>>
    BY <1>4 DEF ReceiveTail, threadVars, userVars, quietVars, callVars
  <2> QED BY <2>1, <2>2
<1>5. CASE TellSend
  <2>1. /\ pc["SR"] = "tellSS"
        /\ \E l \in {"waitSS", "exit", "stuck"} : Goto("SR", l)
        /\ StopThread("SS", "SR") \/ UNCHANGED threadVars
        /\ UNCHANGED <<userPc, api>>
    BY <1>5 DEF TellSend, userVars, quietVars, callVars
  <2>2. /\ waiters' \in [Threads -> SUBSET Actors]
        /\ waiters'["TR"] = waiters["TR"] /\ waiters'["SR"] = waiters["SR"]
        /\ "TR" \in waiters'["SS"] <=> "TR" \in waiters["SS"]
        /\ UNCHANGED <<running, allocated>>
    BY <2>1, Stopped, ActorNames DEF threadVars
  <2> QED BY <2>1, <2>2, Moved
<1>6. CASE SendStopped
  <2>1. /\ DOMAIN pc' = Threads /\ pc'["SR"] = "exit"
        /\ pc'["TR"] = pc["TR"] /\ pc'["SS"] = pc["SS"]
    BY <1>6 DEF SendStopped, Goto
  <2>2. /\ pc["SR"] = "waitSS"
        /\ UNCHANGED <<running, waiters, allocated, userPc, api>>
    BY <1>6 DEF SendStopped, threadVars, userVars, quietVars, callVars
  <2> QED BY <2>1, <2>2
<1>7. CASE RunEnds("SR")
  <2>1. /\ pc["SR"] = "exit" /\ Goto("SR", "ended") /\ SignalIsRunning("SR")
        /\ UNCHANGED <<allocated, userPc, api>>
    BY <1>7 DEF RunEnds, userVars, quietVars, callVars
  <2>2. /\ running' \in [Threads -> BOOLEAN] /\ running'["SR"] = FALSE
        /\ running'["TR"] = running["TR"] /\ running'["SS"] = running["SS"]
    BY <1>7 DEF RunEnds
  <2> QED BY <2>1, <2>2, Moved, Signalled
<1> QED BY <1>1, <1>2, <1>3, <1>4, <1>5, <1>6, <1>7 DEF Receive

LEMMA ServerStep ==
    ASSUME ThreadInv, Server \/ ServerDisconnects \/ Reset PROVE ThreadInv'
<1>1. UNCHANGED <<threadVars, pc, userVars>>
  BY DEF Server, NewKeys, ServerAnswers, ServerDisconnects, Reset
<1> QED BY <1>1 DEF ThreadInv, ThreadTypes, RunningExact, StartedInOrder, StoppedInOrder,
            DeletedAreOver, Over, Live, threadVars, userVars, quietVars, callVars

LEMMA StepThreads == ThreadInv /\ [Next]_vars => ThreadInv'
<1> SUFFICES ASSUME ThreadInv, [Next]_vars PROVE ThreadInv'
  OBVIOUS
<1>1. CASE UNCHANGED vars
  BY <1>1 DEF vars, ThreadInv, ThreadTypes, RunningExact, StartedInOrder, StoppedInOrder,
              DeletedAreOver, Over, Live, threadVars, userVars, quietVars, callVars
<1> QED BY <1>1, UserStep, ContinueStep, TransportStep, SendStep, ReceiveStep, ServerStep
        DEF Next

\* A thread object is deleted only after its thread has run out, and the two threads of
\* the socket have ended when Transport has (PTsshSocket::shutdown, PTssh::~PTssh).
THEOREM ThreadsCorrect == Spec => []ThreadsOutlived
<1>1. ThreadInv => ThreadsOutlived
  BY DEF ThreadInv, StoppedInOrder, DeletedAreOver, ThreadsOutlived, Over, Threads
<1> QED BY <1>1, InitThreads, StepThreads, PTL DEF Spec
-----------------------------------------------------------------------------
(* What the fields and the queues hold. *)

Requests == {"service", "auth", "global"}
Asked == [kind : Requests \cup {"disconnect"}, id : Nat]
Told == [kind : Kinds, answer : Answers, id : Nat]

ObjectTypes ==
    /\ running \in [Threads -> BOOLEAN] /\ stop \in [Threads -> BOOLEAN]
    /\ waiters \in [Threads -> SUBSET Actors] /\ allocated \in SUBSET Threads
CallTypes ==
    /\ api \in Apis /\ phase \in Blockers \cup {"disconnect"}
    /\ callId \in Nat /\ lastId \in Nat /\ connects \in Nat
    /\ bIsConnected \in BOOLEAN /\ bAuthenticated \in BOOLEAN /\ bAuthMethods \in BOOLEAN
QueueTypes ==
    /\ response \in [Blockers -> Response]
    /\ \A b \in Blockers : response[b].answer \in Holds(b)
    /\ outQ \in Seq(Asked) /\ toServer \in Seq(Asked)
    /\ inboundQ \in Seq(Told) /\ fromServer \in Seq(Told)
FlagTypes ==
    /\ bConnected \in BOOLEAN /\ notified \in BOOLEAN
    /\ disconnectSent \in BOOLEAN /\ disconnectRecieved \in BOOLEAN
Types == ObjectTypes /\ CallTypes /\ FlagTypes /\ QueueTypes

LEMMA InitTypes == Init => Types
<1> SUFFICES ASSUME Init PROVE Types
  OBVIOUS
<1>1. ObjectTypes
  BY DEF Init, ThreadInit, PTsshInit, ObjectTypes, Threads, Actors
<1>2. CallTypes
  BY DEF Init, FieldsInit, CallTypes, Apis, Blockers
<1>3. FlagTypes
  BY DEF Init, TransportInit, FlagTypes
<1>4. NoResponse \in Response
  BY DEF NoResponse, Response, Answers
<1>5. QueueTypes
  BY <1>4, EmptySeq DEF Init, TransportInit, QueueTypes, NoResponse, Holds, Answers
<1> QED BY <1>1, <1>2, <1>3, <1>5 DEF Types

LEMMA StopTypes ==
    ASSUME ObjectTypes, NEW t \in Threads, NEW a \in Actors,
           UNCHANGED threadVars \/ StopThread(t, a)
    PROVE  ObjectTypes'
<1>1. CASE UNCHANGED threadVars
  BY <1>1 DEF ObjectTypes, threadVars
<1>2. CASE StopThread(t, a)
  <2>1. stop' \in [Threads -> BOOLEAN]
    BY <1>2, ZenonT(40) DEF StopThread, ObjectTypes
  <2>2. waiters' \in [Threads -> SUBSET Actors]
    <3>1. waiters' = waiters \/ waiters' = [waiters EXCEPT ![t] = @ \cup {a}]
      BY <1>2 DEF StopThread
    <3> QED BY <3>1, SMTT(20) DEF ObjectTypes
  <2>3. UNCHANGED <<running, allocated>>
    BY <1>2 DEF StopThread
  <2> QED BY <2>1, <2>2, <2>3 DEF ObjectTypes
<1> QED BY <1>1, <1>2

LEMMA ObjectStep ==
    ASSUME ObjectTypes, Next PROVE ObjectTypes'
<1> USE DEF ObjectTypes, Threads, Actors, threadVars
<1>1. CASE ConnectUp
  <2>1. UNCHANGED threadVars \/ StopThread("TR", "user")
    BY <1>1 DEF ConnectUp
  <2> QED BY <2>1, StopTypes
<1>2. CASE StartTransport
  BY <1>2 DEF StartTransport, CreateThread
<1>3. CASE LookTransport
  BY <1>3 DEF LookTransport, AwaitStart
<1>4. CASE TransportStarted
  BY <1>4 DEF TransportStarted
<1>5. CASE AuthByPassword
  BY <1>5 DEF AuthByPassword, Authenticate, Request
<1>6. CASE AuthByPublicKey
  BY <1>6 DEF AuthByPublicKey, Authenticate, Request
<1>7. CASE UnusableKey
  BY <1>7 DEF UnusableKey
<1>8. CASE GetAuthMethods
  BY <1>8 DEF GetAuthMethods, Authenticate, Request
<1>9. CASE IsAuthSupported
  BY <1>9 DEF IsAuthSupported, GetAuthMethods, Authenticate, Request
<1>10. CASE GlobalRequest
  BY <1>10 DEF GlobalRequest, Request
<1>11. CASE Disconnect
  BY <1>11 DEF Disconnect
<1>12. CASE Destroy
  <2>1. CASE StopThread("TR", "user")
    BY <2>1, StopTypes
  <2>2. CASE ~StopThread("TR", "user")
    BY <1>12, <2>2 DEF Destroy, DeleteTransport, Delete
  <2> QED BY <2>1, <2>2
<1>13. CASE Wait
  BY <1>13 DEF Wait
<1>14. CASE Connected
  BY <1>14 DEF Connected, Return
<1>15. CASE ServiceAnswered
  BY <1>15 DEF ServiceAnswered, Return, Request
<1>16. CASE AuthAnswered
  BY <1>16 DEF AuthAnswered, Return
<1>17. CASE GlobalAnswered
  BY <1>17 DEF GlobalAnswered, Return
<1>18. CASE StopTransport
  BY <1>18 DEF StopTransport, StopThread
<1>19. CASE Disconnected
  BY <1>19 DEF Disconnected, Return
<1>20. CASE Destroyed
  BY <1>20 DEF Destroyed, DeleteTransport, Delete
<1>21. CASE RunBegins("TR")
  BY <1>21 DEF RunBegins, SignalIsRunning
<1>22. CASE ConnectFails
  BY <1>22 DEF ConnectFails
<1>23. CASE ConnectToServer
  BY <1>23 DEF ConnectToServer, NewSocket
<1>24. CASE Look("SS", "lookSS", "createSR")
  BY <1>24 DEF Look, AwaitStart
<1>25. CASE StartReceive
  BY <1>25 DEF StartReceive
<1>26. CASE Look("SR", "lookSR", "poll")
  BY <1>26 DEF Look, AwaitStart
<1>27. CASE ProcessInbound
  BY <1>27 DEF ProcessInbound, handleDisconnect, handleServiceAccept, WakeConnect
<1>28. CASE CheckStop
  BY <1>28 DEF CheckStop
<1>29. CASE IsAlive("SS", "aliveSS", "aliveSR")
  BY <1>29 DEF IsAlive
<1>30. CASE IsAlive("SR", "aliveSR", "closing")
  BY <1>30 DEF IsAlive
<1>31. CASE NotifyUser
  BY <1>31 DEF NotifyUser
<1>32. CASE Shutdown("SS", "stopSS", "deleteSS")
  BY <1>32 DEF Shutdown, StopThread
<1>33. CASE DeleteSend
  BY <1>33 DEF DeleteSend, Delete
<1>34. CASE Shutdown("SR", "stopSR", "deleteSR")
  BY <1>34 DEF Shutdown, StopThread
<1>35. CASE DeleteReceive
  BY <1>35 DEF DeleteReceive, Delete, CloseSocket
<1>36. CASE RunOut
  BY <1>36 DEF RunOut, WakeConnect
<1>37. CASE CleanupAfterShutdown
  BY <1>37 DEF CleanupAfterShutdown
<1>38. CASE RunEnds("TR")
  BY <1>38 DEF RunEnds, SignalIsRunning
<1>39. CASE RunBegins("SS")
  BY <1>39 DEF RunBegins, SignalIsRunning
<1>40. CASE SendAll
  BY <1>40 DEF SendAll
<1>41. CASE CheckSend
  BY <1>41 DEF CheckSend
<1>42. CASE RunEnds("SS")
  BY <1>42 DEF RunEnds, SignalIsRunning
<1>43. CASE RunBegins("SR")
  BY <1>43 DEF RunBegins, SignalIsRunning
<1>44. CASE RecvMessage
  BY <1>44 DEF RecvMessage
<1>45. CASE RecvEnds
  BY <1>45 DEF RecvEnds
<1>46. CASE ReceiveTail
  BY <1>46 DEF ReceiveTail
<1>47. CASE TellSend
  <2>1. UNCHANGED threadVars \/ StopThread("SS", "SR")
    BY <1>47 DEF TellSend
  <2> QED BY <2>1, StopTypes
<1>48. CASE SendStopped
  BY <1>48 DEF SendStopped
<1>49. CASE RunEnds("SR")
  BY <1>49 DEF RunEnds, SignalIsRunning
<1>50. CASE NewKeys
  BY <1>50 DEF NewKeys
<1>51. CASE ServerAnswers
  BY <1>51 DEF ServerAnswers, Reply
<1>52. CASE ServerDisconnects
  BY <1>52 DEF ServerDisconnects
<1>53. CASE Reset
  BY <1>53 DEF Reset
<1> QED BY <1>1, <1>2, <1>3, <1>4, <1>5, <1>6, <1>7, <1>8, <1>9, <1>10, <1>11, <1>12, <1>13,
       <1>14, <1>15, <1>16, <1>17, <1>18, <1>19, <1>20, <1>21, <1>22, <1>23, <1>24, <1>25,
       <1>26, <1>27, <1>28, <1>29, <1>30, <1>31, <1>32, <1>33, <1>34, <1>35, <1>36, <1>37,
       <1>38, <1>39, <1>40, <1>41, <1>42, <1>43, <1>44, <1>45, <1>46, <1>47, <1>48, <1>49,
       <1>50, <1>51, <1>52, <1>53 DEF Next, User, Continue, Transport, Send, Receive, Server

LEMMA CallStep ==
    ASSUME CallTypes, Next PROVE CallTypes'
<1> USE DEF CallTypes, Apis, AuthApis, Blockers, userVars, quietVars, callVars, fieldVars
<1>1. CASE ConnectUp
  BY <1>1 DEF ConnectUp, StopThread
<1>2. CASE StartTransport
  BY <1>2 DEF StartTransport, CreateThread, Goto
<1>3. CASE LookTransport
  BY <1>3 DEF LookTransport, AwaitStart
<1>4. CASE TransportStarted
  BY <1>4 DEF TransportStarted
<1>5. CASE AuthByPassword
  BY <1>5 DEF AuthByPassword, Authenticate, Request
<1>6. CASE AuthByPublicKey
  BY <1>6 DEF AuthByPublicKey, Authenticate, Request
<1>7. CASE UnusableKey
  BY <1>7 DEF UnusableKey
<1>8. CASE GetAuthMethods
  BY <1>8 DEF GetAuthMethods, Authenticate, Request
<1>9. CASE IsAuthSupported
  BY <1>9 DEF IsAuthSupported, GetAuthMethods, Authenticate, Request
<1>10. CASE GlobalRequest
  BY <1>10 DEF GlobalRequest, Request
<1>11. CASE Disconnect
  BY <1>11 DEF Disconnect
<1>12. CASE Destroy
  BY <1>12 DEF Destroy, StopThread, DeleteTransport, Delete
<1>13. CASE Wait
  BY <1>13 DEF Wait
<1>14. CASE Connected
  BY <1>14 DEF Connected, Return
<1>15. CASE ServiceAnswered
  BY <1>15 DEF ServiceAnswered, Return, Request
<1>16. CASE AuthAnswered
  BY <1>16 DEF AuthAnswered, Return
<1>17. CASE GlobalAnswered
  BY <1>17 DEF GlobalAnswered, Return
<1>18. CASE StopTransport
  BY <1>18 DEF StopTransport, StopThread
<1>19. CASE Disconnected
  BY <1>19 DEF Disconnected, Return
<1>20. CASE Destroyed
  BY <1>20 DEF Destroyed, DeleteTransport, Delete
<1>21. CASE RunBegins("TR")
  BY <1>21 DEF RunBegins, Goto, SignalIsRunning
<1>22. CASE ConnectFails
  BY <1>22 DEF ConnectFails, Goto, Answer
<1>23. CASE ConnectToServer
  BY <1>23 DEF ConnectToServer, NewSocket
<1>24. CASE Look("SS", "lookSS", "createSR")
  BY <1>24 DEF Look, AwaitStart, Goto
<1>25. CASE StartReceive
  BY <1>25 DEF StartReceive
<1>26. CASE Look("SR", "lookSR", "poll")
  BY <1>26 DEF Look, AwaitStart, Goto
<1>27. CASE ProcessInbound
  BY <1>27 DEF ProcessInbound, Answer, handleDisconnect, handleServiceAccept,
         WakeConnect
<1>28. CASE CheckStop
  BY <1>28 DEF CheckStop, Goto
<1>29. CASE IsAlive("SS", "aliveSS", "aliveSR")
  BY <1>29 DEF IsAlive, Goto
<1>30. CASE IsAlive("SR", "aliveSR", "closing")
  BY <1>30 DEF IsAlive, Goto
<1>31. CASE NotifyUser
  BY <1>31 DEF NotifyUser, Goto
<1>32. CASE Shutdown("SS", "stopSS", "deleteSS")
  BY <1>32 DEF Shutdown, StopThread, Goto
<1>33. CASE DeleteSend
  BY <1>33 DEF DeleteSend, Delete, Goto
<1>34. CASE Shutdown("SR", "stopSR", "deleteSR")
  BY <1>34 DEF Shutdown, StopThread, Goto
<1>35. CASE DeleteReceive
  BY <1>35 DEF DeleteReceive, Delete, Goto, CloseSocket
<1>36. CASE RunOut
  BY <1>36 DEF RunOut, WakeConnect, Goto
<1>37. CASE CleanupAfterShutdown
  BY <1>37 DEF CleanupAfterShutdown, Goto
<1>38. CASE RunEnds("TR")
  BY <1>38 DEF RunEnds, Goto, SignalIsRunning
<1>39. CASE RunBegins("SS")
  BY <1>39 DEF RunBegins, Goto, SignalIsRunning
<1>40. CASE SendAll
  BY <1>40 DEF SendAll, Goto
<1>41. CASE CheckSend
  BY <1>41 DEF CheckSend, Goto
<1>42. CASE RunEnds("SS")
  BY <1>42 DEF RunEnds, Goto, SignalIsRunning
<1>43. CASE RunBegins("SR")
  BY <1>43 DEF RunBegins, Goto, SignalIsRunning
<1>44. CASE RecvMessage
  BY <1>44 DEF RecvMessage, Goto
<1>45. CASE RecvEnds
  BY <1>45 DEF RecvEnds, Goto
<1>46. CASE ReceiveTail
  BY <1>46 DEF ReceiveTail, Goto
<1>47. CASE TellSend
  BY <1>47 DEF TellSend, StopThread, Goto
<1>48. CASE SendStopped
  BY <1>48 DEF SendStopped, Goto
<1>49. CASE RunEnds("SR")
  BY <1>49 DEF RunEnds, Goto, SignalIsRunning
<1>50. CASE NewKeys
  BY <1>50 DEF NewKeys
<1>51. CASE ServerAnswers
  BY <1>51 DEF ServerAnswers, Reply
<1>52. CASE ServerDisconnects
  BY <1>52 DEF ServerDisconnects
<1>53. CASE Reset
  BY <1>53 DEF Reset
<1> QED BY <1>1, <1>2, <1>3, <1>4, <1>5, <1>6, <1>7, <1>8, <1>9, <1>10, <1>11, <1>12, <1>13,
       <1>14, <1>15, <1>16, <1>17, <1>18, <1>19, <1>20, <1>21, <1>22, <1>23, <1>24, <1>25,
       <1>26, <1>27, <1>28, <1>29, <1>30, <1>31, <1>32, <1>33, <1>34, <1>35, <1>36, <1>37,
       <1>38, <1>39, <1>40, <1>41, <1>42, <1>43, <1>44, <1>45, <1>46, <1>47, <1>48, <1>49,
       <1>50, <1>51, <1>52, <1>53 DEF Next, User, Continue, Transport, Send, Receive, Server

LEMMA FlagStep ==
    ASSUME FlagTypes, Next PROVE FlagTypes'
<1> USE DEF FlagTypes, transportVars, socketVars
<1>1. CASE ConnectUp
  BY <1>1 DEF ConnectUp, StopThread
<1>2. CASE StartTransport
  BY <1>2 DEF StartTransport, CreateThread
<1>3. CASE LookTransport
  BY <1>3 DEF LookTransport, AwaitStart
<1>4. CASE TransportStarted
  BY <1>4 DEF TransportStarted
<1>5. CASE AuthByPassword
  BY <1>5 DEF AuthByPassword, Authenticate, Request
<1>6. CASE AuthByPublicKey
  BY <1>6 DEF AuthByPublicKey, Authenticate, Request
<1>7. CASE UnusableKey
  BY <1>7 DEF UnusableKey
<1>8. CASE GetAuthMethods
  BY <1>8 DEF GetAuthMethods, Authenticate, Request
<1>9. CASE IsAuthSupported
  BY <1>9 DEF IsAuthSupported, GetAuthMethods, Authenticate, Request
<1>10. CASE GlobalRequest
  BY <1>10 DEF GlobalRequest, Request
<1>11. CASE Disconnect
  BY <1>11 DEF Disconnect
<1>12. CASE Destroy
  BY <1>12 DEF Destroy, StopThread, DeleteTransport, Delete
<1>13. CASE Wait
  BY <1>13 DEF Wait
<1>14. CASE Connected
  BY <1>14 DEF Connected, Return
<1>15. CASE ServiceAnswered
  BY <1>15 DEF ServiceAnswered, Return, Request
<1>16. CASE AuthAnswered
  BY <1>16 DEF AuthAnswered, Return
<1>17. CASE GlobalAnswered
  BY <1>17 DEF GlobalAnswered, Return
<1>18. CASE StopTransport
  BY <1>18 DEF StopTransport, StopThread
<1>19. CASE Disconnected
  BY <1>19 DEF Disconnected, Return
<1>20. CASE Destroyed
  BY <1>20 DEF Destroyed, DeleteTransport, Delete
<1>21. CASE RunBegins("TR")
  BY <1>21 DEF RunBegins, SignalIsRunning
<1>22. CASE ConnectFails
  BY <1>22 DEF ConnectFails, Answer
<1>23. CASE ConnectToServer
  BY <1>23 DEF ConnectToServer, NewSocket
<1>24. CASE Look("SS", "lookSS", "createSR")
  BY <1>24 DEF Look, AwaitStart
<1>25. CASE StartReceive
  BY <1>25 DEF StartReceive
<1>26. CASE Look("SR", "lookSR", "poll")
  BY <1>26 DEF Look, AwaitStart
<1>27. CASE ProcessInbound
  BY <1>27 DEF ProcessInbound, Answer, handleDisconnect, handleServiceAccept,
         WakeConnect
<1>28. CASE CheckStop
  BY <1>28 DEF CheckStop
<1>29. CASE IsAlive("SS", "aliveSS", "aliveSR")
  BY <1>29 DEF IsAlive
<1>30. CASE IsAlive("SR", "aliveSR", "closing")
  BY <1>30 DEF IsAlive
<1>31. CASE NotifyUser
  BY <1>31 DEF NotifyUser
<1>32. CASE Shutdown("SS", "stopSS", "deleteSS")
  BY <1>32 DEF Shutdown, StopThread
<1>33. CASE DeleteSend
  BY <1>33 DEF DeleteSend, Delete
<1>34. CASE Shutdown("SR", "stopSR", "deleteSR")
  BY <1>34 DEF Shutdown, StopThread
<1>35. CASE DeleteReceive
  BY <1>35 DEF DeleteReceive, Delete, CloseSocket
<1>36. CASE RunOut
  BY <1>36 DEF RunOut, WakeConnect
<1>37. CASE CleanupAfterShutdown
  BY <1>37 DEF CleanupAfterShutdown
<1>38. CASE RunEnds("TR")
  BY <1>38 DEF RunEnds, SignalIsRunning
<1>39. CASE RunBegins("SS")
  BY <1>39 DEF RunBegins, SignalIsRunning
<1>40. CASE SendAll
  BY <1>40 DEF SendAll
<1>41. CASE CheckSend
  BY <1>41 DEF CheckSend
<1>42. CASE RunEnds("SS")
  BY <1>42 DEF RunEnds, SignalIsRunning
<1>43. CASE RunBegins("SR")
  BY <1>43 DEF RunBegins, SignalIsRunning
<1>44. CASE RecvMessage
  BY <1>44 DEF RecvMessage
<1>45. CASE RecvEnds
  BY <1>45 DEF RecvEnds
<1>46. CASE ReceiveTail
  BY <1>46 DEF ReceiveTail
<1>47. CASE TellSend
  BY <1>47 DEF TellSend, StopThread
<1>48. CASE SendStopped
  BY <1>48 DEF SendStopped
<1>49. CASE RunEnds("SR")
  BY <1>49 DEF RunEnds, SignalIsRunning
<1>50. CASE NewKeys
  BY <1>50 DEF NewKeys
<1>51. CASE ServerAnswers
  BY <1>51 DEF ServerAnswers, Reply
<1>52. CASE ServerDisconnects
  BY <1>52 DEF ServerDisconnects
<1>53. CASE Reset
  BY <1>53 DEF Reset
<1> QED BY <1>1, <1>2, <1>3, <1>4, <1>5, <1>6, <1>7, <1>8, <1>9, <1>10, <1>11, <1>12, <1>13,
       <1>14, <1>15, <1>16, <1>17, <1>18, <1>19, <1>20, <1>21, <1>22, <1>23, <1>24, <1>25,
       <1>26, <1>27, <1>28, <1>29, <1>30, <1>31, <1>32, <1>33, <1>34, <1>35, <1>36, <1>37,
       <1>38, <1>39, <1>40, <1>41, <1>42, <1>43, <1>44, <1>45, <1>46, <1>47, <1>48, <1>49,
       <1>50, <1>51, <1>52, <1>53 DEF Next, User, Continue, Transport, Send, Receive, Server

LEMMA QueueStep ==
    ASSUME CallTypes, QueueTypes, Next PROVE QueueTypes'
<1> USE DEF QueueTypes, transportVars, socketVars, serverVars
<1>1. CASE ConnectUp
  BY <1>1 DEF ConnectUp, StopThread
<1>2. CASE StartTransport
  BY <1>2 DEF StartTransport, CreateThread
<1>3. CASE LookTransport
  BY <1>3 DEF LookTransport, AwaitStart
<1>4. CASE TransportStarted
  BY <1>4 DEF TransportStarted
<1>5. CASE AuthByPassword
  BY <1>5 DEF AuthByPassword, Authenticate, Request, CallTypes, Asked, Requests
<1>6. CASE AuthByPublicKey
  BY <1>6 DEF AuthByPublicKey, Authenticate, Request, CallTypes, Asked, Requests
<1>7. CASE UnusableKey
  BY <1>7 DEF UnusableKey
<1>8. CASE GetAuthMethods
  BY <1>8 DEF GetAuthMethods, Authenticate, Request, CallTypes, Asked, Requests
<1>9. CASE IsAuthSupported
  <2>1. \/ outQ' = outQ
        \/ \E k \in Requests : outQ' = Append(outQ, [kind |-> k, id |-> lastId + 1])
    BY <1>9 DEF IsAuthSupported, GetAuthMethods, Authenticate, Request, Requests
  <2>2. UNCHANGED <<response, toServer, inboundQ, fromServer>>
    BY <1>9 DEF IsAuthSupported, GetAuthMethods, Authenticate
  <2>3. \A k \in Requests : Append(outQ, [kind |-> k, id |-> lastId + 1]) \in Seq(Asked)
    BY DEF Asked, CallTypes
  <2>4. outQ' \in Seq(Asked)
    BY <2>1, <2>3, Zenon
  <2> QED BY <2>2, <2>4
<1>10. CASE GlobalRequest
  BY <1>10 DEF GlobalRequest, Request, CallTypes, Asked, Requests
<1>11. CASE Disconnect
  <2>1. \/ outQ' = outQ
        \/ outQ' = Append(outQ, [kind |-> "disconnect", id |-> 0])
    BY <1>11 DEF Disconnect
  <2>2. UNCHANGED <<response, toServer, inboundQ, fromServer>>
    BY <1>11 DEF Disconnect
  <2>3. Append(outQ, [kind |-> "disconnect", id |-> 0]) \in Seq(Asked)
    BY DEF Asked
  <2>4. outQ' \in Seq(Asked)
    BY <2>1, <2>3, Zenon
  <2> QED BY <2>2, <2>4
<1>12. CASE Destroy
  <2>1. /\ (inboundQ' = inboundQ \/ inboundQ' = <<>>) /\ (outQ' = outQ \/ outQ' = <<>>)
        /\ UNCHANGED <<response, toServer, fromServer>>
    BY <1>12 DEF Destroy, DeleteTransport
  <2>2. inboundQ' \in Seq(Told) /\ outQ' \in Seq(Asked)
    BY <2>1, EmptySeq, Zenon
  <2> QED BY <2>1, <2>2
<1>13. CASE Wait
  BY <1>13 DEF Wait
<1>14. CASE Connected
  BY <1>14 DEF Connected, Return
<1>15. CASE ServiceAnswered
  <2>1. \/ outQ' = outQ
        \/ outQ' = Append(outQ, [kind |-> "auth", id |-> lastId + 1])
    BY <1>15 DEF ServiceAnswered, Request
  <2>2. UNCHANGED <<response, toServer, inboundQ, fromServer>>
    BY <1>15 DEF ServiceAnswered, Request
  <2>3. Append(outQ, [kind |-> "auth", id |-> lastId + 1]) \in Seq(Asked)
    BY DEF Asked, Requests, CallTypes
  <2>4. outQ' \in Seq(Asked)
    BY <2>1, <2>3, Zenon
  <2> QED BY <2>2, <2>4
<1>16. CASE AuthAnswered
  BY <1>16 DEF AuthAnswered, Return
<1>17. CASE GlobalAnswered
  BY <1>17 DEF GlobalAnswered, Return
<1>18. CASE StopTransport
  BY <1>18 DEF StopTransport, StopThread
<1>19. CASE Disconnected
  BY <1>19 DEF Disconnected, Return
<1>20. CASE Destroyed
  BY <1>20 DEF Destroyed, DeleteTransport, Delete
<1>21. CASE RunBegins("TR")
  BY <1>21 DEF RunBegins, SignalIsRunning
<1>22. CASE ConnectFails
  BY <1>22 DEF ConnectFails, Answer, CallTypes, Response, Answers, Holds, Blockers
<1>23. CASE ConnectToServer
  <2>1. /\ inboundQ' = <<>>
        /\ UNCHANGED <<response, outQ, toServer, fromServer>>
    BY <1>23 DEF ConnectToServer, NewSocket
  <2> QED BY <2>1
<1>24. CASE Look("SS", "lookSS", "createSR")
  BY <1>24 DEF Look, AwaitStart
<1>25. CASE StartReceive
  BY <1>25 DEF StartReceive
<1>26. CASE Look("SR", "lookSR", "poll")
  BY <1>26 DEF Look, AwaitStart
<1>27. CASE ProcessInbound
  <2> DEFINE m == Head(inboundQ)
  <2>1. inboundQ # <<>> /\ m \in Told /\ inboundQ' = Tail(inboundQ) /\ inboundQ' \in Seq(Told)
    BY <1>27 DEF ProcessInbound
  <2>2. \/ response' = [response EXCEPT !["connect"] = [answer |-> "success", id |-> connects]]
        \/ response' = response
        \/ m.kind \in Requests
           /\ response' = [response EXCEPT ![m.kind] = [answer |-> m.answer, id |-> m.id]]
    BY <1>27, <2>1 DEF ProcessInbound, Answer, handleDisconnect, handleServiceAccept, Told,
           Kinds, Requests
  <2>3. UNCHANGED <<outQ, toServer, fromServer>>
    BY <1>27 DEF ProcessInbound
  <2> HIDE DEF m
  <2>4. response' \in [Blockers -> Response]
    <3>1. [answer |-> "success", id |-> connects] \in Response
      BY DEF Response, Answers, CallTypes
    <3>2. [answer |-> m.answer, id |-> m.id] \in Response
      BY <2>1 DEF Told, Response
    <3>3. Requests \subseteq Blockers /\ "connect" \in Blockers
      BY DEF Requests, Blockers
    <3> QED BY <2>2, <3>1, <3>2, <3>3
  <2>5. \A b \in Blockers : response'[b].answer \in Holds(b)
    <3>1. m.answer \in Answers /\ "connect" \notin Requests
      BY <2>1 DEF Told, Requests
    <3> QED BY <2>2, <3>1 DEF Holds, Requests, Blockers
  <2> QED BY <2>1, <2>3, <2>4, <2>5
<1>28. CASE CheckStop
  BY <1>28 DEF CheckStop
<1>29. CASE IsAlive("SS", "aliveSS", "aliveSR")
  BY <1>29 DEF IsAlive
<1>30. CASE IsAlive("SR", "aliveSR", "closing")
  BY <1>30 DEF IsAlive
<1>31. CASE NotifyUser
  BY <1>31 DEF NotifyUser
<1>32. CASE Shutdown("SS", "stopSS", "deleteSS")
  BY <1>32 DEF Shutdown, StopThread
<1>33. CASE DeleteSend
  BY <1>33 DEF DeleteSend, Delete
<1>34. CASE Shutdown("SR", "stopSR", "deleteSR")
  BY <1>34 DEF Shutdown, StopThread
<1>35. CASE DeleteReceive
  BY <1>35 DEF DeleteReceive, Delete, CloseSocket
<1>36. CASE RunOut
  BY <1>36 DEF RunOut, WakeConnect
<1>37. CASE CleanupAfterShutdown
  BY <1>37 DEF CleanupAfterShutdown, Response, Answers, Holds, Blockers
<1>38. CASE RunEnds("TR")
  BY <1>38 DEF RunEnds, SignalIsRunning
<1>39. CASE RunBegins("SS")
  BY <1>39 DEF RunBegins, SignalIsRunning
<1>40. CASE SendAll
  <2>1. /\ outQ' = <<>> /\ (toServer' = toServer \/ toServer' = toServer \o outQ)
        /\ UNCHANGED <<response, inboundQ, fromServer>>
    BY <1>40 DEF SendAll
  <2>2. toServer \o outQ \in Seq(Asked)
    OBVIOUS
  <2>3. toServer' \in Seq(Asked) /\ outQ' \in Seq(Asked)
    BY <2>1, <2>2, EmptySeq, Zenon
  <2> QED BY <2>1, <2>3
<1>41. CASE CheckSend
  BY <1>41 DEF CheckSend
<1>42. CASE RunEnds("SS")
  BY <1>42 DEF RunEnds, SignalIsRunning
<1>43. CASE RunBegins("SR")
  BY <1>43 DEF RunBegins, SignalIsRunning
<1>44. CASE RecvMessage
  <2> DEFINE m == Head(fromServer)
  <2>1. /\ m \in Told /\ fromServer' = Tail(fromServer) /\ fromServer' \in Seq(Told)
        /\ inboundQ' = Append(inboundQ, m)
        /\ UNCHANGED <<response, outQ, toServer>>
    BY <1>44 DEF RecvMessage
  <2> HIDE DEF m
  <2> QED BY <2>1
<1>45. CASE RecvEnds
  BY <1>45 DEF RecvEnds
<1>46. CASE ReceiveTail
  BY <1>46 DEF ReceiveTail
<1>47. CASE TellSend
  BY <1>47 DEF TellSend, StopThread
<1>48. CASE SendStopped
  BY <1>48 DEF SendStopped
<1>49. CASE RunEnds("SR")
  BY <1>49 DEF RunEnds, SignalIsRunning
<1>50. CASE NewKeys
  BY <1>50 DEF NewKeys, Told, Kinds, Answers
<1>51. CASE ServerAnswers
  <2> DEFINE m == Head(toServer)
  <2>1. m \in Asked /\ Tail(toServer) \in Seq(Asked)
    BY <1>51 DEF ServerAnswers
  <2>2. UNCHANGED <<response, inboundQ, outQ>>
    BY <1>51 DEF ServerAnswers
  <2>3. toServer' = toServer \/ toServer' = Tail(toServer) \/ toServer' = <<>>
    BY <1>51 DEF ServerAnswers
  <2>4. \/ fromServer' = fromServer
        \/ \E k \in Requests, a \in Answers :
              fromServer' = Append(fromServer, [kind |-> k, answer |-> a, id |-> m.id])
    BY <1>51, <2>1 DEF ServerAnswers, Asked, Requests, Reply, Answers
  <2> HIDE DEF m
  <2>5. toServer' \in Seq(Asked)
    BY <2>1, <2>3, EmptySeq, Zenon
  <2>6. ASSUME NEW k \in Requests, NEW a \in Answers
        PROVE  Append(fromServer, [kind |-> k, answer |-> a, id |-> m.id]) \in Seq(Told)
    BY <2>1 DEF Asked, Told, Kinds, Requests
  <2>7. fromServer' \in Seq(Told)
    BY <2>4, <2>6, Zenon
  <2> QED BY <2>2, <2>5, <2>7
<1>52. CASE ServerDisconnects
  BY <1>52 DEF ServerDisconnects, Told, Kinds, Answers
<1>53. CASE Reset
  BY <1>53 DEF Reset
<1> QED BY <1>1, <1>2, <1>3, <1>4, <1>5, <1>6, <1>7, <1>8, <1>9, <1>10, <1>11, <1>12, <1>13,
       <1>14, <1>15, <1>16, <1>17, <1>18, <1>19, <1>20, <1>21, <1>22, <1>23, <1>24, <1>25,
       <1>26, <1>27, <1>28, <1>29, <1>30, <1>31, <1>32, <1>33, <1>34, <1>35, <1>36, <1>37,
       <1>38, <1>39, <1>40, <1>41, <1>42, <1>43, <1>44, <1>45, <1>46, <1>47, <1>48, <1>49,
       <1>50, <1>51, <1>52, <1>53 DEF Next, User, Continue, Transport, Send, Receive, Server

LEMMA TypesSame == Types /\ UNCHANGED vars => Types'
  BY DEF Types, ObjectTypes, CallTypes, FlagTypes, QueueTypes, vars, threadVars, userVars,
     quietVars, callVars, fieldVars, transportVars, socketVars, serverVars

LEMMA TypesGood == Types => TypeOK
<1> SUFFICES ASSUME Types PROVE TypeOK
  OBVIOUS
<1>1. /\ inboundQ \o fromServer \in Seq(Told)
      /\ outQ \o toServer \in Seq(Asked)
  BY DEF Types, QueueTypes
<1>2. \A S, q : q \in Seq(S) => ToSet(q) \subseteq S
  BY DEF ToSet
<1>3. \A m \in ToSet(inboundQ \o fromServer) : m.kind \in Kinds /\ m.answer \in Answers
  <2>1. ToSet(inboundQ \o fromServer) \subseteq Told
    BY <1>1, <1>2
  <2> QED BY <2>1 DEF Told
<1>4. \A m \in ToSet(outQ \o toServer) : m.kind \in Kinds
  <2>1. ToSet(outQ \o toServer) \subseteq Asked
    BY <1>1, <1>2
  <2> QED BY <2>1 DEF Asked, Kinds, Requests
<1> QED BY <1>3, <1>4 DEF Types, ObjectTypes, CallTypes, FlagTypes, QueueTypes, TypeOK

-----------------------------------------------------------------------------
(* What a call waits for.  One request at a time is under way, from the queue of  *)
(* SocketSend to the handler of Transport, and it is the one that is waited for.  *)

At(q) == {i \in DOMAIN q : q[i].kind \in Requests}
None(q) == At(q) = {}
\* Among the messages of q one is about a request, and it is request n, of kind k.
Only(q, k, n) == \A i, j \in At(q) : i = j /\ q[i].kind = k /\ q[i].id = n
Apart(p, q) == None(p) \/ None(q)

\* Nobody waits for an answer: nothing is under way.
Ours(q) == Only(q, phase, callId) /\ (userPc \notin {"ask", "wait"} => None(q))
OneRequest ==
    /\ Ours(outQ) /\ Ours(toServer) /\ Ours(fromServer) /\ Ours(inboundQ)
    /\ Apart(outQ, toServer) /\ Apart(outQ, fromServer) /\ Apart(outQ, inboundQ)
    /\ Apart(toServer, fromServer) /\ Apart(toServer, inboundQ)
    /\ Apart(fromServer, inboundQ)
OwnResponse == userPc = "woken" /\ phase \in Requests => response[phase].id = callId
AskInv ==
    /\ phase = "connect" => api \in {"connect", "none"}
    /\ "banner" \notin mishaps => OneRequest /\ OwnResponse /\ AnswersMatch

LEMMA NothingAsked == None(<<>>)
  BY DEF None, At

LEMMA NoneOnly == \A q, k, n : None(q) => Only(q, k, n)
  BY DEF None, Only

LEMMA AskAppended ==
    ASSUME NEW S, NEW q \in Seq(S), NEW x, None(q)
    PROVE  /\ Only(Append(q, x), x.kind, x.id)
           /\ x.kind \notin Requests => None(Append(q, x))
  BY DEF None, Only, At

LEMMA OthersAppended ==
    ASSUME NEW S, NEW q \in Seq(S), NEW x, x.kind \notin Requests
    PROVE  /\ None(q) => None(Append(q, x))
           /\ \A k, n : Only(q, k, n) => Only(Append(q, x), k, n)
  BY DEF None, Only, At

LEMMA AskTaken ==
    ASSUME NEW S, NEW q \in Seq(S), q # <<>>, NEW k, NEW n, Only(q, k, n)
    PROVE  /\ Only(Tail(q), k, n)
           /\ None(q) => None(Tail(q)) /\ Head(q).kind \notin Requests
           /\ Head(q).kind \in Requests =>
                Head(q).kind = k /\ Head(q).id = n /\ None(Tail(q))
  BY DEF None, Only, At

LEMMA AskJoined ==
    ASSUME NEW S, NEW p \in Seq(S), NEW q \in Seq(S), NEW k, NEW n,
           Only(p, k, n), Only(q, k, n), Apart(p, q)
    PROVE  /\ Only(p \o q, k, n)
           /\ None(p) /\ None(q) => None(p \o q)
  BY DEF None, Only, At, Apart

LEMMA InitAsk == Init => AskInv
  BY NothingAsked, NoneOnly DEF Init, FieldsInit, TransportInit, PTsshInit, AskInv, OneRequest,
     OwnResponse, Ours, Apart, AnswersMatch, NothingReturned, AuthApis

\* What is under way before a step that is not taken while an answer is awaited.
Silent == None(outQ) /\ None(toServer) /\ None(fromServer) /\ None(inboundQ)

LEMMA AskNothing == AskInv /\ "banner" \notin mishaps /\ userPc \notin {"ask", "wait"} => Silent
  BY DEF AskInv, OneRequest, Ours, Silent

LEMMA AskOne ==
    ASSUME CallTypes, QueueTypes, AskInv, userPc \notin {"ask", "wait"},
           NEW k \in Requests, Request(k),
           UNCHANGED <<toServer, fromServer, inboundQ, mishaps>>,
           "banner" \notin mishaps
    PROVE  OneRequest' /\ OwnResponse' /\ phase' # "connect"
<1>1. Silent
  BY AskNothing
<1>2. /\ outQ' = Append(outQ, [kind |-> k, id |-> lastId + 1])
      /\ userPc' = "ask" /\ phase' = k /\ callId' = lastId + 1
  BY DEF Request
<1>3. Only(outQ', phase', callId')
  BY <1>1, <1>2, AskAppended DEF Silent, QueueTypes
<1>4. None(toServer') /\ None(fromServer') /\ None(inboundQ')
  BY <1>1, NothingAsked, NoneOnly DEF Silent
<1> HIDE DEF Silent
<1>5. OneRequest' /\ OwnResponse'
  BY <1>2, <1>3, <1>4, NoneOnly DEF OneRequest, OwnResponse, Ours, Apart
<1> QED BY <1>2, <1>5 DEF Requests

LEMMA NotAsked == \A q, k, n : Only(q, k, n) /\ k \notin Requests => None(q)
  BY DEF None, Only, At

\* A thread is woken that does not wait for an answer to a request.
LEMMA AskOthers ==
    ASSUME AskInv, userPc' = userPc \/ (userPc' = "woken" /\ phase \notin Requests),
           \A k \in Requests : response'[k] = response[k],
           "banner" \notin mishaps' => "banner" \notin mishaps,
           None(inboundQ) => None(inboundQ'),
           \A k, n : Only(inboundQ, k, n) => Only(inboundQ', k, n),
           UNCHANGED <<api, phase, callId, returned, outQ, toServer, fromServer>>
    PROVE  AskInv'
<1>1. ASSUME "banner" \notin mishaps PROVE OneRequest' /\ OwnResponse' /\ AnswersMatch'
  <2>1. OneRequest /\ OwnResponse /\ AnswersMatch
    BY <1>1 DEF AskInv
  <2>2. userPc' # userPc => Silent
    BY <2>1, NotAsked DEF OneRequest, Ours, Silent
  <2>3. OneRequest'
    BY <2>1, <2>2 DEF OneRequest, Ours, Apart, Silent
  <2> QED BY <2>1, <2>3 DEF OwnResponse, AnswersMatch
<1> QED BY <1>1 DEF AskInv

\* The answer to the request that is under way arrives.
LEMMA AskHeard ==
    ASSUME QueueTypes, AskInv, inboundQ # <<>>, Head(inboundQ).kind \in Requests,
           Answer(Head(inboundQ).kind, Head(inboundQ).answer, Head(inboundQ).id),
           inboundQ' = Tail(inboundQ),
           UNCHANGED <<api, phase, callId, returned, outQ, toServer, fromServer>>
    PROVE  AskInv'
<1> DEFINE m == Head(inboundQ)
<1>1. /\ response' = [response EXCEPT ![m.kind] = [answer |-> m.answer, id |-> m.id]]
      /\ userPc' = userPc \/ userPc' = "woken"
      /\ "banner" \notin mishaps' => "banner" \notin mishaps
  BY DEF Answer
<1>2. ASSUME "banner" \notin mishaps PROVE OneRequest' /\ OwnResponse' /\ AnswersMatch'
  <2>1. OneRequest /\ OwnResponse /\ AnswersMatch
    BY <1>2 DEF AskInv
  <2>2. /\ phase = m.kind /\ callId = m.id /\ None(inboundQ')
        /\ ~None(inboundQ) /\ (None(inboundQ) => None(inboundQ'))
    BY <2>1, AskTaken DEF OneRequest, Ours, QueueTypes
  <2>3. None(outQ) /\ None(toServer) /\ None(fromServer)
    BY <2>1, <2>2 DEF OneRequest, Apart
  <2>4. OneRequest'
    BY <2>2, <2>3, NoneOnly DEF OneRequest, Ours, Apart
  <2>5. response'[phase].id = callId
    BY <1>1, <2>2 DEF QueueTypes, Requests, Blockers
  <2>6. OwnResponse'
    BY <2>5 DEF OwnResponse
  <2>7. AnswersMatch'
    BY <1>2, <2>1 DEF AnswersMatch
  <2> QED BY <2>4, <2>6, <2>7
<1> QED BY <1>1, <1>2 DEF AskInv

\* A call that is over returns the answer to its own request, and waits for nothing.
LEMMA AskAnswered ==
    ASSUME AskInv, userPc = "woken", phase \in Requests, NEW r, Return(r, response[phase]),
           UNCHANGED <<outQ, toServer, fromServer, inboundQ, response, mishaps>>
    PROVE  AskInv'
<1>1. /\ userPc' = "idle" /\ api' = "none" /\ phase' = "connect"
      /\ returned'.got = response[phase] /\ returned'.id = callId
  BY DEF Return
<1>2. ASSUME "banner" \notin mishaps PROVE OneRequest' /\ OwnResponse' /\ AnswersMatch'
  <2>1. Silent /\ response[phase].id = callId
    BY <1>2, AskNothing DEF AskInv, OwnResponse
  <2> QED BY <1>1, <2>1, NoneOnly DEF Silent, OneRequest, OwnResponse, Ours, Apart, AnswersMatch
<1> QED BY <1>1, <1>2 DEF AskInv

LEMMA AskStep ==
    ASSUME CallTypes, QueueTypes, AskInv, Next PROVE AskInv'
<1> USE DEF AskInv, OneRequest, OwnResponse, Ours, Apart, AnswersMatch, AuthApis,
            userVars, quietVars, callVars, transportVars, socketVars, serverVars
<1>1. CASE ConnectUp
  BY <1>1, NoneOnly DEF ConnectUp, NothingReturned
<1>2. CASE StartTransport
  BY <1>2, NothingAsked, NoneOnly DEF StartTransport
<1>3. CASE LookTransport
  BY <1>3, NothingAsked, NoneOnly DEF LookTransport
<1>4. CASE TransportStarted
  BY <1>4, NothingAsked, NoneOnly DEF TransportStarted
<1>5. CASE AuthByPassword
  <2>1. /\ userPc = "idle" /\ returned' = NothingReturned
        /\ UNCHANGED <<toServer, fromServer, inboundQ, mishaps>>
    BY <1>5 DEF AuthByPassword, Authenticate
  <2>2. PICK k \in Requests : Request(k)
    BY <1>5 DEF AuthByPassword, Authenticate, Requests
  <2> QED BY <2>1, <2>2, AskOne DEF NothingReturned, Request, Requests
<1>6. CASE AuthByPublicKey
  <2>1. /\ userPc = "idle" /\ returned' = NothingReturned
        /\ UNCHANGED <<toServer, fromServer, inboundQ, mishaps>>
    BY <1>6 DEF AuthByPublicKey, Authenticate
  <2>2. PICK k \in Requests : Request(k)
    BY <1>6 DEF AuthByPublicKey, Authenticate, Requests
  <2> QED BY <2>1, <2>2, AskOne DEF NothingReturned, Request, Requests
<1>7. CASE UnusableKey
  BY <1>7, NothingAsked, NoneOnly DEF UnusableKey, NoResponse
<1>8. CASE GetAuthMethods
  <2>1. /\ userPc = "idle" /\ returned' = NothingReturned
        /\ UNCHANGED <<toServer, fromServer, inboundQ, mishaps>>
    BY <1>8 DEF GetAuthMethods, Authenticate
  <2>2. PICK k \in Requests : Request(k)
    BY <1>8 DEF GetAuthMethods, Authenticate, Requests
  <2> QED BY <2>1, <2>2, AskOne DEF NothingReturned, Request, Requests
<1>9. CASE IsAuthSupported
  <2>1. CASE GetAuthMethods
    <3>1. /\ userPc = "idle" /\ returned' = NothingReturned
          /\ UNCHANGED <<toServer, fromServer, inboundQ, mishaps>>
      BY <2>1 DEF GetAuthMethods, Authenticate
    <3>2. PICK k \in Requests : Request(k)
      BY <2>1 DEF GetAuthMethods, Authenticate, Requests
    <3> QED BY <3>1, <3>2, AskOne DEF NothingReturned, Request, Requests
  <2>2. CASE ~GetAuthMethods
    BY <1>9, <2>2 DEF IsAuthSupported, NoResponse
  <2> QED BY <2>1, <2>2
<1>10. CASE GlobalRequest
  <2>1. /\ userPc = "idle" /\ returned' = NothingReturned
        /\ UNCHANGED <<toServer, fromServer, inboundQ, mishaps>>
    BY <1>10 DEF GlobalRequest
  <2>2. PICK k \in Requests : Request(k)
    BY <1>10 DEF GlobalRequest, Requests
  <2> QED BY <2>1, <2>2, AskOne DEF NothingReturned, Request, Requests
<1>11. CASE Disconnect
  <2>1. /\ userPc = "idle" /\ userPc' \in {"stop", "stopping"} /\ phase' = "disconnect"
        /\ returned' = NothingReturned
        /\ UNCHANGED <<callId, toServer, fromServer, inboundQ, response, mishaps>>
    BY <1>11 DEF Disconnect
  <2>2. None(outQ) => None(outQ')
    BY <1>11, OthersAppended DEF Disconnect, QueueTypes, Requests
  <2> QED BY <2>1, <2>2, NoneOnly DEF NothingReturned, Requests
<1>12. CASE Destroy
  BY <1>12, NothingAsked, NoneOnly DEF Destroy, DeleteTransport, Delete
<1>13. CASE Wait
  BY <1>13, NothingAsked, NoneOnly DEF Wait
<1>14. CASE Connected
  BY <1>14, NothingAsked, NoneOnly DEF Connected, Return
<1>15. CASE ServiceAnswered
  <2>1. CASE \E r : Return(r, response["service"])
    <3>1. /\ userPc = "woken" /\ phase = "service"
          /\ UNCHANGED <<toServer, fromServer, inboundQ, response, mishaps>>
      BY <1>15 DEF ServiceAnswered
    <3>2. userPc' = "idle"
      BY <2>1 DEF Return
    <3>3. outQ' = outQ
      BY <1>15, <3>2 DEF ServiceAnswered, Request
    <3> QED BY <2>1, <3>1, <3>3, AskAnswered DEF Requests
  <2>2. CASE Request("auth") /\ UNCHANGED <<api, returned>>
    <3>1. userPc = "woken" /\ UNCHANGED <<toServer, fromServer, inboundQ, response, mishaps>>
      BY <1>15 DEF ServiceAnswered
    <3> QED BY <2>2, <3>1, AskOne DEF Request, Requests
  <2> QED BY <1>15, <2>1, <2>2 DEF ServiceAnswered
<1>16. CASE AuthAnswered
  <2>1. /\ userPc = "woken" /\ phase = "auth"
        /\ UNCHANGED <<outQ, toServer, fromServer, inboundQ, response, mishaps>>
    BY <1>16 DEF AuthAnswered
  <2>2. \E r : Return(r, response[phase])
    BY <1>16, Zenon DEF AuthAnswered
  <2> QED BY <2>1, <2>2, AskAnswered DEF Requests
<1>17. CASE GlobalAnswered
  <2>1. /\ userPc = "woken" /\ phase = "global"
        /\ UNCHANGED <<outQ, toServer, fromServer, inboundQ, response, mishaps>>
    BY <1>17 DEF GlobalAnswered
  <2>2. \E r : Return(r, response[phase])
    BY <1>17, Zenon DEF GlobalAnswered
  <2> QED BY <2>1, <2>2, AskAnswered DEF Requests
<1>18. CASE StopTransport
  BY <1>18, NothingAsked, NoneOnly DEF StopTransport
<1>19. CASE Disconnected
  BY <1>19, NothingAsked, NoneOnly DEF Disconnected, Return
<1>20. CASE Destroyed
  BY <1>20, NothingAsked, NoneOnly DEF Destroyed, DeleteTransport, Delete
<1>21. CASE RunBegins("TR")
  BY <1>21, NothingAsked, NoneOnly DEF RunBegins
<1>22. CASE ConnectFails
  BY <1>22, AskOthers DEF ConnectFails, Answer, QueueTypes, Requests, Blockers
<1>23. CASE ConnectToServer
  BY <1>23, NothingAsked, NoneOnly DEF ConnectToServer, NewSocket
<1>24. CASE Look("SS", "lookSS", "createSR")
  BY <1>24, NothingAsked, NoneOnly DEF Look
<1>25. CASE StartReceive
  BY <1>25, NothingAsked, NoneOnly DEF StartReceive
<1>26. CASE Look("SR", "lookSR", "poll")
  BY <1>26, NothingAsked, NoneOnly DEF Look
<1>27. CASE ProcessInbound
  <2>1. /\ inboundQ # <<>> /\ inboundQ' = Tail(inboundQ)
        /\ UNCHANGED <<api, phase, callId, returned, outQ, toServer, fromServer>>
    BY <1>27 DEF ProcessInbound
  <2>4. Head(inboundQ) \in Told
    BY <2>1 DEF QueueTypes
  <2>5. Head(inboundQ).kind \in Kinds
    BY <2>4 DEF Told
  <2>2. CASE Head(inboundQ).kind \in Requests
    <3>1. Answer(Head(inboundQ).kind, Head(inboundQ).answer, Head(inboundQ).id)
      BY <1>27, <2>1, <2>2 DEF ProcessInbound, handleServiceAccept, Requests
    <3> QED BY <2>1, <2>2, <3>1, AskHeard
  <2>3. CASE Head(inboundQ).kind \notin Requests
    <3>1. /\ userPc' = userPc \/ (userPc' = "woken" /\ phase = "connect")
          /\ \A k \in Requests : response'[k] = response[k]
          /\ "banner" \notin mishaps' => "banner" \notin mishaps
      BY <1>27, <2>1, <2>3, <2>5 DEF ProcessInbound, Answer, handleDisconnect, WakeConnect,
             QueueTypes,
             Requests, Blockers, Kinds
    <3>2. \A k, n : Only(inboundQ, k, n) => Only(inboundQ', k, n)
      BY <2>1, AskTaken DEF QueueTypes
    <3>3. None(inboundQ) => None(inboundQ')
      BY <2>1, NoneOnly, AskTaken DEF QueueTypes
    <3> QED BY <2>1, <3>1, <3>2, <3>3, AskOthers DEF Requests
  <2> QED BY <2>2, <2>3
<1>28. CASE CheckStop
  BY <1>28, NothingAsked, NoneOnly DEF CheckStop
<1>29. CASE IsAlive("SS", "aliveSS", "aliveSR")
  BY <1>29, NothingAsked, NoneOnly DEF IsAlive
<1>30. CASE IsAlive("SR", "aliveSR", "closing")
  BY <1>30, NothingAsked, NoneOnly DEF IsAlive
<1>31. CASE NotifyUser
  BY <1>31, NothingAsked, NoneOnly DEF NotifyUser
<1>32. CASE Shutdown("SS", "stopSS", "deleteSS")
  BY <1>32, NothingAsked, NoneOnly DEF Shutdown
<1>33. CASE DeleteSend
  BY <1>33, NothingAsked, NoneOnly DEF DeleteSend, Delete
<1>34. CASE Shutdown("SR", "stopSR", "deleteSR")
  BY <1>34, NothingAsked, NoneOnly DEF Shutdown
<1>35. CASE DeleteReceive
  BY <1>35, NothingAsked, NoneOnly DEF DeleteReceive, Delete, CloseSocket
<1>36. CASE RunOut
  BY <1>36, AskOthers DEF RunOut, WakeConnect, Requests
<1>37. CASE CleanupAfterShutdown
  BY <1>37, NothingAsked, NoneOnly DEF CleanupAfterShutdown, Requests, QueueTypes
<1>38. CASE RunEnds("TR")
  BY <1>38, NothingAsked, NoneOnly DEF RunEnds
<1>39. CASE RunBegins("SS")
  BY <1>39, NothingAsked, NoneOnly DEF RunBegins
<1>40. CASE SendAll
  <2>1. /\ outQ' = <<>> /\ (toServer' = toServer \/ toServer' = toServer \o outQ)
        /\ UNCHANGED <<api, phase, callId, userPc, returned, response, mishaps, fromServer,
                       inboundQ>>
    BY <1>40 DEF SendAll
  <2>2. Ours(toServer) /\ Ours(outQ) /\ Apart(outQ, toServer) =>
          Only(toServer', phase, callId) /\ (None(outQ) /\ None(toServer) => None(toServer'))
    BY <2>1, AskJoined DEF QueueTypes
  <2> QED BY <2>1, <2>2, NothingAsked, NoneOnly
<1>41. CASE CheckSend
  BY <1>41, NothingAsked, NoneOnly DEF CheckSend
<1>42. CASE RunEnds("SS")
  BY <1>42, NothingAsked, NoneOnly DEF RunEnds
<1>43. CASE RunBegins("SR")
  BY <1>43, NothingAsked, NoneOnly DEF RunBegins
<1>44. CASE RecvMessage
  <2> DEFINE m == Head(fromServer)
  <2>1. /\ fromServer # <<>> /\ fromServer' = Tail(fromServer)
        /\ inboundQ' = Append(inboundQ, m)
        /\ UNCHANGED <<api, phase, callId, userPc, returned, response, mishaps, outQ, toServer>>
    BY <1>44 DEF RecvMessage
  <2>2. Ours(fromServer) =>
          /\ Only(fromServer', phase, callId)
          /\ None(fromServer) => None(fromServer') /\ m.kind \notin Requests
          /\ m.kind \in Requests => m.kind = phase /\ m.id = callId /\ None(fromServer')
    BY <2>1, AskTaken DEF QueueTypes
  <2>3. None(inboundQ) => Only(inboundQ', m.kind, m.id)
    BY <2>1, AskAppended DEF QueueTypes
  <2>4. m.kind \notin Requests =>
          /\ None(inboundQ) => None(inboundQ')
          /\ \A k, n : Only(inboundQ, k, n) => Only(inboundQ', k, n)
    BY <2>1, OthersAppended DEF QueueTypes
  <2> HIDE DEF m
  <2> QED BY <2>1, <2>2, <2>3, <2>4
<1>45. CASE RecvEnds
  BY <1>45, NothingAsked, NoneOnly DEF RecvEnds
<1>46. CASE ReceiveTail
  BY <1>46, NothingAsked, NoneOnly DEF ReceiveTail
<1>47. CASE TellSend
  BY <1>47, NothingAsked, NoneOnly DEF TellSend
<1>48. CASE SendStopped
  BY <1>48, NothingAsked, NoneOnly DEF SendStopped
<1>49. CASE RunEnds("SR")
  BY <1>49, NothingAsked, NoneOnly DEF RunEnds
<1>50. CASE NewKeys
  <2>1. /\ None(fromServer) => None(fromServer')
        /\ \A k, n : Only(fromServer, k, n) => Only(fromServer', k, n)
    BY <1>50, OthersAppended DEF NewKeys, QueueTypes, Requests
  <2> QED BY <1>50, <2>1 DEF NewKeys
<1>51. CASE ServerAnswers
  <2> DEFINE m == Head(toServer)
  <2>1. /\ toServer # <<>> /\ m \in Asked
        /\ UNCHANGED <<api, phase, callId, userPc, returned, response, outQ, inboundQ>>
    BY <1>51 DEF ServerAnswers, QueueTypes
  <2>2. CASE m.kind = "disconnect"
    <3>1. toServer' = <<>> /\ fromServer' = fromServer /\ mishaps' = mishaps
      BY <1>51, <2>2 DEF ServerAnswers
    <3> QED BY <2>1, <3>1, NothingAsked, NoneOnly
  <2>3. CASE "banner" \in mishaps'
    BY <2>1, <2>3
  <2>4. CASE m.kind # "disconnect" /\ "banner" \notin mishaps'
    <3>1. PICK a : /\ toServer' = Tail(toServer) /\ mishaps' = mishaps
                   /\ fromServer' =
                        Append(fromServer, [kind |-> m.kind, answer |-> a, id |-> m.id])
      BY <1>51, <2>4 DEF ServerAnswers
    <3>2. m.kind \in Requests
      BY <2>1, <2>4 DEF Asked
    <3>3. OneRequest => m.kind = phase /\ m.id = callId /\ None(toServer') /\ ~None(toServer)
      BY <2>1, <3>1, <3>2, AskTaken DEF QueueTypes
    <3>4. None(fromServer) => Only(fromServer', m.kind, m.id)
      BY <3>1, AskAppended DEF QueueTypes
    <3> HIDE DEF m
    <3> QED BY <2>1, <3>1, <3>3, <3>4, NoneOnly
  <2> QED BY <2>2, <2>3, <2>4
<1>52. CASE ServerDisconnects
  <2>1. /\ None(fromServer) => None(fromServer')
        /\ \A k, n : Only(fromServer, k, n) => Only(fromServer', k, n)
    BY <1>52, OthersAppended DEF ServerDisconnects, QueueTypes, Requests
  <2> QED BY <1>52, <2>1, NothingAsked, NoneOnly DEF ServerDisconnects
<1>53. CASE Reset
  BY <1>53, NothingAsked, NoneOnly DEF Reset
<1> QED BY <1>1, <1>2, <1>3, <1>4, <1>5, <1>6, <1>7, <1>8, <1>9, <1>10, <1>11, <1>12, <1>13,
       <1>14, <1>15, <1>16, <1>17, <1>18, <1>19, <1>20, <1>21, <1>22, <1>23, <1>24, <1>25,
       <1>26, <1>27, <1>28, <1>29, <1>30, <1>31, <1>32, <1>33, <1>34, <1>35, <1>36, <1>37,
       <1>38, <1>39, <1>40, <1>41, <1>42, <1>43, <1>44, <1>45, <1>46, <1>47, <1>48, <1>49,
       <1>50, <1>51, <1>52, <1>53 DEF Next, User, Continue, Transport, Send, Receive, Server

-----------------------------------------------------------------------------
(* Why the program is told that the connection broke: something said goodbye, or went     *)
(* wrong, before SocketRecieve ended and Transport with it.                               *)

Said == disconnectSent \/ "fault" \in mishaps
Goodbye == Said \/ disconnectRecieved

\* Transport has no socket.
Unconnected == {"none", "created", "run", "last", "cleanup", "exit", "ended"}
SocketMade ==
    /\ pc["TR"] \in Unconnected => sock = "none" /\ toServer = <<>>
    /\ pc["TR"] \in {"lookSR", "poll", "aliveSS", "aliveSR"} => pc["SR"] # "none"
NoBye(q) == \A i \in DOMAIN q : q[i].kind # "disconnect"
GoodbyeSaid ==
    /\ disconnectSent \/ NoBye(toServer)
    /\ sock \in {"closing", "dead"} => Said
    /\ pc["SR"] \in {"tail", "tellSS", "waitSS", "stuck", "exit", "ended"} => Goodbye
    /\ pc["TR"] = "closing" => stop["TR"] \/ Goodbye
CauseInv == SocketMade /\ GoodbyeSaid /\ NotifiedForCause

LEMMA NothingSaid == NoBye(<<>>)
  BY DEF NoBye

LEMMA ByeMoved ==
    ASSUME NEW S, NEW p \in Seq(S), NEW q \in Seq(S)
    PROVE  /\ NoBye(p) /\ NoBye(q) => NoBye(p \o q)
           /\ (\A m \in ToSet(q) : m.kind # "disconnect") => NoBye(q)
           /\ p # <<>> /\ NoBye(p) => NoBye(Tail(p)) /\ Head(p).kind # "disconnect"
  BY DEF NoBye, ToSet

LEMMA InitCause == Init => CauseInv
  BY NothingSaid DEF Init, ThreadInit, TransportInit, CauseInv, SocketMade, GoodbyeSaid,
     NotifiedForCause, Threads

LEMMA CauseStep ==
    ASSUME ThreadInv, ObjectTypes, QueueTypes, FlagTypes, CauseInv, Next PROVE CauseInv'
<1> USE DEF CauseInv, SocketMade, GoodbyeSaid, NotifiedForCause, Said, Goodbye, Unconnected,
            threadVars, userVars, quietVars, callVars, transportVars, socketVars, serverVars,
            ObjectTypes, Threads,
            ThreadInv, ThreadTypes
<1>1. CASE ConnectUp
  BY <1>1 DEF ConnectUp, StopThread
<1>2. CASE StartTransport
  <2>1. /\ Over("TR") /\ pc'["TR"] = "created" /\ pc'["SR"] = pc["SR"]
        /\ stop'["TR"] = stop["TR"]
        /\ UNCHANGED <<sock, toServer, mishaps, disconnectSent, disconnectRecieved, notified>>
    BY <1>2 DEF StartTransport, CreateThread, Goto, StoppedInOrder
  <2> QED BY <2>1 DEF Over
<1>3. CASE LookTransport
  BY <1>3 DEF LookTransport, AwaitStart
<1>4. CASE TransportStarted
  BY <1>4 DEF TransportStarted
<1>5. CASE AuthByPassword
  BY <1>5 DEF AuthByPassword, Authenticate, Request
<1>6. CASE AuthByPublicKey
  BY <1>6 DEF AuthByPublicKey, Authenticate, Request
<1>7. CASE UnusableKey
  BY <1>7 DEF UnusableKey
<1>8. CASE GetAuthMethods
  BY <1>8 DEF GetAuthMethods, Authenticate, Request
<1>9. CASE IsAuthSupported
  BY <1>9 DEF IsAuthSupported, GetAuthMethods, Authenticate, Request
<1>10. CASE GlobalRequest
  BY <1>10 DEF GlobalRequest, Request
<1>11. CASE Disconnect
  BY <1>11 DEF Disconnect
<1>12. CASE Destroy
  BY <1>12 DEF Destroy, StopThread, DeleteTransport, Delete
<1>13. CASE Wait
  BY <1>13 DEF Wait
<1>14. CASE Connected
  BY <1>14 DEF Connected
<1>15. CASE ServiceAnswered
  BY <1>15 DEF ServiceAnswered, Request
<1>16. CASE AuthAnswered
  BY <1>16 DEF AuthAnswered
<1>17. CASE GlobalAnswered
  BY <1>17 DEF GlobalAnswered
<1>18. CASE StopTransport
  BY <1>18 DEF StopTransport, StopThread
<1>19. CASE Disconnected
  BY <1>19 DEF Disconnected
<1>20. CASE Destroyed
  BY <1>20 DEF Destroyed, DeleteTransport, Delete
<1>21. CASE RunBegins("TR")
  BY <1>21 DEF RunBegins, Goto
<1>22. CASE ConnectFails
  BY <1>22 DEF ConnectFails, Goto, Answer
<1>23. CASE ConnectToServer
  <2>1. /\ pc["TR"] = "run" /\ pc'["TR"] = "lookSS" /\ pc'["SR"] = "none"
        /\ stop'["TR"] = stop["TR"] /\ sock' = "open" /\ toServer' = toServer
        /\ UNCHANGED <<mishaps, notified>>
    BY <1>23 DEF ConnectToServer, NewSocket
  <2> QED BY <2>1, NothingSaid
<1>24. CASE Look("SS", "lookSS", "createSR")
  BY <1>24 DEF Look, AwaitStart, Goto
<1>25. CASE StartReceive
  BY <1>25 DEF StartReceive
<1>26. CASE Look("SR", "lookSR", "poll")
  BY <1>26 DEF Look, AwaitStart, Goto
<1>27. CASE ProcessInbound
  BY <1>27 DEF ProcessInbound, Answer, handleDisconnect, handleServiceAccept,
         WakeConnect
<1>28. CASE CheckStop
  BY <1>28 DEF CheckStop, Goto
<1>29. CASE IsAlive("SS", "aliveSS", "aliveSR")
  BY <1>29 DEF IsAlive, Goto
<1>30. CASE IsAlive("SR", "aliveSR", "closing")
  <2>1. /\ pc["TR"] = "aliveSR" /\ pc'["SR"] = pc["SR"]
        /\ \/ pc'["TR"] = "poll"
           \/ pc'["TR"] = "closing" /\ ~running["SR"]
        /\ UNCHANGED <<stop, sock, toServer, mishaps, disconnectSent, disconnectRecieved,
                       notified>>
    BY <1>30 DEF IsAlive, Goto
  <2>2. ~running["SR"] => pc["SR"] = "ended"
    BY <2>1 DEF RunningExact, StartedInOrder, Live
  <2> QED BY <2>1, <2>2
<1>31. CASE NotifyUser
  <2>1. /\ pc["TR"] = "closing" /\ pc'["TR"] = "stopSS" /\ pc'["SR"] = pc["SR"]
        /\ notified' = (notified \/ isDisconnected)
        /\ UNCHANGED <<stop, sock, toServer, mishaps, disconnectSent, disconnectRecieved>>
    BY <1>31 DEF NotifyUser, Goto
  <2> QED BY <2>1 DEF isDisconnected
<1>32. CASE Shutdown("SS", "stopSS", "deleteSS")
  BY <1>32 DEF Shutdown, StopThread, Goto
<1>33. CASE DeleteSend
  BY <1>33 DEF DeleteSend, Delete, Goto
<1>34. CASE Shutdown("SR", "stopSR", "deleteSR")
  BY <1>34 DEF Shutdown, StopThread, Goto
<1>35. CASE DeleteReceive
  BY <1>35, NothingSaid DEF DeleteReceive, Delete, Goto, CloseSocket
<1>36. CASE RunOut
  BY <1>36 DEF RunOut, WakeConnect, Goto
<1>37. CASE CleanupAfterShutdown
  BY <1>37 DEF CleanupAfterShutdown, Goto
<1>38. CASE RunEnds("TR")
  BY <1>38 DEF RunEnds, Goto
<1>39. CASE RunBegins("SS")
  BY <1>39 DEF RunBegins, Goto
<1>40. CASE SendAll
  <2>1. /\ pc["SS"] = "run" /\ pc'["TR"] = pc["TR"] /\ pc'["SR"] = pc["SR"]
        /\ UNCHANGED <<stop, sock, mishaps, disconnectRecieved, notified>>
    BY <1>40 DEF SendAll, Goto
  <2>5. disconnectSent => disconnectSent'
    BY <1>40 DEF SendAll
  <2>3. pc["TR"] \notin Unconnected
    BY <2>1 DEF StoppedInOrder, Over
  <2>4. disconnectSent' \/ NoBye(toServer')
    <3>1. CASE toServer' = toServer
      BY <2>5, <3>1
    <3>2. CASE toServer' # toServer
      <4>1. /\ toServer' = toServer \o outQ
            /\ disconnectSent' =
                 (disconnectSent \/ \E m \in ToSet(outQ) : m.kind = "disconnect")
        BY <1>40, <3>2 DEF SendAll
      <4> QED BY <4>1, ByeMoved DEF QueueTypes
    <3> QED BY <3>1, <3>2
  <2> QED BY <2>1, <2>3, <2>4, <2>5
<1>41. CASE CheckSend
  BY <1>41 DEF CheckSend, Goto
<1>42. CASE RunEnds("SS")
  BY <1>42 DEF RunEnds, Goto
<1>43. CASE RunBegins("SR")
  BY <1>43 DEF RunBegins, Goto
<1>44. CASE RecvMessage
  <2>1. /\ pc'["TR"] = pc["TR"] /\ (disconnectRecieved => disconnectRecieved')
        /\ pc["SR"] = "run" /\ pc'["SR"] \in {"run", "tail"}
        /\ (pc'["SR"] = "tail" => disconnectRecieved')
        /\ UNCHANGED <<stop, sock, toServer, mishaps, disconnectSent, notified>>
    BY <1>44 DEF RecvMessage, Goto
  <2> QED BY <2>1
<1>45. CASE RecvEnds
  BY <1>45 DEF RecvEnds, Goto
<1>46. CASE ReceiveTail
  BY <1>46 DEF ReceiveTail, Goto
<1>47. CASE TellSend
  BY <1>47 DEF TellSend, StopThread, Goto
<1>48. CASE SendStopped
  BY <1>48 DEF SendStopped, Goto
<1>49. CASE RunEnds("SR")
  BY <1>49 DEF RunEnds, Goto
<1>50. CASE NewKeys
  BY <1>50 DEF NewKeys
<1>51. CASE ServerAnswers
  <2>1. /\ toServer # <<>> /\ sock = "secure"
        /\ UNCHANGED <<pc, stop, disconnectSent, disconnectRecieved, notified>>
        /\ ("fault" \in mishaps => "fault" \in mishaps')
    BY <1>51 DEF ServerAnswers
  <2>2. \/ toServer' = toServer /\ sock' = sock
        \/ toServer' = Tail(toServer) /\ sock' = sock
        \/ toServer' = <<>> /\ sock' = "closing" /\ Head(toServer).kind = "disconnect"
    BY <1>51 DEF ServerAnswers
  <2>5. NoBye(toServer) => NoBye(Tail(toServer))
    BY <2>1, ByeMoved DEF QueueTypes
  <2>3. disconnectSent' \/ NoBye(toServer')
    BY <2>1, <2>2, <2>5, NothingSaid
  <2>4. Head(toServer).kind = "disconnect" => disconnectSent
    BY <2>1, ByeMoved DEF QueueTypes
  <2> QED BY <2>1, <2>2, <2>3, <2>4
<1>52. CASE ServerDisconnects
  BY <1>52, NothingSaid DEF ServerDisconnects
<1>53. CASE Reset
  BY <1>53, NothingSaid DEF Reset
<1> QED BY <1>1, <1>2, <1>3, <1>4, <1>5, <1>6, <1>7, <1>8, <1>9, <1>10, <1>11, <1>12, <1>13,
       <1>14, <1>15, <1>16, <1>17, <1>18, <1>19, <1>20, <1>21, <1>22, <1>23, <1>24, <1>25,
       <1>26, <1>27, <1>28, <1>29, <1>30, <1>31, <1>32, <1>33, <1>34, <1>35, <1>36, <1>37,
       <1>38, <1>39, <1>40, <1>41, <1>42, <1>43, <1>44, <1>45, <1>46, <1>47, <1>48, <1>49,
       <1>50, <1>51, <1>52, <1>53 DEF Next, User, Continue, Transport, Send, Receive, Server

-----------------------------------------------------------------------------
(* The theorems. *)

SessionInv == ThreadInv /\ Types /\ AskInv /\ CauseInv

LEMMA SessionStep == SessionInv /\ [Next]_vars => SessionInv'
<1> SUFFICES ASSUME SessionInv, [Next]_vars PROVE SessionInv'
  OBVIOUS
<1>1. CASE Next
  <2>1. ThreadInv'
    BY <1>1, StepThreads DEF SessionInv
  <2>2. Types'
    BY <1>1, ObjectStep, CallStep, FlagStep, QueueStep DEF SessionInv, Types
  <2>3. AskInv'
    BY <1>1, AskStep DEF SessionInv, Types
  <2>4. CauseInv'
    BY <1>1, CauseStep DEF SessionInv, Types
  <2> QED BY <2>1, <2>2, <2>3, <2>4 DEF SessionInv
<1>2. CASE UNCHANGED vars
  <2>1. ThreadInv' /\ Types'
    BY <1>2, StepThreads, TypesSame DEF SessionInv
  <2>2. AskInv'
    BY <1>2 DEF SessionInv, AskInv, OneRequest, OwnResponse, Ours, Apart, AnswersMatch, vars,
         userVars, quietVars, callVars, transportVars, socketVars, serverVars
  <2>3. CauseInv'
    BY <1>2 DEF SessionInv, CauseInv, SocketMade, GoodbyeSaid, NotifiedForCause, Said,
         Goodbye, vars, threadVars, transportVars, socketVars, serverVars
  <2> QED BY <2>1, <2>2, <2>3 DEF SessionInv
<1> QED BY <1>1, <1>2

LEMMA SessionAlways == Spec => []SessionInv
<1>1. Init => SessionInv
  BY InitThreads, InitTypes, InitAsk, InitCause DEF SessionInv
<1> QED BY <1>1, SessionStep, PTL DEF Spec

\* Every field and every queue of the connection holds what it is meant to hold: no handler
\* of Transport is given an answer of a kind for which there is no field and no condition.
THEOREM SessionTypes == Spec => []TypeOK
  BY SessionAlways, TypesGood, PTL DEF SessionInv

\* What authByPassword, authByPublicKey, getAuthMethods and the global requests return is
\* the server's answer to the request that this very call has queued.  The answers are kept
\* in one field per kind and the waits have no predicate, so all rests on this: no more than
\* one request is on its way at any time, and a call that has missed its answer never comes
\* back to send another one.
THEOREM AnswersMatchAlways == Spec => []AnswersMatch
<1>1. AskInv => AnswersMatch
  BY DEF AskInv, AnswersMatch
<1> QED BY <1>1, SessionAlways, PTL DEF SessionInv

\* ET_DISCONNECT is not raised while the connection is up and nobody asked to stop:
\* SocketRecieve ends after a DISCONNECT of either side or a fault of the socket, and
\* Transport looks at it only once it has run (Transport::run, PTsshSocket::isAlive).
THEOREM NotifiedForCauseAlways == Spec => []NotifiedForCause
<1>1. CauseInv => NotifiedForCause
  BY DEF CauseInv
<1> QED BY <1>1, SessionAlways, PTL DEF SessionInv
=============================================================================
