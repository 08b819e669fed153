----------------------------- MODULE Discovery -----------------------------
(***************************************************************************)
(* How tablet and phone find each other by UDP broadcasts: the broadcast   *)
(* part of Connection.start() and stop(), BroadcastReceiveThread and       *)
(* BroadcastSenderThread.                                                  *)
(*                                                                         *)
(* The phone starts once.  The tablet's user may start and stop at will,   *)
(* and every start() creates a receiving thread and a sending thread       *)
(* beside the ones that still live: generation 0 is the phone's pair,      *)
(* generations 1, 2, ... are the tablet's.  The tablet asks ("query"), the *)
(* phone tells its address ("announce").  All datagrams of a kind are      *)
(* alike, so the network is the set of the kinds in flight, of which one   *)
(* or several copies are received; a datagram may be lost, repeated, late, *)
(* or find no socket bound to its port.                                    *)
(***************************************************************************)
EXTENDS Integers

CONSTANTS
    MaxStarts,      \* bound: calls of start() on the tablet
    MaxTasks        \* bound: the phone's waiting answers, beyond which the
                    \* network repeats no query

ASSUME BoundsAssumption ==
    MaxStarts \in Nat \ {0} /\ MaxTasks \in Nat

Phone == 0
Tablet == 1..MaxStarts
Gens == {Phone} \cup Tablet

VARIABLES
    mBroadcastReceiveThread, \* the tablet's newest generation, 0 before start()
    mBroadcastSenderThread,  \* ... and its sender, 0 (null) after stop()
    mNetWorkInfo,            \* the tablet's status is CONNECTED
    mServerIp,               \* the tablet has been told the phone's address
    main,                    \* where the tablet's stop() is
    receiver,                \* where each BroadcastReceiveThread.run is
    socket,                  \* its mClientRecevieSocket: "null", "open", "closed"
    mThreadRuning, mStopReceive,
    sender,                  \* where each BroadcastSenderThread.run is
    mBroadcastTasks,         \* tasks of each sender; they are all alike
    mThreadStop,
    net,        \* the kinds of datagrams in flight
    stopped,    \* history: receivers that stopReceive() has closed
    hasty,      \* history: a broadcast was sent before its end listened
                \* (like the next, kept until the tablet knows the phone)
    lost        \* history: the network lost a datagram

connection == <<mBroadcastReceiveThread, mBroadcastSenderThread, mNetWorkInfo,
                mServerIp, main>>
receivers == <<receiver, socket, mThreadRuning, mStopReceive>>
senders == <<sender, mBroadcastTasks, mThreadStop>>
history == <<hasty, lost>>
vars == <<connection, receivers, senders, net, stopped, history>>

EndOf(g) == IF g = Phone THEN {Phone} ELSE Tablet
Sends(g) == IF g = Phone THEN "announce" ELSE "query"
Hears(g) == IF g = Phone THEN "query" ELSE "announce"
Listening(end) == {g \in end : socket[g] = "open"}
Broken == \E g \in Gens : receiver[g] = "failed"
Audience(kind) == IF kind = "query" THEN {Phone} ELSE Tablet

Init ==
    /\ mBroadcastReceiveThread = 0
    /\ mBroadcastSenderThread = 0
    /\ mNetWorkInfo = FALSE
    /\ mServerIp = FALSE
    /\ main = "idle"
    /\ receiver = [g \in Gens |-> "none"]
    /\ socket = [g \in Gens |-> "null"]
    /\ mThreadRuning = [g \in Gens |-> FALSE]
    /\ mStopReceive = [g \in Gens |-> FALSE]
    /\ sender = [g \in Gens |-> "none"]
    /\ mBroadcastTasks = [g \in Gens |-> 0]
    /\ mThreadStop = [g \in Gens |-> FALSE]
    /\ net = {}
    /\ stopped = {}
    /\ hasty = FALSE
    /\ lost = FALSE

-----------------------------------------------------------------------------
(* Connection                                                              *)

(* init() and the tail of startClient() or startServer(): two new threads  *)
(* are started and the sender is given the first task.  The sender has not *)
(* run yet, so the notify finds nobody.                                    *)
startPair(g) ==
    /\ receiver' = [receiver EXCEPT ![g] = "bind"]
    /\ sender' = [sender EXCEPT ![g] = "loop"]
    /\ mBroadcastTasks' = [mBroadcastTasks EXCEPT ![g] = 1]

startServer ==
    /\ receiver[Phone] = "none"
    /\ startPair(Phone)
    /\ UNCHANGED <<connection, socket, mThreadRuning, mStopReceive, mThreadStop,
                   net, stopped, history>>

(* Slip: a new start() tells the receiving thread of the last one to end   *)
(* and does not wait for it.                                               *)
startClient_EndsOld ==
    /\ main = "idle"
    /\ ~ mNetWorkInfo
    /\ mBroadcastReceiveThread < MaxStarts
    /\ mBroadcastReceiveThread' = mBroadcastReceiveThread + 1
    /\ mBroadcastSenderThread' = mBroadcastReceiveThread + 1
    /\ startPair(mBroadcastReceiveThread + 1)
    /\ mStopReceive' = [g \in Gens |-> mStopReceive[g] \/
                            (g # Phone /\ g = mBroadcastReceiveThread)]
    /\ UNCHANGED <<mNetWorkInfo, mServerIp, main, socket, mThreadRuning,
                   mThreadStop, net, stopped, history>>

(* start() on the tablet: not if CONNECTED.  Older threads are forgotten,  *)
(* not stopped.                                                            *)
startClient ==
    /\ main = "idle"
    /\ ~ mNetWorkInfo
    /\ mBroadcastReceiveThread < MaxStarts
    /\ mBroadcastReceiveThread' = mBroadcastReceiveThread + 1
    /\ mBroadcastSenderThread' = mBroadcastReceiveThread + 1
    /\ startPair(mBroadcastReceiveThread + 1)
    /\ UNCHANGED <<mNetWorkInfo, mServerIp, main, socket, mThreadRuning,
                   mStopReceive, mThreadStop, net, stopped, history>>

(* stopThread() sets the flag; it does not notify. *)
stopThread ==
    /\ mBroadcastSenderThread' = 0
    /\ mThreadStop' = IF mBroadcastSenderThread = 0 THEN mThreadStop
                      ELSE [mThreadStop EXCEPT ![mBroadcastSenderThread] = TRUE]

(* stop(): only if CONNECTED (which the phone's status never is).  The     *)
(* newest receiver is stopped if it says that it runs.                     *)
stop ==
    /\ main = "idle"
    /\ mNetWorkInfo
    /\ \/ /\ mThreadRuning[mBroadcastReceiveThread]
          /\ mStopReceive' = [mStopReceive EXCEPT
                                 ![mBroadcastReceiveThread] = TRUE]
          /\ main' = "check"
          /\ UNCHANGED <<mBroadcastSenderThread, mThreadStop>>
       \/ /\ ~ mThreadRuning[mBroadcastReceiveThread]
          /\ stopThread
          /\ UNCHANGED <<mStopReceive, main>>
    /\ UNCHANGED <<mBroadcastReceiveThread, mNetWorkInfo, mServerIp, receiver,
                   socket, mThreadRuning, sender, mBroadcastTasks, net,
                   stopped, history>>

(* stopReceive(), the test of the field. *)
stopReceiveCheck ==
    /\ main = "check"
    /\ \/ /\ socket[mBroadcastReceiveThread] # "null"
          /\ main' = "close"
          /\ UNCHANGED <<mBroadcastSenderThread, mThreadStop>>
       \/ /\ socket[mBroadcastReceiveThread] = "null"
          /\ main' = "idle"
          /\ stopThread
    /\ UNCHANGED <<mBroadcastReceiveThread, mNetWorkInfo, mServerIp, receivers,
                   sender, mBroadcastTasks, net, stopped, history>>

(* Slip: the thread is told to end and its socket is left to it. *)
stopReceiveClose_FlagOnly ==
    /\ main = "close"
    /\ stopped' = stopped \cup {mBroadcastReceiveThread}
    /\ main' = "idle"
    /\ stopThread
    /\ UNCHANGED <<mBroadcastReceiveThread, mNetWorkInfo, mServerIp, receivers,
                   sender, mBroadcastTasks, net, history>>

(* ... and its use: by now the receiver itself may have set it to null,    *)
(* and the main thread dies of the NullPointerException.                   *)
stopReceiveClose ==
    /\ main = "close"
    /\ \/ /\ socket[mBroadcastReceiveThread] = "null"
          /\ main' = "crashed"
          /\ UNCHANGED <<socket, mBroadcastSenderThread, mThreadStop, stopped>>
       \/ /\ socket[mBroadcastReceiveThread] # "null"
          /\ socket' = [socket EXCEPT ![mBroadcastReceiveThread] = "closed"]
          /\ stopped' = stopped \cup {mBroadcastReceiveThread}
          /\ main' = "idle"
          /\ stopThread
    /\ UNCHANGED <<mBroadcastReceiveThread, mNetWorkInfo, mServerIp, receiver,
                   mThreadRuning, mStopReceive, sender, mBroadcastTasks,
                   net, history>>

(* ClientConnection: the status becomes CONNECTED once an address is       *)
(* known, and is lost, at any time.                                        *)
onConnectionStatutChange ==
    /\ mServerIp
    /\ mNetWorkInfo' = ~ mNetWorkInfo
    /\ UNCHANGED <<mBroadcastReceiveThread, mBroadcastSenderThread, mServerIp,
                   main, receivers, senders, net, stopped, history>>

-----------------------------------------------------------------------------
(* BroadcastSenderThread                                                   *)

(* Slip: the task is added and nobody is told. *)
addBroadcastTask_NoNotify(g) ==
    /\ mBroadcastTasks' = [mBroadcastTasks EXCEPT ![g] = @ + 1]
    /\ UNCHANGED sender

(* Only the phone's sender is given more tasks, and it is never stopped,   *)
(* so that nothing is lost by testing the flag again after the wait().     *)
addBroadcastTask(g) ==
    /\ mBroadcastTasks' = [mBroadcastTasks EXCEPT ![g] = @ + 1]
    /\ sender' = [sender EXCEPT ![g] = IF @ = "waiting" THEN "loop" ELSE @]

(* One turn of the loop: the monitor is held from the test for a task to   *)
(* the end of sendBroadcast, except in wait(), which is repeated while     *)
(* there is no task.                                                       *)
SenderEnds(g) ==
    /\ sender[g] = "loop"
    /\ mThreadStop[g]
    /\ sender' = [sender EXCEPT ![g] = "done"]
    /\ UNCHANGED <<connection, receivers, mBroadcastTasks, mThreadStop, net,
                   stopped, history>>

SenderWait(g) ==
    /\ sender[g] = "loop"
    /\ ~ mThreadStop[g]
    /\ mBroadcastTasks[g] = 0
    /\ sender' = [sender EXCEPT ![g] = "waiting"]
    /\ UNCHANGED <<connection, receivers, mBroadcastTasks, mThreadStop, net,
                   stopped, history>>

(* Slip: a woken sender takes a task without looking whether there is one. *)
sendBroadcast_NoEmptyTest(g) ==
    /\ sender[g] = "loop"
    /\ ~ mThreadStop[g]
    /\ mBroadcastTasks' = [mBroadcastTasks EXCEPT ![g] = @ - 1]
    /\ net' = net \cup {Sends(g)}
    /\ UNCHANGED <<connection, receivers, sender, mThreadStop, stopped, history>>

(* The datagram reaches the network, or send() throws and the task is over *)
(* all the same.                                                           *)
sendBroadcast(g) ==
    /\ sender[g] = "loop"
    /\ ~ mThreadStop[g]
    /\ mBroadcastTasks[g] > 0
    /\ mBroadcastTasks' = [mBroadcastTasks EXCEPT ![g] = @ - 1]
    /\ sender' = [sender EXCEPT ![g] = "loop"]
    /\ hasty' = (hasty \/ (~ mServerIp /\ Listening(EndOf(g)) = {}))
    /\ \/ net' = net \cup {Sends(g)} /\ UNCHANGED lost
       \/ lost' = (lost \/ ~ mServerIp) /\ UNCHANGED net
    /\ UNCHANGED <<connection, receivers, mThreadStop, stopped>>

SenderThread(g) == SenderEnds(g) \/ SenderWait(g) \/ sendBroadcast(g)

-----------------------------------------------------------------------------
(* BroadcastReceiveThread                                                  *)

(* The finally block: a socket that stopReceive() has closed stays in the  *)
(* field.                                                                  *)
receiverFinally(g, end) ==
    /\ receiver' = [receiver EXCEPT ![g] = end]
    /\ socket' = [socket EXCEPT ![g] = IF @ = "open" THEN "null" ELSE @]
    /\ mThreadRuning' = [mThreadRuning EXCEPT ![g] = FALSE]

(* new DatagramSocket(port) throws while another thread holds the port.    *)
ReceiverBind(g) ==
    /\ receiver[g] = "bind"
    /\ \/ /\ Listening(EndOf(g)) = {}
          /\ socket' = [socket EXCEPT ![g] = "open"]
          /\ receiver' = [receiver EXCEPT ![g] = "bound"]
          /\ UNCHANGED mThreadRuning
       \/ /\ Listening(EndOf(g)) # {}
          /\ receiverFinally(g, "done")
    /\ UNCHANGED <<connection, mStopReceive, senders, net, stopped, history>>

ReceiverRuning(g) ==
    /\ receiver[g] = "bound"
    /\ mThreadRuning' = [mThreadRuning EXCEPT ![g] = TRUE]
    /\ receiver' = [receiver EXCEPT ![g] = "runs"]
    /\ UNCHANGED <<connection, socket, mStopReceive, senders, net, stopped, history>>

(* A stop that came after the line before is overwritten here. *)
ReceiverNotStopped(g) ==
    /\ receiver[g] = "runs"
    /\ mStopReceive' = [mStopReceive EXCEPT ![g] = FALSE]
    /\ receiver' = [receiver EXCEPT ![g] = "receive"]
    /\ UNCHANGED <<connection, socket, mThreadRuning, senders, net, stopped, history>>

Receive(g) ==
    /\ receiver[g] = "receive"
    /\ socket[g] = "open"
    /\ Hears(g) \in net
    /\ \/ net' = net \ {Hears(g)}
       \/ (g = Phone => mBroadcastTasks[Phone] < MaxTasks) /\ UNCHANGED net
    /\ receiver' = [receiver EXCEPT ![g] = "deliver"]
    /\ UNCHANGED <<connection, socket, mThreadRuning, mStopReceive, senders,
                   stopped, history>>

(* receive() throws when the socket has been closed, or for the network's  *)
(* own reasons.                                                            *)
ReceiveFails(g) ==
    /\ receiver[g] = "receive"
    /\ receiverFinally(g, IF socket[g] = "open" THEN "failed" ELSE "done")
    /\ UNCHANGED <<connection, mStopReceive, senders, net, stopped, history>>

(* The loop's test after a datagram was handled. *)
receiverTest(g) ==
    \/ /\ mStopReceive[g]
       /\ receiverFinally(g, "done")
    \/ /\ ~ mStopReceive[g]
       /\ receiver' = [receiver EXCEPT ![g] = "receive"]
       /\ UNCHANGED <<socket, mThreadRuning>>

(* Slip: the phone notes the query and does not answer. *)
onNewDataReceived_NoAnswer(g) ==
    /\ receiver[g] = "deliver"
    /\ mServerIp' = (mServerIp \/ g # Phone)
    /\ hasty' = (hasty /\ ~ mServerIp')
    /\ lost' = (lost /\ ~ mServerIp')
    /\ receiverTest(g)
    /\ UNCHANGED <<mBroadcastReceiveThread, mBroadcastSenderThread,
                   mNetWorkInfo, main, mStopReceive, senders, net,
                   stopped>>

(* All receivers of a port have the same name, so Connection listens to    *)
(* the old ones too.  The phone answers a query; the tablet takes the      *)
(* address (and connects: ClientConnection), from where on the histories   *)
(* are of no interest.                                                     *)
onNewDataReceived(g) ==
    /\ receiver[g] = "deliver"
    /\ \/ /\ g = Phone
          /\ addBroadcastTask(Phone)
          /\ UNCHANGED <<mServerIp, hasty, lost>>
       \/ /\ g # Phone
          /\ mServerIp' = TRUE
          /\ hasty' = FALSE
          /\ lost' = FALSE
          /\ UNCHANGED <<sender, mBroadcastTasks>>
    /\ receiverTest(g)
    /\ UNCHANGED <<mBroadcastReceiveThread, mBroadcastSenderThread,
                   mNetWorkInfo, main, mStopReceive, mThreadStop, net,
                   stopped>>

ReceiverThread(g) ==
    \/ ReceiverBind(g) \/ ReceiverRuning(g) \/ ReceiverNotStopped(g)
    \/ Receive(g) \/ onNewDataReceived(g)
    \/ socket[g] = "closed" /\ ReceiveFails(g)

-----------------------------------------------------------------------------
(* UDP *)
Lose(kind) ==
    /\ kind \in net
    /\ net' = net \ {kind}
    /\ lost' = ~ mServerIp
    /\ UNCHANGED <<connection, receivers, senders, stopped, hasty>>

(* Nobody is bound to the port the datagram arrives at. *)
Vanish(kind) ==
    /\ kind \in net
    /\ Listening(Audience(kind)) = {}
    /\ net' = net \ {kind}
    /\ UNCHANGED <<connection, receivers, senders, stopped, history>>

Next ==
    \/ startServer \/ startClient
    \/ stop \/ stopReceiveCheck \/ stopReceiveClose
    \/ onConnectionStatutChange
    \/ \E g \in Gens :
          SenderThread(g) \/ ReceiverThread(g) \/ ReceiveFails(g)
    \/ \E kind \in {"query", "announce"} :
          Lose(kind) \/ Vanish(kind)

Spec == Init /\ [][Next]_vars

-----------------------------------------------------------------------------
(* The type of the state. *)
TypeOK ==
    /\ mBroadcastReceiveThread \in Gens
    /\ mBroadcastSenderThread \in Gens
    /\ mNetWorkInfo \in BOOLEAN
    /\ mServerIp \in BOOLEAN
    /\ main \in {"idle", "check", "close", "crashed"}
    /\ receiver \in [Gens -> {"none", "bind", "bound", "runs", "receive",
                              "deliver", "done", "failed"}]
    /\ socket \in [Gens -> {"null", "open", "closed"}]
    /\ mThreadRuning \in [Gens -> BOOLEAN]
    /\ mStopReceive \in [Gens -> BOOLEAN]
    /\ sender \in [Gens -> {"none", "loop", "waiting", "done"}]
    /\ mBroadcastTasks \in [Gens -> Nat]
    /\ mThreadStop \in [Gens -> BOOLEAN]
    /\ net \in SUBSET {"query", "announce"}
    /\ stopped \in SUBSET Tablet
    /\ hasty \in BOOLEAN
    /\ lost \in BOOLEAN

(* Connection.start() and stop() in any order leave the tablet listening   *)
(* unless stop() came last: when the newest receiving thread has given up, *)
(* which it does because its bind fails, an older one still holds the port *)
(* and hears in its place.                                                 *)
StartedIsListening ==
    /\ mBroadcastSenderThread # 0
    /\ main = "idle"
    /\ ~ Broken
    /\ receiver[mBroadcastReceiveThread] = "done"
    => Listening(Tablet) # {}

(* Once stop() has returned, the receiver it stopped takes no datagram any *)
(* more, although the receiver's own first lines may take the flag back    *)
(* that stopReceive() has set: its socket is closed.                       *)
StopIsFinal ==
    [][\A g \in stopped :
          receiver[g] = "receive" => receiver'[g] # "deliver"]_vars

(* Whatever the order of addBroadcastTask and of the sender's wait(), no   *)
(* sender sleeps while it has a broadcast to send.                         *)
NoBroadcastLeftBehind ==
    \A g \in Gens : sender[g] = "waiting" => mBroadcastTasks[g] = 0

(* Nothing more will happen by itself: all threads wait, no datagram is in *)
(* flight, and both ends were started.                                     *)
Quiet ==
    /\ receiver[Phone] # "none" /\ mBroadcastReceiveThread # 0
    /\ net = {}
    /\ \A g \in Gens :
          /\ receiver[g] \in {"none", "receive", "done", "failed"}
          /\ mBroadcastTasks[g] = 0

(* Tablet and phone do not miss each other, whoever starts first, if no    *)
(* datagram is lost and each end has bound its port before it broadcasts:  *)
(* the later of the two broadcasts is heard, and a query is answered.      *)
TheyMeet == Quiet /\ ~ hasty /\ ~ lost /\ ~ Broken => mServerIp
=============================================================================
