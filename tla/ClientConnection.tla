-------------------------- MODULE ClientConnection --------------------------
(***************************************************************************)
(* The tablet's side of the connection: Connection as a client uses it and *)
(* its SocketClientConnectionThreads.  Every announcement of the phone     *)
(* that finds the current thread not CONNECTED replaces it by a new one,   *)
(* but the replaced thread lives on, and all threads report to the same    *)
(* Connection, which keeps one status and sends by its current thread.     *)
(*                                                                         *)
(* start() and stop() are called by the application's main thread, the     *)
(* announcements by the thread that receives broadcasts.  Neither holds a  *)
(* lock from its check of a status to the use of mSocketClientThread, so   *)
(* every check and every use is a step of its own.  An exception that      *)
(* nobody catches ends the process.  The phone is external: it answers an  *)
(* authorize package, on that connection or (when it cannot name the       *)
(* connection) on all of them, and may disappear.                          *)
(***************************************************************************)
EXTENDS Integers, FiniteSets

CONSTANTS
    Threads,        \* bound: SocketClientConnectionThread objects created
    Null

ASSUME ThreadsAssumption == Null \notin Threads

VARIABLES
    mSocketClientThread,    \* the current thread, Null before start()
    mNetWorkInfo,           \* the status the application sees
    main,                   \* the call of start() or stop() past its check
    announced,              \* where onNewDataReceived(broadcast) is
    pc,                     \* where each thread's run() is
    mConnectStatus, mStopConnection,    \* fields of each thread
    authorize,      \* threads whose sender was given the authorize package
    silent,         \* threads whose phone has gone
    overlap         \* history: a thread was replaced while it was alive

connection == <<mSocketClientThread, mNetWorkInfo>>
calls == <<main, announced>>
flags == <<mConnectStatus, mStopConnection>>
vars == <<connection, calls, pc, flags, authorize, silent, overlap>>

(* The statuses of a thread; Connection's own may also be the error of a   *)
(* port in use, of which ERROR_CONFLICT stands for the three.              *)
Status == {"NOT_INIT", "UNAUTHORIZED", "CONNECTED", "DISCONNECTED"}
NetWorkStatus == Status \cup {"ERROR_CONFLICT"}

Alive == {t \in Threads : pc[t] \notin {"none", "created", "done", "killed"}}
isConnected(t) == mConnectStatus[t] = "CONNECTED"

(* Slip: UNAUTHORIZED threads may not send. *)
canSendData_ConnectedOnly(t) == mConnectStatus[t] = "CONNECTED"

canSendData(t) == mConnectStatus[t] \in {"UNAUTHORIZED", "CONNECTED"}

(* Connection's constructor, which ends with the check of the ports: a     *)
(* port in use is a status, and hinders nothing.                           *)
checkPort == mNetWorkInfo \in {"NOT_INIT", "ERROR_CONFLICT"}

Init ==
    /\ mSocketClientThread = Null
    /\ checkPort
    /\ main = "idle"
    /\ announced = "idle"
    /\ pc = [t \in Threads |-> "none"]
    /\ mConnectStatus = [t \in Threads |-> "NOT_INIT"]
    /\ mStopConnection = [t \in Threads |-> FALSE]
    /\ authorize = {}
    /\ silent = {}
    /\ overlap = FALSE

-----------------------------------------------------------------------------
(* A new thread object becomes the current one; it is not started yet.     *)
replace(t) ==
    /\ pc[t] = "none"
    /\ pc' = [pc EXCEPT ![t] = "created"]
    /\ mSocketClientThread' = t
    /\ overlap' = (overlap \/ Alive # {})
    /\ UNCHANGED <<mNetWorkInfo, flags, authorize, silent>>

(* start(): not if already connected. *)
start ==
    /\ main = "idle"
    /\ mNetWorkInfo # "CONNECTED"
    /\ main' = "start"
    /\ UNCHANGED <<connection, announced, pc, flags, authorize, silent,
                   overlap>>

init(t) ==
    /\ main = "start"
    /\ main' = "idle"
    /\ replace(t)
    /\ UNCHANGED announced

(* stop(): only if connected; stopClient tests the current thread.         *)
stop ==
    /\ main = "idle"
    /\ mNetWorkInfo = "CONNECTED"
    /\ isConnected(mSocketClientThread)
    /\ main' = "stop"
    /\ UNCHANGED <<connection, announced, pc, flags, authorize, silent,
                   overlap>>

(* Slip: stopRuning declares the thread DISCONNECTED while it still reads. *)
stopRuning_SetsStatus ==
    /\ main = "stop"
    /\ main' = "idle"
    /\ mStopConnection' = [mStopConnection EXCEPT
                              ![mSocketClientThread] = TRUE]
    /\ mConnectStatus' = [mConnectStatus EXCEPT
                             ![mSocketClientThread] = "DISCONNECTED"]
    /\ UNCHANGED <<connection, announced, pc, authorize, silent, overlap>>

(* stopRuning() of what is now the current thread. *)
stopRuning ==
    /\ main = "stop"
    /\ main' = "idle"
    /\ mStopConnection' = [mStopConnection EXCEPT
                              ![mSocketClientThread] = TRUE]
    /\ UNCHANGED <<connection, announced, pc, mConnectStatus, authorize, silent,
                   overlap>>

(* onNewDataReceived from the broadcast thread: the phone's address.  A    *)
(* current thread that is connected is left alone.                         *)
onBroadcast ==
    /\ announced = "idle"
    /\ mSocketClientThread # Null
    /\ ~ isConnected(mSocketClientThread)
    /\ announced' = "replace"
    /\ UNCHANGED <<connection, main, pc, flags, authorize, silent, overlap>>

(* Slip: the thread in the field is taken as it is. *)
onBroadcastReplace_Reuses(t) ==
    /\ announced = "replace"
    /\ announced' = "start"
    /\ pc[t] = "none"
    /\ UNCHANGED <<connection, main, pc, flags, authorize, silent, overlap>>

(* The current thread is tested again, and replaced if it is still not     *)
(* connected ...                                                           *)
onBroadcastReplace(t) ==
    /\ announced = "replace"
    /\ ~ isConnected(mSocketClientThread)
    /\ announced' = "start"
    /\ replace(t)
    /\ UNCHANGED main

(* ... but one that was let in since the first test is kept.               *)
onBroadcastKeep ==
    /\ announced = "replace"
    /\ isConnected(mSocketClientThread)
    /\ announced' = "start"
    /\ UNCHANGED <<connection, main, pc, flags, authorize, silent, overlap>>

(* startConnection(): of what is now the current thread.                   *)
startConnection ==
    /\ announced = "start"
    /\ pc[mSocketClientThread] = "created"
    /\ announced' = "idle"
    /\ pc' = [pc EXCEPT ![mSocketClientThread] = "begin"]
    /\ UNCHANGED <<connection, main, flags, authorize, silent, overlap>>

(* Thread.start() throws IllegalThreadStateException on a thread that was  *)
(* started before; BroadcastReceiveThread.run catches only IOException, so *)
(* the process ends, with all its threads.                                 *)
startConnectionAgain ==
    /\ announced = "start"
    /\ pc[mSocketClientThread] # "created"
    /\ announced' = "crashed"
    /\ main' = "killed"
    /\ pc' = [t \in Threads |-> "killed"]
    /\ UNCHANGED <<connection, flags, authorize, silent, overlap>>

-----------------------------------------------------------------------------
(* changeConnectStatus: the field first, then the call of the listener.    *)
changeConnectStatus(t, status) ==
    /\ mConnectStatus' = [mConnectStatus EXCEPT ![t] = status]
    /\ pc' = [pc EXCEPT ![t] = "report"]

(* What a thread does after its status was stored: the authorize package,  *)
(* the rest of its loop, or releaseServerSocket and the end.               *)
afterReport(status) ==
    IF status = "UNAUTHORIZED" THEN "authorize"
    ELSE IF status = "DISCONNECTED" THEN "done" ELSE "test"

(* Slip: the end of a connection is not stored. *)
onConnectionStatutChange_NoEnd(t) ==
    /\ pc[t] = "report"
    /\ mNetWorkInfo' = IF mConnectStatus[t] = "DISCONNECTED" THEN mNetWorkInfo
                       ELSE mConnectStatus[t]
    /\ pc' = [pc EXCEPT ![t] = afterReport(mConnectStatus[t])]
    /\ UNCHANGED <<mSocketClientThread, calls, flags, authorize, silent,
                   overlap>>

(* Connection.onConnectionStatutChange, under the lock: whichever thread   *)
(* reports, the one status is overwritten.                                 *)
onConnectionStatutChange(t) ==
    /\ pc[t] = "report"
    /\ mNetWorkInfo' = mConnectStatus[t]
    /\ pc' = [pc EXCEPT ![t] = afterReport(mConnectStatus[t])]
    /\ UNCHANGED <<mSocketClientThread, calls, flags, authorize, silent,
                   overlap>>

(* After the lock, the authorize package goes to the current thread, if    *)
(* that one can send: not always the thread that reports.                  *)
sendDataToTargetInner(t) ==
    /\ pc[t] = "authorize"
    /\ authorize' = authorize \cup
                        {u \in {mSocketClientThread} : canSendData(u)}
    /\ pc' = [pc EXCEPT ![t] = "test"]
    /\ UNCHANGED <<connection, calls, flags, silent, overlap>>

initRunningArgument(t) ==
    /\ pc[t] = "begin"
    /\ mStopConnection' = [mStopConnection EXCEPT ![t] = FALSE]
    /\ pc' = [pc EXCEPT ![t] = "connect"]
    /\ UNCHANGED <<connection, calls, mConnectStatus, authorize, silent,
                   overlap>>

(* run(): connect, open the streams, start the sender. *)
runConnect(t) ==
    /\ pc[t] = "connect"
    /\ t \notin silent
    /\ changeConnectStatus(t, "UNAUTHORIZED")
    /\ UNCHANGED <<connection, calls, mStopConnection, authorize, silent,
                   overlap>>

(* Slip: the loop goes on whatever the flag says. *)
runTest_NoStop(t) ==
    /\ pc[t] = "test"
    /\ pc' = [pc EXCEPT ![t] = "reading"]
    /\ UNCHANGED <<connection, calls, flags, authorize, silent, overlap>>

runTest(t) ==
    /\ pc[t] = "test"
    /\ pc' = [pc EXCEPT ![t] = IF mStopConnection[t] THEN "finally"
                               ELSE "reading"]
    /\ UNCHANGED <<connection, calls, flags, authorize, silent, overlap>>

(* An answer of the phone's to some authorize package. *)
answered(t) ==
    /\ pc[t] = "reading"
    /\ t \notin silent
    /\ authorize # {}

receivePass(t) ==
    /\ answered(t)
    /\ changeConnectStatus(t, "CONNECTED")
    /\ UNCHANGED <<connection, calls, mStopConnection, authorize, silent,
                   overlap>>

receiveFailed(t) ==
    /\ answered(t)
    /\ mStopConnection' = [mStopConnection EXCEPT ![t] = TRUE]
    /\ pc' = [pc EXCEPT ![t] = "test"]
    /\ UNCHANGED <<connection, calls, mConnectStatus, authorize, silent,
                   overlap>>

(* A heartbeat or the application's data. *)
receiveOther(t) ==
    /\ pc[t] = "reading"
    /\ t \notin silent
    /\ pc' = [pc EXCEPT ![t] = "test"]
    /\ UNCHANGED <<connection, calls, flags, authorize, silent, overlap>>

(* Slip: the timeout is caught inside the loop. *)
runFails_Retries(t) ==
    /\ pc[t] \in {"connect", "reading"}
    /\ t \in silent
    /\ pc' = [pc EXCEPT ![t] = IF pc[t] = "connect" THEN "finally" ELSE "test"]
    /\ UNCHANGED <<connection, calls, flags, authorize, silent, overlap>>

(* Connecting fails, the read times out after 15 s or meets the end.       *)
runFails(t) ==
    /\ pc[t] \in {"connect", "reading"}
    /\ t \in silent
    /\ pc' = [pc EXCEPT ![t] = "finally"]
    /\ UNCHANGED <<connection, calls, flags, authorize, silent, overlap>>

(* Slip: a thread that ends tells nobody. *)
runFinally_Untold(t) ==
    /\ pc[t] = "finally"
    /\ mConnectStatus' = [mConnectStatus EXCEPT ![t] = "DISCONNECTED"]
    /\ pc' = [pc EXCEPT ![t] = "done"]
    /\ UNCHANGED <<connection, calls, mStopConnection, authorize, silent,
                   overlap>>

runFinally(t) ==
    /\ pc[t] = "finally"
    /\ changeConnectStatus(t, "DISCONNECTED")
    /\ UNCHANGED <<connection, calls, mStopConnection, authorize, silent,
                   overlap>>

(* The phone refuses, closes or leaves the network. *)
phoneGoes(t) ==
    /\ t \in Alive \ silent
    /\ silent' = silent \cup {t}
    /\ UNCHANGED <<connection, calls, pc, flags, authorize, overlap>>

-----------------------------------------------------------------------------
run(t) ==
    \/ initRunningArgument(t) \/ runConnect(t) \/ runTest(t) \/ runFails(t)
    \/ runFinally(t) \/ onConnectionStatutChange(t)
    \/ sendDataToTargetInner(t)

receive(t) == receivePass(t) \/ receiveFailed(t) \/ receiveOther(t)

Next ==
    \/ start \/ stop \/ stopRuning
    \/ onBroadcast \/ onBroadcastKeep
    \/ startConnection \/ startConnectionAgain
    \/ \E t \in Threads :
          \/ init(t) \/ onBroadcastReplace(t)
          \/ run(t) \/ receive(t) \/ phoneGoes(t)

Spec == Init /\ [][Next]_vars

(* A thread that can run runs.  A read returns, with an object or by the   *)
(* socket's timeout.                                                       *)
Fairness ==
    \A t \in Threads :
        /\ WF_vars(run(t))
        /\ WF_vars(receive(t) \/ runFails(t))

FairSpec == Spec /\ Fairness

-----------------------------------------------------------------------------
(* The type of the state; a thread exists only after start() has set the   *)
(* current one.                                                            *)
TypeOK ==
    /\ mSocketClientThread \in Threads \cup {Null}
    /\ mNetWorkInfo \in NetWorkStatus
    /\ main \in {"idle", "start", "stop", "killed"}
    /\ announced \in {"idle", "replace", "start", "crashed"}
    /\ pc \in [Threads -> {"none", "created", "begin", "connect", "report",
                           "authorize", "test", "reading", "finally", "done",
                           "killed"}]
    /\ mConnectStatus \in [Threads -> Status]
    /\ mStopConnection \in [Threads -> BOOLEAN]
    /\ authorize \in SUBSET Threads
    /\ silent \in SUBSET Threads
    /\ overlap \in BOOLEAN
    /\ (\E t \in Threads : pc[t] # "none") => mSocketClientThread # Null
    /\ mSocketClientThread # Null => pc[mSocketClientThread] # "none"

(* However many threads are alive, the application never sees CONNECTED    *)
(* when no thread is connected or about to report its end.                 *)
NoGhostConnection ==
    (mNetWorkInfo = "CONNECTED" /\ announced # "crashed") =>
        \E t \in Alive : \/ mConnectStatus[t] = "CONNECTED"
                         \/ mConnectStatus[t] = "DISCONNECTED"

(* startConnection reads mSocketClientThread once more, when start() may   *)
(* have replaced it and the threads may have gone on.  It meets a thread   *)
(* that was started before, and Thread.start() throws, in one case only:   *)
(* that thread has been let in, after the first test found it waiting.     *)
(* "Thread is connected. Do nothing." (Connection.java:297) is not true of *)
(* a thread that becomes connected between the tests.                      *)
StartedAgainOnlyIfLetIn ==
    announced = "start" =>
        \/ pc[mSocketClientThread] = "created"
        \/ mConnectStatus[mSocketClientThread] \in
              {"CONNECTED", "DISCONNECTED"}

(* The authorize package goes to the current thread, whichever thread      *)
(* reported.  Still, a current thread that waits for the phone has asked   *)
(* it: only a replaced thread can wait for an answer nobody asked for.     *)
CurrentThreadHasAsked ==
    \A t \in Threads :
        (t = mSocketClientThread /\ pc[t] = "reading") => t \in authorize

(* As long as no thread was replaced while alive, the status the           *)
(* application sees is the one of the current thread, except while it is   *)
(* being reported; a thread that has not reported yet leaves the status    *)
(* of the connection before it, or the error of the constructor.           *)
StatusOfCurrentThread ==
    (~ overlap /\ mSocketClientThread # Null) =>
        LET t == mSocketClientThread
        IN  \/ pc[t] \in {"report", "killed"}
            \/ mNetWorkInfo = mConnectStatus[t]
            \/ /\ mConnectStatus[t] = "NOT_INIT"
               /\ mNetWorkInfo \in {"DISCONNECTED", "ERROR_CONFLICT"}

(* A thread is authorized only between its connecting and its end: no      *)
(* late answer revives a thread that is DISCONNECTED.                      *)
NoRevival ==
    [][\A t \in Threads :
          /\ mConnectStatus[t] = "DISCONNECTED" =>
                mConnectStatus'[t] = "DISCONNECTED"
          /\ mConnectStatus'[t] = "CONNECTED" =>
                mConnectStatus[t] \in {"UNAUTHORIZED", "CONNECTED"}]_vars

(* When the phone disappears, each thread that was talking to it ends,     *)
(* with the process if not by itself.                                      *)
SilenceEndsThread ==
    \A t \in Threads : t \in silent ~> pc[t] \in {"done", "killed"}

(* stopRuning() only sets a flag that the thread, blocked in a read, does  *)
(* not see; the read returns in the end, and the thread ends.              *)
StopEndsThread ==
    \A t \in Threads :
        (mStopConnection[t] /\ t \in Alive /\ pc[t] # "begin")
            ~> pc[t] \in {"done", "killed"}
=============================================================================
