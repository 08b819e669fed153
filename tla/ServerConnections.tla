-------------------------- MODULE ServerConnections --------------------------
(***************************************************************************)
(* The phone's side of the connections: the accepting thread               *)
(* (SocketServerConnectionThread), the pool that runs the connections      *)
(* (ConnectionThreads), each ServerConnection, and the part of Connection  *)
(* that a server uses.  A connection is addressed by the name the pool     *)
(* gives it, and that name is assigned after the connection has been       *)
(* handed to a pool thread.                                                *)
(*                                                                         *)
(* authorize() is module Authorizer: here it takes any time and gives any  *)
(* answer.  A sender is module SocketDataSender: here it is the set of     *)
(* packages put into it.                                                   *)
(***************************************************************************)
EXTENDS Integers, Sequences, FiniteSets

CONSTANTS
    Conns,              \* bound: the sockets that tablets open
    MAX_THREAD_SIZE,    \* threads of the pool, 5 in the code
    WorkQueueSize,      \* capacity of sPoolWorkQueue, 128 in the code
    Null

ASSUME ConnsAssumption == IsFiniteSet(Conns) /\ Null \notin Conns
ASSUME PoolAssumption ==
    MAX_THREAD_SIZE \in Nat \ {0} /\ WorkQueueSize \in Nat \ {0}

VARIABLES
    acceptor,       \* what the accepting thread does next
    current,        \* the connection it is registering
    mCount,         \* ConnectionThreads.mCount
    sPoolWorkQueue, \* accepted connections that no thread runs yet
    mThreadName,    \* per connection, Null until it is named
    mConnectionMap, \* name -> connection
    mNetWorkInfos,  \* name -> [remoteIp, status]
    pc,             \* where each ServerConnection.run is
    mConnectStatus, mStopConnection,
    threadName,     \* the name handleAuthorizePackage was called with, while
                    \* it runs
    approved,       \* the connection in whose changeConnectStatus(CONNECTED)
                    \* this connection's thread is, Null when in none
    sent,           \* authorize packages handed to the connection's sender
    silent,         \* the tablet has gone: nothing more will be read
    passed,         \* history: connections authorize() returned true for
    anonymous       \* history: a package was handled without a name

accepting == <<acceptor, current, mCount>>
registered == <<mThreadName, mConnectionMap, mNetWorkInfos>>
flags == <<mConnectStatus, mStopConnection>>
calls == <<threadName, approved>>
history == <<passed, anonymous>>
vars == <<accepting, sPoolWorkQueue, registered, pc, flags, calls, sent,
          silent, history>>

(* A key of a Java map is its class and its value.                         *)
Name(k) == [type |-> "String", value |-> k]
IntegerKey(k) == [type |-> "Integer", value |-> k]
Names == {Name(k) : k \in 1..MAX_THREAD_SIZE}

Status == {"NOT_INIT", "UNAUTHORIZED", "CONNECTED"}
NetWorkInfo == [remoteIp : Conns, status : Status]

ASSUME NullAssumption == Null \notin Names \cup NetWorkInfo

(* The connections handed to the pool, and those its threads are running.  *)
Accepted == {c \in Conns : pc[c] \notin {"new", "rejected"}}
Running == {c \in Accepted : pc[c] \notin {"queued", "done"}}
poolSize == mCount - 1

Init ==
    /\ acceptor = "accept"
    /\ current = Null
    /\ mCount = 1
    /\ sPoolWorkQueue = <<>>
    /\ mThreadName = [c \in Conns |-> Null]
    /\ mConnectionMap = [n \in Names |-> Null]
    /\ mNetWorkInfos = [n \in Names |-> Null]
    /\ pc = [c \in Conns |-> "new"]
    /\ mConnectStatus = [c \in Conns |-> "NOT_INIT"]
    /\ mStopConnection = [c \in Conns |-> FALSE]
    /\ threadName = [c \in Conns |-> Null]
    /\ approved = [c \in Conns |-> Null]
    /\ sent = [c \in Conns |-> {}]
    /\ silent = [c \in Conns |-> FALSE]
    /\ passed = {}
    /\ anonymous = FALSE

-----------------------------------------------------------------------------
(* Slip: the pool grows one thread too far. *)
acceptAndExecute_OffByOne(c) ==
    /\ acceptor = "accept"
    /\ pc[c] = "new"
    /\ poolSize <= MAX_THREAD_SIZE
    /\ mCount' = mCount + 1
    /\ pc' = [pc EXCEPT ![c] = "open"]
    /\ acceptor' = "name"
    /\ current' = c
    /\ UNCHANGED <<sPoolWorkQueue, registered, flags, calls, sent, silent,
                   history>>

(* Slip: startRun catches the pool's exception and goes on.               *)
acceptAndExecute_Caught(c) ==
    /\ acceptor = "accept"
    /\ pc[c] = "new"
    /\ IF poolSize < MAX_THREAD_SIZE
       THEN /\ mCount' = mCount + 1
            /\ pc' = [pc EXCEPT ![c] = "open"]
            /\ UNCHANGED sPoolWorkQueue
       ELSE /\ IF Len(sPoolWorkQueue) < WorkQueueSize
               THEN /\ sPoolWorkQueue' = Append(sPoolWorkQueue, c)
                    /\ pc' = [pc EXCEPT ![c] = "queued"]
               ELSE /\ pc' = [pc EXCEPT ![c] = "rejected"]
                    /\ UNCHANGED sPoolWorkQueue
            /\ UNCHANGED mCount
    /\ acceptor' = "name"
    /\ current' = c
    /\ UNCHANGED <<registered, flags, calls, sent, silent, history>>

(* accept(), then ThreadPoolExecutor.execute: a new thread while there are *)
(* fewer than MAX_THREAD_SIZE, else the queue, else the exception that     *)
(* ends the accepting thread.                                              *)
acceptAndExecute(c) ==
    /\ acceptor = "accept"
    /\ pc[c] = "new"
    /\ \/ /\ poolSize < MAX_THREAD_SIZE
          /\ mCount' = mCount + 1
          /\ pc' = [pc EXCEPT ![c] = "open"]
          /\ acceptor' = "name"
          /\ current' = c
          /\ UNCHANGED sPoolWorkQueue
       \/ /\ poolSize = MAX_THREAD_SIZE
          /\ Len(sPoolWorkQueue) < WorkQueueSize
          /\ sPoolWorkQueue' = Append(sPoolWorkQueue, c)
          /\ pc' = [pc EXCEPT ![c] = "queued"]
          /\ acceptor' = "name"
          /\ current' = c
          /\ UNCHANGED mCount
       \/ /\ poolSize = MAX_THREAD_SIZE
          /\ Len(sPoolWorkQueue) = WorkQueueSize
          /\ pc' = [pc EXCEPT ![c] = "rejected"]
          /\ acceptor' = "dead"
          /\ UNCHANGED <<current, mCount, sPoolWorkQueue>>
    /\ UNCHANGED <<registered, flags, calls, sent, silent, history>>

(* Slip: the connection can be found before onNewConnection lists it. *)
setThreadName_PutsFirst ==
    /\ acceptor = "name"
    /\ mThreadName' = [mThreadName EXCEPT ![current] = Name(mCount - 1)]
    /\ mConnectionMap' = [mConnectionMap EXCEPT ![Name(mCount - 1)] = current]
    /\ acceptor' = "list"
    /\ UNCHANGED <<current, mCount, sPoolWorkQueue, mNetWorkInfos, pc, flags,
                   calls, sent, silent, history>>

(* startRun, continued: the name is the one of the newest pool thread.     *)
setThreadName ==
    /\ acceptor = "name"
    /\ mThreadName' = [mThreadName EXCEPT ![current] = Name(mCount - 1)]
    /\ acceptor' = "list"
    /\ UNCHANGED <<current, mCount, sPoolWorkQueue, mConnectionMap,
                   mNetWorkInfos, pc, flags, calls, sent, silent,
                   history>>

onNewConnection ==
    /\ acceptor = "list"
    /\ mNetWorkInfos' = [mNetWorkInfos EXCEPT ![mThreadName[current]] =
                            [remoteIp |-> current, status |-> "NOT_INIT"]]
    /\ acceptor' = "map"
    /\ UNCHANGED <<current, mCount, sPoolWorkQueue, mThreadName,
                   mConnectionMap, pc, flags, calls, sent, silent,
                   history>>

putConnection ==
    /\ acceptor = "map"
    /\ mConnectionMap' = [mConnectionMap EXCEPT ![mThreadName[current]] =
                             current]
    /\ acceptor' = "accept"
    /\ UNCHANGED <<current, mCount, sPoolWorkQueue, mThreadName, mNetWorkInfos,
                   pc, flags, calls, sent, silent, history>>

(* A pool thread with nothing to run takes the oldest queued connection.   *)
takeFromQueue ==
    /\ sPoolWorkQueue # <<>>
    /\ Cardinality(Running) < poolSize
    /\ pc' = [pc EXCEPT ![Head(sPoolWorkQueue)] = "open"]
    /\ sPoolWorkQueue' = Tail(sPoolWorkQueue)
    /\ UNCHANGED <<accepting, registered, flags, calls, sent, silent,
                   history>>

-----------------------------------------------------------------------------
(* Connection.onConnectionStatutChange of a server.                        *)
onConnectionStatutChange(name, newStatus) ==
    mNetWorkInfos' =
        IF name \in Names /\ mNetWorkInfos[name] # Null
        THEN [mNetWorkInfos EXCEPT ![name].status = newStatus]
        ELSE mNetWorkInfos

(* run(): streams opened both ways, sender started; changeConnectStatus    *)
(* sets the status ...                                                     *)
runOpen(c) ==
    /\ pc[c] = "open"
    /\ ~ silent[c]
    /\ mConnectStatus' = [mConnectStatus EXCEPT ![c] = "UNAUTHORIZED"]
    /\ pc' = [pc EXCEPT ![c] = "opened"]
    /\ UNCHANGED <<accepting, sPoolWorkQueue, registered, mStopConnection,
                   calls, sent, silent, history>>

(* ... and tells the listener, under the name that the connection has by   *)
(* then.  The loop begins.                                                 *)
runOpened(c) ==
    /\ pc[c] = "opened"
    /\ onConnectionStatutChange(mThreadName[c], mConnectStatus[c])
    /\ mStopConnection' = [mStopConnection EXCEPT ![c] = FALSE]
    /\ pc' = [pc EXCEPT ![c] = "test"]
    /\ UNCHANGED <<accepting, sPoolWorkQueue, mThreadName, mConnectionMap,
                   mConnectStatus, calls, sent, silent, history>>

(* Slip: only a failure to open the streams is caught and released. *)
runFails_HeaderOnly(c) ==
    /\ pc[c] = "open"
    /\ silent[c]
    /\ pc' = [pc EXCEPT ![c] = "done"]
    /\ UNCHANGED <<accepting, sPoolWorkQueue, registered, flags, calls,
                   sent, silent, history>>

(* The read of the stream header, or of the next object, fails: by the     *)
(* 15 s timeout or because the tablet closed.  releaseServerSocket.        *)
runFails(c) ==
    /\ pc[c] \in {"open", "reading"}
    /\ silent[c]
    /\ mStopConnection' = IF pc[c] = "reading"
                          THEN [mStopConnection EXCEPT ![c] = TRUE]
                          ELSE mStopConnection
    /\ pc' = [pc EXCEPT ![c] = "done"]
    /\ UNCHANGED <<accepting, sPoolWorkQueue, registered, mConnectStatus,
                   calls, sent, silent, history>>

(* The loop test, and releaseServerSocket in finally when it fails.        *)
runTest(c) ==
    /\ pc[c] = "test"
    /\ pc' = [pc EXCEPT ![c] = IF mStopConnection[c] THEN "done"
                               ELSE "reading"]
    /\ UNCHANGED <<accepting, sPoolWorkQueue, registered, flags, calls,
                   sent, silent, history>>

reading(c) == pc[c] = "reading" /\ ~ silent[c]

(* An authorize package: Connection.handleAuthorizePackage begins.         *)
receiveAuthorize(c) ==
    /\ reading(c)
    /\ threadName' = [threadName EXCEPT ![c] = mThreadName[c]]
    /\ anonymous' = (anonymous \/ mThreadName[c] = Null)
    /\ pc' = [pc EXCEPT ![c] = "authorizing"]
    /\ UNCHANGED <<accepting, sPoolWorkQueue, registered, flags, approved,
                   passed, sent, silent>>

(* A String: ApplicationManager.onDeliverData.  The request to answer a    *)
(* call looks up the tablet's address, CollaborationService.onMessage.     *)
getNetWorkInfo ==
    IF IntegerKey(0) \in Names THEN mNetWorkInfos[IntegerKey(0)] ELSE Null

receiveAnswer(c) ==
    /\ reading(c)
    /\ IF getNetWorkInfo = Null
       THEN /\ mStopConnection' = [mStopConnection EXCEPT ![c] = TRUE]
            /\ pc' = [pc EXCEPT ![c] = "done"]
       ELSE /\ pc' = [pc EXCEPT ![c] = "test"]
            /\ UNCHANGED mStopConnection
    /\ UNCHANGED <<accepting, sPoolWorkQueue, registered, mConnectStatus,
                   calls, sent, silent, history>>

(* A heartbeat, a String that asks for nothing of the connection, or any   *)
(* other object, which ApplicationManager only logs.                       *)
receiveOther(c) ==
    /\ reading(c)
    /\ pc' = [pc EXCEPT ![c] = "test"]
    /\ UNCHANGED <<accepting, sPoolWorkQueue, registered, flags, calls,
                   sent, silent, history>>

-----------------------------------------------------------------------------
(* ServerConnection.sendDataToTarget. *)
canSendData(c) == mConnectStatus[c] \in {"UNAUTHORIZED", "CONNECTED"}

(* Slip: every answer goes to everyone. *)
targets_Everyone(name) ==
    {c \in Conns : /\ \E n \in Names : mConnectionMap[n] = c
                   /\ canSendData(c)}

(* SocketServerConnectionThread.sendDataToTarget: no name means everyone.  *)
targets(name) ==
    {c \in Conns : /\ \E n \in Names : /\ mConnectionMap[n] = c
                                       /\ name = Null \/ name = n
                   /\ canSendData(c)}

sendDataToTarget(name, package) ==
    sent' = [c \in Conns |-> IF c \in targets(name) THEN sent[c] \cup {package}
                             ELSE sent[c]]

getConnection(name) ==
    IF name \in Names THEN mConnectionMap[name] ELSE Null

(* authorize() returns and its answer is sent to the tablet.               *)
sendAuthorizePackage(c, result) ==
    /\ pc[c] = "authorizing"
    /\ passed' = IF result = "pass" THEN passed \cup {c} ELSE passed
    /\ sendDataToTarget(threadName[c], result)
    /\ pc' = [pc EXCEPT ![c] = result]
    /\ UNCHANGED <<accepting, sPoolWorkQueue, registered, flags, calls,
                   silent, anonymous>>

(* handleAuthorizePackage returns to the read loop. *)
handled(c) ==
    /\ pc' = [pc EXCEPT ![c] = "test"]
    /\ threadName' = [threadName EXCEPT ![c] = Null]
    /\ UNCHANGED <<accepting, sPoolWorkQueue, mThreadName, mConnectionMap,
                   mConnectStatus, sent, silent, history>>

stopConnection(c) ==
    /\ pc[c] = "failed"
    /\ LET t == getConnection(threadName[c])
       IN  mStopConnection' = IF t = Null THEN mStopConnection
                              ELSE [mStopConnection EXCEPT ![t] = TRUE]
    /\ handled(c)
    /\ UNCHANGED <<mNetWorkInfos, approved>>

(* A connection that cannot be found by the name is not approved. *)
passUnfound(c) ==
    /\ pc[c] = "pass"
    /\ getConnection(threadName[c]) = Null
    /\ handled(c)
    /\ UNCHANGED <<mStopConnection, mNetWorkInfos, approved>>

(* The connection's status changes, changeConnectStatus(CONNECTED) ...     *)
setAutorizeCheckPass(c) ==
    /\ pc[c] = "pass"
    /\ LET t == getConnection(threadName[c])
       IN  /\ t # Null
           /\ mStopConnection' = [mStopConnection EXCEPT ![t] = FALSE]
           /\ mConnectStatus' = [mConnectStatus EXCEPT ![t] = "CONNECTED"]
           /\ approved' = [approved EXCEPT ![c] = t]
    /\ pc' = [pc EXCEPT ![c] = "approving"]
    /\ UNCHANGED <<accepting, sPoolWorkQueue, registered, threadName, sent,
                   silent, history>>

(* ... and then the list of the application, through the listener.         *)
reportApproved(c) ==
    /\ pc[c] = "approving"
    /\ onConnectionStatutChange(mThreadName[approved[c]],
                                mConnectStatus[approved[c]])
    /\ approved' = [approved EXCEPT ![c] = Null]
    /\ handled(c)
    /\ UNCHANGED mStopConnection

(* The tablet closes, crashes or leaves the network.                       *)
tabletGoes(c) ==
    /\ pc[c] # "done"
    /\ ~ silent[c]
    /\ silent' = [silent EXCEPT ![c] = TRUE]
    /\ UNCHANGED <<accepting, sPoolWorkQueue, registered, pc, flags,
                   calls, sent, history>>

-----------------------------------------------------------------------------
SocketServerConnectionThread ==
    \/ \E c \in Conns : acceptAndExecute(c)
    \/ setThreadName \/ onNewConnection \/ putConnection

verdictArrives(c) ==
    \E result \in {"pass", "failed"} : sendAuthorizePackage(c, result)

ServerConnection(c) ==
    \/ runOpen(c) \/ runOpened(c) \/ runFails(c) \/ runTest(c)
    \/ stopConnection(c) \/ passUnfound(c)
    \/ setAutorizeCheckPass(c) \/ reportApproved(c)

Next ==
    \/ SocketServerConnectionThread
    \/ takeFromQueue
    \/ \E c \in Conns :
          \/ ServerConnection(c)
          \/ verdictArrives(c)
          \/ receiveAuthorize(c) \/ receiveAnswer(c) \/ receiveOther(c)
          \/ tabletGoes(c)

Spec == Init /\ [][Next]_vars

(* Threads that can run do run.  Neither the user, who gives the verdicts, *)
(* nor the tablets are obliged to anything.                                *)
Fairness ==
    /\ WF_vars(setThreadName \/ onNewConnection \/ putConnection)
    /\ WF_vars(takeFromQueue)
    /\ \A c \in Conns : WF_vars(ServerConnection(c))

FairSpec == Spec /\ Fairness

-----------------------------------------------------------------------------
(* The type of the state. *)
TypeOK ==
    /\ acceptor \in {"accept", "name", "list", "map", "dead"}
    /\ current \in Conns \cup {Null}
    /\ mCount \in 1..(MAX_THREAD_SIZE + 1)
    /\ sPoolWorkQueue \in Seq(Conns)
    /\ Len(sPoolWorkQueue) <= WorkQueueSize
    /\ mThreadName \in [Conns -> Names \cup {Null}]
    /\ mConnectionMap \in [Names -> Conns \cup {Null}]
    /\ mNetWorkInfos \in [Names -> NetWorkInfo \cup {Null}]
    /\ pc \in [Conns -> {"new", "rejected", "queued", "open", "opened",
                         "test", "reading", "authorizing", "pass",
                         "approving", "failed", "done"}]
    /\ mConnectStatus \in [Conns -> Status]
    /\ mStopConnection \in [Conns -> BOOLEAN]
    /\ threadName \in [Conns -> Names \cup {Null}]
    /\ approved \in [Conns -> Conns \cup {Null}]
    /\ sent \in [Conns -> SUBSET {"pass", "failed"}]
    /\ silent \in [Conns -> BOOLEAN]
    /\ passed \in SUBSET Conns
    /\ anonymous \in BOOLEAN

(* As long as no connection had to share a pool thread's name, a           *)
(* connection is CONNECTED only by the verdict on its own device, and only *)
(* a device that passed is told that it passed, provided every connection  *)
(* was named before its first package came.                                *)
VerdictsStayApart ==
    Cardinality(Accepted) <= MAX_THREAD_SIZE =>
        \A c \in Conns :
            /\ mConnectStatus[c] = "CONNECTED" => c \in passed
            /\ "pass" \in sent[c] /\ ~ anonymous => c \in passed

(* A connection that is CONNECTED is listed under its own address, and its *)
(* status there is CONNECTED as well, except while the thread that changed *)
(* it has still to tell the listener: onNewConnection comes before the     *)
(* connection can be found in mConnectionMap, and no report of the status  *)
(* before overwrites the one of the approval.                              *)
ConnectedIsListed ==
    Cardinality(Accepted) <= MAX_THREAD_SIZE =>
        \A c \in Conns : mConnectStatus[c] = "CONNECTED" =>
            /\ mThreadName[c] # Null
            /\ mNetWorkInfos[mThreadName[c]] # Null
            /\ mNetWorkInfos[mThreadName[c]].remoteIp = c
            /\ \/ mNetWorkInfos[mThreadName[c]].status = "CONNECTED"
               \/ \E d \in Conns : approved[d] = c

(* A connection that the full pool turns away leaves no trace behind: the  *)
(* exception leaves startRun before the connection is named, so it takes   *)
(* nobody's place in mConnectionMap or mNetWorkInfos, nothing is put into  *)
(* its sender, and no verdict ever reaches it.                             *)
TurnedAwayLeavesNoTrace ==
    \A c \in Conns : pc[c] = "rejected" =>
        /\ mThreadName[c] = Null
        /\ \A n \in Names :
              /\ mConnectionMap[n] # c
              /\ mNetWorkInfos[n] = Null \/ mNetWorkInfos[n].remoteIp # c
        /\ mConnectStatus[c] = "NOT_INIT"
        /\ sent[c] = {}

(* A tablet that disappears gives its pool thread back by the read         *)
(* timeout, unless the thread is blocked in authorize().                   *)
SilenceFreesThread ==
    \A c \in Conns :
        (/\ silent[c]
         /\ pc[c] \in {"open", "opened", "test", "reading", "pass",
                       "approving", "failed"})
            ~> (pc[c] = "done")

(* A queued connection is served once every tablet before it has gone and  *)
(* every pending authorization is answered: no pool thread is lost.        *)
QueueIsServed ==
    (\A c \in Conns : <>silent[c] /\ []<>(pc[c] # "authorizing")) =>
        \A c \in Conns : pc[c] = "queued" ~> pc[c] = "done"
=============================================================================
