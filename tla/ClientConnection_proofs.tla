----------------------- MODULE ClientConnection_proofs -----------------------
(***************************************************************************)
(* What the tablet's Connection guarantees for any number of connection    *)
(* threads: the status it shows is never that of a connection nobody       *)
(* holds, a thread is started again only when it was let in meanwhile, the *)
(* current thread has asked to be authorized, and a thread that ended      *)
(* stays ended.                                                            *)
(***************************************************************************)
EXTENDS ClientConnection, TLAPS

(* Where run() is determines what the thread's status can be. *)
StatusByPlace ==
    \A t \in Threads :
        /\ pc[t] \in {"none", "created", "begin", "connect"} =>
              mConnectStatus[t] = "NOT_INIT"
        /\ pc[t] = "authorize" => mConnectStatus[t] = "UNAUTHORIZED"
        /\ pc[t] \in {"test", "reading"} =>
              mConnectStatus[t] \in {"UNAUTHORIZED", "CONNECTED"}
        /\ pc[t] = "report" => mConnectStatus[t] # "NOT_INIT"
        /\ pc[t] = "finally" => mConnectStatus[t] # "DISCONNECTED"
        /\ pc[t] = "done" => mConnectStatus[t] = "DISCONNECTED"

(* A call past its check finds a current thread, and a process that        *)
(* crashed makes no more calls.                                            *)
CallsHaveThread ==
    /\ announced # "idle" \/ main = "stop" => mSocketClientThread # Null
    /\ announced = "crashed" => main = "killed"
    /\ \A t \in Threads : pc[t] = "killed" => announced = "crashed"

(* The current thread has asked before it reaches its loop, and keeps      *)
(* having asked while it reports that it was let in.                       *)
Asked ==
    \A t \in Threads :
        (/\ t = mSocketClientThread
         /\ \/ pc[t] \in {"test", "reading"}
            \/ pc[t] = "report" /\ mConnectStatus[t] = "CONNECTED")
        => t \in authorize

IInv ==
    /\ TypeOK
    /\ StatusByPlace
    /\ CallsHaveThread
    /\ StartedAgainOnlyIfLetIn
    /\ Asked
    /\ NoGhostConnection

-----------------------------------------------------------------------------
(* Init of ClientConnection satisfies the inductive invariant. *)
LEMMA InitIInv == Init => IInv
  BY ThreadsAssumption
  DEF Init, IInv, TypeOK, StatusByPlace, CallsHaveThread,
      StartedAgainOnlyIfLetIn, Asked, NoGhostConnection, Status,
      NetWorkStatus, checkPort

(* Every step of ClientConnection keeps the types. *)
LEMMA TypeStep ==
    ASSUME IInv, [Next]_vars
    PROVE  TypeOK'
<1> USE ThreadsAssumption DEF IInv, TypeOK, StartedAgainOnlyIfLetIn,
                              CallsHaveThread, NetWorkStatus
<1>1. CASE UNCHANGED vars
  BY <1>1 DEF vars, connection, calls, flags
<1>2. CASE start \/ stop \/ onBroadcast \/ onBroadcastKeep
  BY <1>2 DEF start, stop, onBroadcast, onBroadcastKeep, connection, flags
<1>3. CASE stopRuning
  BY <1>3 DEF stopRuning, connection
<1>4. CASE startConnection \/ startConnectionAgain
  BY <1>4 DEF startConnection, startConnectionAgain, connection, flags
<1>5. ASSUME NEW t \in Threads, init(t) \/ onBroadcastReplace(t) PROVE TypeOK'
  BY <1>5 DEF init, onBroadcastReplace, replace, flags
<1>6. ASSUME NEW t \in Threads, onConnectionStatutChange(t) PROVE TypeOK'
  BY <1>6 DEF onConnectionStatutChange, calls, flags, afterReport
<1>7. ASSUME NEW t \in Threads, sendDataToTargetInner(t) PROVE TypeOK'
  <2>1. mSocketClientThread \in Threads
    BY <1>7 DEF sendDataToTargetInner
  <2> QED
    BY <1>7, <2>1 DEF sendDataToTargetInner, connection, calls, flags
<1>8. ASSUME NEW t \in Threads,
             runConnect(t) \/ runFinally(t) \/ receivePass(t)
      PROVE  TypeOK'
  BY <1>8 DEF runConnect, runFinally, receivePass, answered,
              changeConnectStatus, connection, calls, Status
<1>9. ASSUME NEW t \in Threads,
             initRunningArgument(t) \/ runTest(t) \/ runFails(t)
      PROVE  TypeOK'
  BY <1>9 DEF initRunningArgument, runTest, runFails, connection, calls, flags
<1>10. ASSUME NEW t \in Threads,
              receiveFailed(t) \/ receiveOther(t) \/ phoneGoes(t)
       PROVE  TypeOK'
  BY <1>10 DEF receiveFailed, answered, receiveOther, phoneGoes, connection,
               calls, flags, Alive
<1> QED
  BY <1>1, <1>2, <1>3, <1>4, <1>5, <1>6, <1>7, <1>8, <1>9, <1>10
  DEF Next, run, receive

(* Every step keeps the relation between a thread's place and its status,  *)
(* and the calls that are past their check keep a thread to work on.       *)
LEMMA PlaceStep ==
    ASSUME IInv, [Next]_vars
    PROVE  StatusByPlace' /\ CallsHaveThread' /\ StartedAgainOnlyIfLetIn'
<1> USE ThreadsAssumption
    DEF IInv, TypeOK, StatusByPlace, StartedAgainOnlyIfLetIn, CallsHaveThread,
        Status
<1> DEFINE Goal ==
      StatusByPlace' /\ CallsHaveThread' /\ StartedAgainOnlyIfLetIn'
<1>1. CASE UNCHANGED vars
  BY <1>1 DEF vars, connection, calls, flags
<1>2. CASE start \/ stop \/ onBroadcast \/ onBroadcastKeep
  <2>1. mSocketClientThread # Null \/ start
    <3>1. CASE stop
      <4>1. \E t \in Threads : pc[t] # "none"
        BY <3>1 DEF stop, NoGhostConnection, Alive
      <4> QED BY <4>1
    <3> QED BY <1>2, <3>1 DEF onBroadcast, onBroadcastKeep
  <2>2. CASE start \/ stop \/ onBroadcast
    BY <2>1, <2>2 DEF start, stop, onBroadcast, connection, flags
  <2>3. CASE onBroadcastKeep
    BY <2>3 DEF onBroadcastKeep, isConnected, connection, flags
  <2> QED BY <1>2, <2>2, <2>3
<1>3. CASE stopRuning
  BY <1>3 DEF stopRuning, connection
<1>4. CASE startConnection \/ startConnectionAgain
  BY <1>4 DEF startConnection, startConnectionAgain, connection, flags
<1>5. ASSUME NEW t \in Threads, init(t) \/ onBroadcastReplace(t) PROVE Goal
  BY <1>5 DEF init, onBroadcastReplace, replace, flags
<1>6. ASSUME NEW t \in Threads, onConnectionStatutChange(t) PROVE Goal
  BY <1>6 DEF onConnectionStatutChange, calls, flags, afterReport
<1>7. ASSUME NEW t \in Threads, sendDataToTargetInner(t) PROVE Goal
  BY <1>7 DEF sendDataToTargetInner, connection, calls, flags
<1>8. ASSUME NEW t \in Threads,
             runConnect(t) \/ runFinally(t) \/ receivePass(t)
      PROVE  Goal
  BY <1>8 DEF runConnect, runFinally, receivePass, answered,
              changeConnectStatus, connection, calls
<1>9. ASSUME NEW t \in Threads,
             \/ initRunningArgument(t) \/ runTest(t) \/ runFails(t)
             \/ receiveFailed(t) \/ receiveOther(t) \/ phoneGoes(t)
      PROVE  Goal
  BY <1>9 DEF initRunningArgument, runTest, runFails, receiveFailed, answered,
              receiveOther, phoneGoes, connection, calls, flags, Alive
<1> QED
  BY <1>1, <1>2, <1>3, <1>4, <1>5, <1>6, <1>7, <1>8, <1>9
  DEF Next, run, receive

(* Every step leaves the current thread having asked. *)
LEMMA AskedStep ==
    ASSUME IInv, [Next]_vars
    PROVE  Asked'
<1> USE ThreadsAssumption DEF IInv, TypeOK, StatusByPlace, Asked,
                              StartedAgainOnlyIfLetIn
<1>1. CASE UNCHANGED vars
  BY <1>1 DEF vars, connection, calls, flags
<1>2. CASE start \/ stop \/ onBroadcast \/ onBroadcastKeep
  BY <1>2 DEF start, stop, onBroadcast, onBroadcastKeep, connection, flags
<1>3. CASE stopRuning
  BY <1>3 DEF stopRuning, connection
<1>4. CASE startConnection \/ startConnectionAgain
  BY <1>4 DEF startConnection, startConnectionAgain, connection, flags
<1>5. ASSUME NEW t \in Threads, init(t) \/ onBroadcastReplace(t) PROVE Asked'
  BY <1>5 DEF init, onBroadcastReplace, replace, flags
<1>6. ASSUME NEW t \in Threads, onConnectionStatutChange(t) PROVE Asked'
  BY <1>6 DEF onConnectionStatutChange, calls, flags, afterReport, Status
<1>7. ASSUME NEW t \in Threads, sendDataToTargetInner(t) PROVE Asked'
  BY <1>7 DEF sendDataToTargetInner, connection, calls, flags, canSendData
<1>8. ASSUME NEW t \in Threads,
             runConnect(t) \/ runFinally(t) \/ receivePass(t)
      PROVE  Asked'
  BY <1>8 DEF runConnect, runFinally, receivePass, answered,
              changeConnectStatus, connection, calls
<1>9. ASSUME NEW t \in Threads,
             \/ initRunningArgument(t) \/ runTest(t) \/ runFails(t)
             \/ receiveFailed(t) \/ receiveOther(t) \/ phoneGoes(t)
      PROVE  Asked'
  BY <1>9 DEF initRunningArgument, runTest, runFails, receiveFailed, answered,
              receiveOther, phoneGoes, connection, calls, flags, Alive
<1> QED
  BY <1>1, <1>2, <1>3, <1>4, <1>5, <1>6, <1>7, <1>8, <1>9
  DEF Next, run, receive

(* The witness of a CONNECTED status survives every step that does not     *)
(* itself overwrite the status.                                            *)
LEMMA GhostStep ==
    ASSUME IInv, [Next]_vars
    PROVE  NoGhostConnection'
<1> USE ThreadsAssumption
    DEF IInv, TypeOK, StatusByPlace, NoGhostConnection, Alive
<1> SUFFICES ASSUME mNetWorkInfo' = "CONNECTED", announced' # "crashed"
             PROVE  \E t \in Threads :
                       /\ pc'[t] \notin {"none", "created", "done", "killed"}
                       /\ mConnectStatus'[t] \in {"CONNECTED", "DISCONNECTED"}
  OBVIOUS
<1>1. ASSUME NEW t \in Threads, onConnectionStatutChange(t)
      PROVE  /\ pc'[t] \notin {"none", "created", "done", "killed"}
             /\ mConnectStatus'[t] = "CONNECTED"
  BY <1>1 DEF onConnectionStatutChange, flags, afterReport
<1>0. announced # "crashed"
  <2>1. CASE announced' = announced
    BY <2>1
  <2>2. CASE announced' # announced
    BY <2>2
    DEF Next, run, receive, vars, connection, calls, start, stop, onBroadcast,
        onBroadcastKeep, stopRuning, startConnection, startConnectionAgain,
        init, onBroadcastReplace, replace, sendDataToTargetInner, runConnect,
        runFinally, receivePass, initRunningArgument, runTest, runFails,
        receiveFailed, receiveOther, phoneGoes, onConnectionStatutChange
  <2> QED BY <2>1, <2>2
<1>2. CASE UNCHANGED mNetWorkInfo
  <2>1. PICK w \in Threads :
           /\ pc[w] \notin {"none", "created", "done", "killed"}
           /\ mConnectStatus[w] \in {"CONNECTED", "DISCONNECTED"}
    BY <1>0, <1>2
  <2> DEFINE Kept == /\ pc'[w] \notin {"none", "created", "done", "killed"}
                     /\ mConnectStatus'[w] \in {"CONNECTED", "DISCONNECTED"}
  <2>2. pc[w] \notin {"begin", "connect", "authorize"}
    BY <2>1
  <2>3. CASE \/ UNCHANGED vars \/ start \/ stop
             \/ onBroadcast \/ onBroadcastKeep
             \/ stopRuning \/ startConnection \/ startConnectionAgain
    BY <2>1, <2>2, <2>3
    DEF vars, connection, calls, flags, start, stop, onBroadcast,
        onBroadcastKeep, stopRuning, startConnection, startConnectionAgain
  <2>4. ASSUME NEW t \in Threads, init(t) \/ onBroadcastReplace(t) PROVE Kept
    BY <2>1, <2>4 DEF init, onBroadcastReplace, replace, flags
  <2>5. ASSUME NEW t \in Threads, sendDataToTargetInner(t) PROVE Kept
    BY <2>1, <2>5 DEF sendDataToTargetInner, flags
  <2>6. ASSUME NEW t \in Threads,
               runConnect(t) \/ runFinally(t) \/ receivePass(t)
        PROVE  Kept
    BY <2>1, <2>2, <2>6
    DEF runConnect, runFinally, receivePass, answered, changeConnectStatus
  <2>7. ASSUME NEW t \in Threads,
               \/ initRunningArgument(t) \/ runTest(t) \/ runFails(t)
               \/ receiveFailed(t) \/ receiveOther(t) \/ phoneGoes(t)
        PROVE  Kept
    BY <2>1, <2>7
    DEF initRunningArgument, runTest, runFails, receiveFailed, answered,
        receiveOther, phoneGoes, flags
  <2> QED
    BY <1>1, <2>3, <2>4, <2>5, <2>6, <2>7 DEF Next, run, receive
<1>3. CASE mNetWorkInfo' # mNetWorkInfo
  <2>1. PICK t \in Threads : onConnectionStatutChange(t)
    BY <1>3
    DEF Next, run, receive, vars, connection, start, stop, onBroadcast,
        onBroadcastKeep, stopRuning, startConnection, startConnectionAgain,
        init, onBroadcastReplace, replace, sendDataToTargetInner, runConnect,
        runFinally, receivePass, initRunningArgument, runTest, runFails,
        receiveFailed, receiveOther, phoneGoes
  <2> QED BY <1>1, <2>1
<1> QED BY <1>2, <1>3

(* The inductive invariant holds throughout every behaviour. *)
THEOREM Inductive == Spec => []IInv
<1>1. IInv /\ [Next]_vars => IInv'
  BY TypeStep, PlaceStep, AskedStep, GhostStep DEF IInv
<1> QED
  BY InitIInv, <1>1, PTL DEF Spec

-----------------------------------------------------------------------------
(* Connection's fields and its threads keep their types, and a thread      *)
(* exists only once start() has set the current one.                       *)
THEOREM Typing == Spec => []TypeOK
<1>1. IInv => TypeOK
  BY DEF IInv
<1> QED
  BY Inductive, <1>1, PTL

(* The status getNetWorkInfo() returns is CONNECTED only while some thread *)
(* is connected or about to report its end, whatever threads were          *)
(* replaced.                                                               *)
THEOREM NoGhosts == Spec => []NoGhostConnection
<1>1. IInv => NoGhostConnection
  BY DEF IInv
<1> QED
  BY Inductive, <1>1, PTL

(* startConnection meets a thread that was started before only when that   *)
(* thread was let in after the first of the two tests, however start()     *)
(* and other announcements replace threads meanwhile.                      *)
THEOREM StartedAgainIsLetIn == Spec => []StartedAgainOnlyIfLetIn
<1>1. IInv => StartedAgainOnlyIfLetIn
  BY DEF IInv
<1> QED
  BY Inductive, <1>1, PTL

(* The current thread asks to be authorized before it waits for data,      *)
(* although onConnectionStatutChange does not say which thread reports.    *)
THEOREM CurrentAsks == Spec => []CurrentThreadHasAsked
<1>1. IInv => CurrentThreadHasAsked
  BY DEF IInv, Asked, CurrentThreadHasAsked
<1> QED
  BY Inductive, <1>1, PTL

(* No late PASS revives a thread that reported DISCONNECTED, and none      *)
(* authorizes a thread that has not connected.                             *)
THEOREM EndedThreadsStayEnded == Spec => NoRevival
<1> DEFINE Step ==
      \A t \in Threads :
          /\ mConnectStatus[t] = "DISCONNECTED" =>
                mConnectStatus'[t] = "DISCONNECTED"
          /\ mConnectStatus'[t] = "CONNECTED" =>
                mConnectStatus[t] \in {"UNAUTHORIZED", "CONNECTED"}
<1>1. ASSUME IInv, [Next]_vars PROVE [Step]_vars
  <2> USE <1>1 DEF IInv, TypeOK, StatusByPlace
  <2>1. ASSUME NEW t \in Threads,
               runConnect(t) \/ runFinally(t) \/ receivePass(t)
        PROVE  Step
    BY <2>1
    DEF runConnect, runFinally, receivePass, answered, changeConnectStatus
  <2>2. CASE UNCHANGED mConnectStatus
    BY <2>2 DEF Status, StatusByPlace
  <2> QED
    BY <1>1, <2>1, <2>2
    DEF Next, run, receive, vars, flags, start, stop, onBroadcast,
        onBroadcastKeep, stopRuning, startConnection, startConnectionAgain,
        init, onBroadcastReplace, replace, onConnectionStatutChange,
        sendDataToTargetInner, initRunningArgument, runTest, runFails,
        receiveFailed, receiveOther, phoneGoes
<1> QED
  BY Inductive, <1>1, PTL DEF Spec, NoRevival
-----------------------------------------------------------------------------
(* Until a live thread is replaced, only the current thread is alive, and  *)
(* without a current thread nothing was ever reported.                     *)
OneThread ==
    /\ \A t \in Threads :
          pc[t] \notin {"none", "created", "done", "killed"} =>
             t = mSocketClientThread
    /\ mSocketClientThread = Null =>
          mNetWorkInfo \in {"NOT_INIT", "ERROR_CONFLICT"}
    /\ mSocketClientThread # Null =>
          LET t == mSocketClientThread
          IN  \/ pc[t] \in {"report", "killed"}
              \/ mNetWorkInfo = mConnectStatus[t]
              \/ /\ mConnectStatus[t] = "NOT_INIT"
                 /\ mNetWorkInfo \in {"DISCONNECTED", "ERROR_CONFLICT"}

(* Every step keeps that, unless it replaces a thread that is alive.       *)
LEMMA OneThreadStep ==
    ASSUME IInv, ~ overlap => OneThread, [Next]_vars, ~ overlap'
    PROVE  OneThread'
<1> USE ThreadsAssumption
    DEF IInv, TypeOK, StatusByPlace, CallsHaveThread, StartedAgainOnlyIfLetIn
<1>1. ASSUME NEW t \in Threads, init(t) \/ onBroadcastReplace(t)
      PROVE  ~ overlap /\ Alive = {} /\ replace(t)
  BY <1>1 DEF init, onBroadcastReplace, replace
<1>2. ~ overlap
  BY <1>1
  DEF Next, run, receive, vars, start, stop, onBroadcast, onBroadcastKeep,
      stopRuning, startConnection, startConnectionAgain,
      onConnectionStatutChange, sendDataToTargetInner, runConnect, runFinally,
      receivePass, initRunningArgument, runTest, runFails, receiveFailed,
      receiveOther, phoneGoes
<1>3. OneThread
  BY <1>2
<1> USE DEF OneThread
<1>4. CASE \/ UNCHANGED vars \/ start \/ stop
           \/ onBroadcast \/ onBroadcastKeep \/ stopRuning
  BY <1>3, <1>4
  DEF vars, connection, flags, start, stop, onBroadcast, onBroadcastKeep,
      stopRuning
<1>5. CASE startConnection \/ startConnectionAgain
  BY <1>3, <1>5 DEF startConnection, startConnectionAgain, connection, flags
<1>6. ASSUME NEW t \in Threads, init(t) \/ onBroadcastReplace(t)
      PROVE  OneThread'
  <2>1. \A u \in Threads : pc[u] \in {"none", "created", "done", "killed"}
    BY <1>1, <1>6 DEF Alive
  <2>2. mNetWorkInfo \in {"NOT_INIT", "DISCONNECTED", "ERROR_CONFLICT"}
    <3>1. \A u \in Threads : pc[u] # "killed"
      BY <1>6 DEF init, onBroadcastReplace
    <3> QED BY <1>3, <2>1, <3>1
  <2> QED
    BY <1>1, <1>6, <2>1, <2>2 DEF replace, flags
<1>7. ASSUME NEW t \in Threads, onConnectionStatutChange(t) PROVE OneThread'
  BY <1>3, <1>7 DEF onConnectionStatutChange, flags, afterReport
<1>8. ASSUME NEW t \in Threads,
             runConnect(t) \/ runFinally(t) \/ receivePass(t)
      PROVE  OneThread'
  BY <1>3, <1>8
  DEF runConnect, runFinally, receivePass, answered, changeConnectStatus,
      connection
<1>9. ASSUME NEW t \in Threads,
             \/ sendDataToTargetInner(t) \/ initRunningArgument(t)
             \/ runTest(t) \/ runFails(t) \/ receiveFailed(t)
             \/ receiveOther(t) \/ phoneGoes(t)
      PROVE  OneThread'
  BY <1>3, <1>9
  DEF sendDataToTargetInner, initRunningArgument, runTest, runFails,
      receiveFailed, answered, receiveOther, phoneGoes, connection, flags
<1> QED
  BY <1>4, <1>5, <1>6, <1>7, <1>8, <1>9 DEF Next, run, receive

(* While no thread was replaced alive, the status the application sees is  *)
(* the current thread's, or the one left by the thread before it.          *)
THEOREM StatusIsCurrent == Spec => []StatusOfCurrentThread
<1> DEFINE Inv == ~ overlap => OneThread
<1>1. Init => Inv
  BY DEF Init, OneThread, checkPort
<1>2. IInv /\ Inv /\ [Next]_vars => Inv'
  BY OneThreadStep
<1>3. Inv => StatusOfCurrentThread
  BY DEF OneThread, StatusOfCurrentThread
<1> QED
  BY <1>1, <1>2, <1>3, Inductive, PTL DEF Spec
=============================================================================
