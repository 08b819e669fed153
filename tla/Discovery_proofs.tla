-------------------------- MODULE Discovery_proofs --------------------------
(***************************************************************************)
(* Proofs about Discovery, for any number of starts of the tablet and any  *)
(* number of repeated queries.                                             *)
(***************************************************************************)
EXTENDS Discovery, TLAPS

(* The type of the state, the four flags of the tablet and the network     *)
(* apart.                                                                  *)
ThreadTypes ==
    /\ mBroadcastReceiveThread \in Gens
    /\ mBroadcastSenderThread \in Gens
    /\ main \in {"idle", "check", "close", "crashed"}
    /\ receiver \in [Gens -> {"none", "bind", "bound", "runs", "receive",
                              "deliver", "done", "failed"}]
    /\ socket \in [Gens -> {"null", "open", "closed"}]
    /\ mThreadRuning \in [Gens -> BOOLEAN]
    /\ mStopReceive \in [Gens -> BOOLEAN]
    /\ sender \in [Gens -> {"none", "loop", "waiting", "done"}]
    /\ mBroadcastTasks \in [Gens -> Nat]
    /\ mThreadStop \in [Gens -> BOOLEAN]
    /\ net \in SUBSET {"query", "announce"}
    /\ stopped \in SUBSET Tablet

Flags ==
    /\ mNetWorkInfo \in BOOLEAN
    /\ mServerIp \in BOOLEAN
    /\ hasty \in BOOLEAN
    /\ lost \in BOOLEAN

(* Threads come into being with start().  A receiver has no socket before  *)
(* it is bound, keeps it in the field as long as it runs, and can be told  *)
(* to stop only after it has said that it runs.                            *)
Lives ==
    /\ \A g \in Tablet : g > mBroadcastReceiveThread <=> receiver[g] = "none"
    /\ \A g \in Gens :
          /\ receiver[g] \in {"none", "bind"} => socket[g] = "null"
          /\ receiver[g] \in {"bound", "runs", "receive", "deliver"} =>
                socket[g] # "null"
          /\ receiver[g] = "none" => mBroadcastTasks[g] = 0
          /\ mThreadRuning[g] => receiver[g] \in {"runs", "receive", "deliver"}
          /\ mStopReceive[g] => receiver[g] \notin {"none", "bind", "bound"}

(* The tablet connects, and can therefore be stopped, only after one of    *)
(* its own threads was told the phone's address.                           *)
Told ==
    /\ mServerIp => mBroadcastReceiveThread # 0
    /\ mNetWorkInfo => mServerIp
    /\ main # "idle" => mServerIp

LEMMA GensFacts ==
    /\ Gens \subseteq Nat /\ Tablet \subseteq Gens /\ Tablet \subseteq Nat
    /\ Phone \in Gens /\ Phone = 0 /\ 0 \notin Tablet
    /\ \A g \in Gens : g # 0 => g \in Tablet
BY BoundsAssumption DEF Gens, Tablet, Phone

LEMMA NewGeneration ==
    ASSUME mBroadcastReceiveThread \in Gens, mBroadcastReceiveThread < MaxStarts
    PROVE  mBroadcastReceiveThread + 1 \in Tablet
BY BoundsAssumption DEF Gens, Tablet, Phone

LEMMA InitialStates == Init => ThreadTypes /\ Lives /\ Told
<1> SUFFICES ASSUME Init PROVE ThreadTypes /\ Lives /\ Told
  OBVIOUS
<1>1. ThreadTypes
  BY GensFacts DEF Init, ThreadTypes
<1>2. Lives
  BY GensFacts DEF Init, Lives
<1>3. Told
  BY DEF Init, Told
<1> QED
  BY <1>1, <1>2, <1>3

LEMMA ThreadTypesStep ==
    ThreadTypes /\ Told /\ [Next]_vars => ThreadTypes'
<1> SUFFICES ASSUME ThreadTypes, Told, [Next]_vars PROVE ThreadTypes'
  OBVIOUS
<1> USE GensFacts DEF ThreadTypes
<1>1. CASE startServer
  BY <1>1 DEF startServer, startPair, connection, history
<1>2. CASE startClient
  BY <1>2, NewGeneration DEF startClient, startPair, history
<1>3. CASE stop
  BY <1>3 DEF stop, stopThread, history, Told
<1>4. CASE stopReceiveCheck
  BY <1>4 DEF stopReceiveCheck, stopThread, receivers, history
<1>5. CASE stopReceiveClose
  <2>1. mBroadcastReceiveThread \in Tablet
    BY <1>5 DEF stopReceiveClose, Told
  <2> QED
    BY <1>5, <2>1 DEF stopReceiveClose, stopThread, history
<1>6. CASE onConnectionStatutChange
  BY <1>6 DEF onConnectionStatutChange, receivers, senders, history
<1>7. ASSUME NEW g \in Gens, SenderEnds(g) \/ SenderWait(g) PROVE ThreadTypes'
  BY <1>7 DEF SenderEnds, SenderWait, connection, receivers, history
<1>8. ASSUME NEW g \in Gens, sendBroadcast(g) PROVE ThreadTypes'
  <2>1. mBroadcastTasks[g] \in Nat /\ mBroadcastTasks[g] - 1 \in Nat
    BY <1>8 DEF sendBroadcast
  <2>2. mBroadcastTasks' \in [Gens -> Nat]
    BY <1>8, <2>1 DEF sendBroadcast
  <2>3. net' \in SUBSET {"query", "announce"}
    BY <1>8 DEF sendBroadcast, Sends
  <2> QED
    BY <1>8, <2>2, <2>3 DEF sendBroadcast, connection, receivers
<1>9. ASSUME NEW g \in Gens, ReceiverBind(g) PROVE ThreadTypes'
  BY <1>9 DEF ReceiverBind, receiverFinally, connection, senders, history
<1>10. ASSUME NEW g \in Gens, ReceiverRuning(g) \/ ReceiverNotStopped(g) PROVE ThreadTypes'
  BY <1>10 DEF ReceiverRuning, ReceiverNotStopped, connection, senders,
               history
<1>11. ASSUME NEW g \in Gens, Receive(g) PROVE ThreadTypes'
  BY <1>11 DEF Receive, Hears, connection, senders, history
<1>12. ASSUME NEW g \in Gens, ReceiveFails(g) PROVE ThreadTypes'
  BY <1>12 DEF ReceiveFails, receiverFinally, connection, senders, history
<1>13. ASSUME NEW g \in Gens, onNewDataReceived(g) PROVE ThreadTypes'
  <2>1. mBroadcastTasks' \in [Gens -> Nat]
    BY <1>13 DEF onNewDataReceived, addBroadcastTask
  <2>2. sender' \in [Gens -> {"none", "loop", "waiting", "done"}]
    BY <1>13 DEF onNewDataReceived, addBroadcastTask
  <2> QED
    BY <1>13, <2>1, <2>2
       DEF onNewDataReceived, receiverTest, receiverFinally
<1>14. ASSUME NEW kind \in {"query", "announce"}, Lose(kind) \/ Vanish(kind)
      PROVE  ThreadTypes'
  BY <1>14 DEF Lose, Vanish, connection, receivers, senders,
               history
<1>15. CASE UNCHANGED vars
  BY <1>15 DEF vars, connection, receivers, senders, history
<1> QED
  BY <1>1, <1>2, <1>3, <1>4, <1>5, <1>6, <1>7, <1>8, <1>9, <1>10,
     <1>11, <1>12, <1>13, <1>14, <1>15
     DEF Next, SenderThread, ReceiverThread

LEMMA LivesStep == ThreadTypes /\ Told /\ Lives /\ [Next]_vars => Lives'
<1> SUFFICES ASSUME ThreadTypes, Told, Lives, [Next]_vars PROVE Lives'
  OBVIOUS
<1> USE GensFacts DEF ThreadTypes, Lives
<1>1. CASE startServer
  BY <1>1 DEF startServer, startPair, connection, history
<1>2. CASE startClient
  BY <1>2, NewGeneration DEF startClient, startPair, history
<1>3. CASE stop
  BY <1>3 DEF stop, stopThread, history
<1>4. CASE stopReceiveCheck
  BY <1>4 DEF stopReceiveCheck, stopThread, receivers, history
<1>5. CASE stopReceiveClose
  BY <1>5 DEF stopReceiveClose, stopThread, history
<1>6. CASE onConnectionStatutChange
  BY <1>6 DEF onConnectionStatutChange, receivers, senders, history
<1>7. ASSUME NEW g \in Gens, SenderEnds(g) \/ SenderWait(g) PROVE Lives'
  BY <1>7 DEF SenderEnds, SenderWait, connection, receivers, history
<1>8. ASSUME NEW g \in Gens, sendBroadcast(g) PROVE Lives'
  BY <1>8 DEF sendBroadcast, Sends, connection, receivers
<1>9. ASSUME NEW g \in Gens, ReceiverBind(g) PROVE Lives'
  BY <1>9 DEF ReceiverBind, receiverFinally, connection, senders, history
<1>10. ASSUME NEW g \in Gens, ReceiverRuning(g) \/ ReceiverNotStopped(g) PROVE Lives'
  BY <1>10 DEF ReceiverRuning, ReceiverNotStopped, connection, senders,
               history
<1>11. ASSUME NEW g \in Gens, Receive(g) PROVE Lives'
  BY <1>11 DEF Receive, Hears, connection, senders, history
<1>12. ASSUME NEW g \in Gens, ReceiveFails(g) PROVE Lives'
  BY <1>12 DEF ReceiveFails, receiverFinally, connection, senders, history
<1>13. ASSUME NEW g \in Gens, onNewDataReceived(g) PROVE Lives'
  BY <1>13 DEF onNewDataReceived, addBroadcastTask, receiverTest,
               receiverFinally
<1>14. ASSUME NEW kind \in {"query", "announce"}, Lose(kind) \/ Vanish(kind)
      PROVE  Lives'
  BY <1>14 DEF Lose, Vanish, connection, receivers, senders,
               history
<1>15. CASE UNCHANGED vars
  BY <1>15 DEF vars, connection, receivers, senders, history
<1> QED
  BY <1>1, <1>2, <1>3, <1>4, <1>5, <1>6, <1>7, <1>8, <1>9, <1>10,
     <1>11, <1>12, <1>13, <1>14, <1>15
     DEF Next, SenderThread, ReceiverThread

LEMMA ToldStep == ThreadTypes /\ Told /\ Lives /\ [Next]_vars => Told'
<1> SUFFICES ASSUME ThreadTypes, Told, Lives, [Next]_vars PROVE Told'
  OBVIOUS
<1> USE DEF Told
<1>1. CASE startServer
  BY <1>1 DEF startServer, startPair, connection, history
<1>2. CASE startClient
  BY <1>2, GensFacts DEF startClient, startPair, history, ThreadTypes
<1>3. CASE stop
  BY <1>3 DEF stop, stopThread, history
<1>4. CASE stopReceiveCheck
  BY <1>4 DEF stopReceiveCheck, stopThread, receivers, history
<1>5. CASE stopReceiveClose
  BY <1>5 DEF stopReceiveClose, stopThread, history
<1>6. CASE onConnectionStatutChange
  BY <1>6 DEF onConnectionStatutChange, receivers, senders, history
<1>7. ASSUME NEW g \in Gens, SenderEnds(g) \/ SenderWait(g) PROVE Told'
  BY <1>7 DEF SenderEnds, SenderWait, connection, receivers, history
<1>8. ASSUME NEW g \in Gens, sendBroadcast(g) PROVE Told'
  BY <1>8 DEF sendBroadcast, Sends, connection, receivers
<1>9. ASSUME NEW g \in Gens, ReceiverBind(g) PROVE Told'
  BY <1>9 DEF ReceiverBind, receiverFinally, connection, senders, history
<1>10. ASSUME NEW g \in Gens, ReceiverRuning(g) \/ ReceiverNotStopped(g) PROVE Told'
  BY <1>10 DEF ReceiverRuning, ReceiverNotStopped, connection, senders,
               history
<1>11. ASSUME NEW g \in Gens, Receive(g) PROVE Told'
  BY <1>11 DEF Receive, Hears, connection, senders, history
<1>12. ASSUME NEW g \in Gens, ReceiveFails(g) PROVE Told'
  BY <1>12 DEF ReceiveFails, receiverFinally, connection, senders, history
<1>13. ASSUME NEW g \in Gens, onNewDataReceived(g) PROVE Told'
  BY <1>13, GensFacts DEF onNewDataReceived, addBroadcastTask, receiverTest,
               receiverFinally, ThreadTypes, Lives
<1>14. ASSUME NEW kind \in {"query", "announce"}, Lose(kind) \/ Vanish(kind)
      PROVE  Told'
  BY <1>14 DEF Lose, Vanish, connection, receivers, senders,
               history
<1>15. CASE UNCHANGED vars
  BY <1>15 DEF vars, connection, receivers, senders, history
<1> QED
  BY <1>1, <1>2, <1>3, <1>4, <1>5, <1>6, <1>7, <1>8, <1>9, <1>10,
     <1>11, <1>12, <1>13, <1>14, <1>15
     DEF Next, SenderThread, ReceiverThread

(* What holds of every start() and stop(). *)
ThreadsInv == ThreadTypes /\ Lives /\ Told

LEMMA ThreadsInvariant == Spec => []ThreadsInv
<1>1. Init => ThreadsInv
  BY InitialStates DEF ThreadsInv
<1>2. ThreadsInv /\ [Next]_vars => ThreadsInv'
  BY ThreadTypesStep, LivesStep, ToldStep DEF ThreadsInv
<1> QED
  BY <1>1, <1>2, PTL DEF Spec

LEMMA FlagsStep == Flags /\ [Next]_vars => Flags'
<1> SUFFICES ASSUME Flags, [Next]_vars PROVE Flags'
  OBVIOUS
<1> USE DEF Flags
<1>1. CASE startServer
  BY <1>1 DEF startServer, startPair, connection, history
<1>2. CASE startClient
  BY <1>2 DEF startClient, startPair, history
<1>3. CASE stop
  BY <1>3 DEF stop, stopThread, history
<1>4. CASE stopReceiveCheck
  BY <1>4 DEF stopReceiveCheck, stopThread, receivers, history
<1>5. CASE stopReceiveClose
  BY <1>5 DEF stopReceiveClose, stopThread, history
<1>6. CASE onConnectionStatutChange
  BY <1>6 DEF onConnectionStatutChange, receivers, senders, history
<1>7. ASSUME NEW g \in Gens, SenderEnds(g) \/ SenderWait(g) PROVE Flags'
  BY <1>7 DEF SenderEnds, SenderWait, connection, receivers, history
<1>8. ASSUME NEW g \in Gens, sendBroadcast(g) PROVE Flags'
  BY <1>8 DEF sendBroadcast, Sends, connection, receivers
<1>9. ASSUME NEW g \in Gens, ReceiverBind(g) PROVE Flags'
  BY <1>9 DEF ReceiverBind, receiverFinally, connection, senders, history
<1>10. ASSUME NEW g \in Gens, ReceiverRuning(g) \/ ReceiverNotStopped(g) PROVE Flags'
  BY <1>10 DEF ReceiverRuning, ReceiverNotStopped, connection, senders,
               history
<1>11. ASSUME NEW g \in Gens, Receive(g) PROVE Flags'
  BY <1>11 DEF Receive, Hears, connection, senders, history
<1>12. ASSUME NEW g \in Gens, ReceiveFails(g) PROVE Flags'
  BY <1>12 DEF ReceiveFails, receiverFinally, connection, senders, history
<1>13. ASSUME NEW g \in Gens, onNewDataReceived(g) PROVE Flags'
  BY <1>13 DEF onNewDataReceived, addBroadcastTask, receiverTest,
               receiverFinally
<1>14. ASSUME NEW kind \in {"query", "announce"}, Lose(kind) \/ Vanish(kind)
      PROVE  Flags'
  BY <1>14 DEF Lose, Vanish, connection, receivers, senders,
               history
<1>15. CASE UNCHANGED vars
  BY <1>15 DEF vars, connection, receivers, senders, history
<1> QED
  BY <1>1, <1>2, <1>3, <1>4, <1>5, <1>6, <1>7, <1>8, <1>9, <1>10,
     <1>11, <1>12, <1>13, <1>14, <1>15
     DEF Next, SenderThread, ReceiverThread

(* The type of the state, for every number of starts. *)
THEOREM Typing == Spec => []TypeOK
<1>1. Init => Flags
  BY Zenon DEF Init, Flags
<1>2. ThreadsInv /\ Flags => TypeOK
  BY Zenon DEF ThreadsInv, ThreadTypes, Flags, TypeOK
<1> QED
  BY <1>1, <1>2, FlagsStep, ThreadsInvariant, PTL DEF Spec

-----------------------------------------------------------------------------
(* Whatever the order of addBroadcastTask and of wait(), no sender sleeps  *)
(* while it has a broadcast to send.                                       *)
THEOREM BroadcastsAreSent == Spec => []NoBroadcastLeftBehind
<1>1. Init => NoBroadcastLeftBehind
  BY DEF Init, NoBroadcastLeftBehind
<1>2. ThreadsInv /\ NoBroadcastLeftBehind /\ [Next]_vars
         => NoBroadcastLeftBehind'
  <2> SUFFICES ASSUME ThreadTypes, NoBroadcastLeftBehind, [Next]_vars
               PROVE  NoBroadcastLeftBehind'
    BY DEF ThreadsInv
  <2> USE GensFacts DEF ThreadTypes, NoBroadcastLeftBehind
  <2>1. CASE startServer
    BY <2>1 DEF startServer, startPair
  <2>2. CASE startClient
    BY <2>2, NewGeneration DEF startClient, startPair
  <2>3. ASSUME NEW g \in Gens, SenderEnds(g) \/ SenderWait(g)
        PROVE  NoBroadcastLeftBehind'
    BY <2>3 DEF SenderEnds, SenderWait
  <2>4. ASSUME NEW g \in Gens, sendBroadcast(g) PROVE NoBroadcastLeftBehind'
    BY <2>4 DEF sendBroadcast
  <2>5. ASSUME NEW g \in Gens, onNewDataReceived(g)
        PROVE  NoBroadcastLeftBehind'
    BY <2>5 DEF onNewDataReceived, addBroadcastTask
  <2>6. CASE UNCHANGED <<sender, mBroadcastTasks>>
    BY <2>6
  <2> QED
    BY <2>1, <2>2, <2>3, <2>4, <2>5, <2>6
       DEF Next, SenderThread, ReceiverThread, stop, stopReceiveCheck,
           stopReceiveClose, onConnectionStatutChange, ReceiverBind,
           ReceiverRuning, ReceiverNotStopped, Receive, ReceiveFails, Lose,
           Vanish, vars, senders
<1> QED
  BY <1>1, <1>2, ThreadsInvariant, PTL DEF Spec

-----------------------------------------------------------------------------
(* A receiver that stopReceive() has closed keeps its closed socket.  A    *)
(* receiver that is told to stop while it listens is the newest, and the   *)
(* main thread is still in stop(); once that has returned there is no      *)
(* sender until the next start().                                          *)
Closing ==
    /\ \A g \in stopped : socket[g] = "closed"
    /\ \A g \in Gens : mStopReceive[g] /\ socket[g] = "open" =>
          main \in {"check", "close"} /\ g = mBroadcastReceiveThread
    /\ main = "idle" /\ mBroadcastSenderThread # 0 =>
          /\ ~ mStopReceive[mBroadcastReceiveThread]
          /\ socket[mBroadcastReceiveThread] # "closed"
          /\ mBroadcastReceiveThread # 0

LEMMA ClosingStep == ThreadsInv /\ Closing /\ [Next]_vars => Closing'
<1> SUFFICES ASSUME ThreadTypes, Lives, Told, Closing, [Next]_vars
             PROVE  Closing'
  BY DEF ThreadsInv
<1> USE GensFacts DEF ThreadTypes, Closing
<1>1. CASE startClient
  BY <1>1, NewGeneration DEF startClient, startPair, Lives
<1>2. CASE stop
  BY <1>2 DEF stop, stopThread, Lives, Told
<1>3. CASE stopReceiveCheck
  BY <1>3 DEF stopReceiveCheck, stopThread, receivers
<1>4. CASE stopReceiveClose
  <2>1. CASE main' = "crashed"
    BY <1>4, <2>1 DEF stopReceiveClose
  <2>2. CASE main' = "idle"
    <3>1. /\ socket' = [socket EXCEPT ![mBroadcastReceiveThread] = "closed"]
          /\ stopped' = stopped \cup {mBroadcastReceiveThread}
          /\ mBroadcastSenderThread' = 0
          /\ UNCHANGED <<mBroadcastReceiveThread, mStopReceive>>
      BY <1>4, <2>2 DEF stopReceiveClose, stopThread
    <3>2. \A g \in Gens : socket'[g] = "open" =>
             socket[g] = "open" /\ g # mBroadcastReceiveThread
      BY <3>1
    <3> QED
      BY <2>2, <3>1, <3>2
  <2> QED
    BY <1>4, <2>1, <2>2 DEF stopReceiveClose
<1>5. ASSUME NEW g \in Gens, ReceiverBind(g) PROVE Closing'
  <2>1. socket[g] = "null" /\ ~ mStopReceive[g] /\ g \notin stopped
    BY <1>5 DEF ReceiverBind, Lives
  <2> QED
    BY <1>5, <2>1 DEF ReceiverBind, receiverFinally, connection
<1>6. ASSUME NEW g \in Gens, ReceiverNotStopped(g) PROVE Closing'
  BY <1>6 DEF ReceiverNotStopped, connection
<1>7. ASSUME NEW g \in Gens, ReceiveFails(g) PROVE Closing'
  BY <1>7 DEF ReceiveFails, receiverFinally, connection
<1>8. ASSUME NEW g \in Gens, onNewDataReceived(g) PROVE Closing'
  BY <1>8 DEF onNewDataReceived, receiverTest, receiverFinally
<1>9. CASE UNCHANGED <<stopped, socket, mStopReceive, main,
                       mBroadcastReceiveThread, mBroadcastSenderThread>>
  BY <1>9
<1> QED
  BY <1>1, <1>2, <1>3, <1>4, <1>5, <1>6, <1>7, <1>8, <1>9
     DEF Next, SenderThread, ReceiverThread, startServer,
         onConnectionStatutChange, SenderEnds, SenderWait, sendBroadcast,
         ReceiverRuning, Receive, Lose, Vanish, vars, connection, receivers

LEMMA ClosingInvariant == Spec => []Closing
<1>1. Init => Closing
  BY GensFacts DEF Init, Closing
<1> QED
  BY <1>1, ClosingStep, ThreadsInvariant, PTL DEF Spec

(* Once stop() has returned, the receiver it stopped takes no datagram any *)
(* more, whenever the receiver's own first lines take the flag back.       *)
THEOREM StopIsKept == Spec => StopIsFinal
<1>1. ThreadsInv /\ Closing /\ [Next]_vars =>
        [\A g \in stopped :
            receiver[g] = "receive" => receiver'[g] # "deliver"]_vars
  <2> SUFFICES ASSUME ThreadTypes, Closing, Next, NEW g \in stopped,
                      receiver[g] = "receive", receiver'[g] = "deliver"
               PROVE  FALSE
    BY DEF ThreadsInv
  <2> USE GensFacts DEF ThreadTypes
  <2>1. g \in Gens /\ socket[g] = "closed"
    BY DEF Closing
  <2>2. PICK h \in Gens : Receive(h)
    BY <2>1, NewGeneration
       DEF Next, SenderThread, ReceiverThread, startServer, startClient,
           startPair, stop, stopReceiveCheck, stopReceiveClose,
           onConnectionStatutChange, SenderEnds, SenderWait, sendBroadcast,
           ReceiverBind, receiverFinally, ReceiverRuning, ReceiverNotStopped,
           ReceiveFails, onNewDataReceived, receiverTest, Lose, Vanish, receivers
  <2> QED
    BY <2>1, <2>2 DEF Receive
<1> QED
  BY <1>1, ThreadsInvariant, ClosingInvariant, PTL DEF Spec, StopIsFinal

-----------------------------------------------------------------------------
(* A receiver that failed stays so. *)
LEMMA BrokenForGood ==
    ASSUME ThreadsInv, [Next]_vars, Broken
    PROVE  Broken'
<1> USE GensFacts DEF ThreadsInv, ThreadTypes
<1>1. PICK g \in Gens : receiver[g] = "failed"
  BY DEF Broken
<1>2. receiver'[g] = "failed"
  BY <1>1, NewGeneration
     DEF Next, SenderThread, ReceiverThread, startServer, startClient,
         startPair, Lives, stop, stopReceiveCheck, stopReceiveClose,
         onConnectionStatutChange, SenderEnds, SenderWait, sendBroadcast,
         ReceiverBind, receiverFinally, ReceiverRuning, ReceiverNotStopped,
         Receive, ReceiveFails, onNewDataReceived, receiverTest, Lose, Vanish,
         vars, receivers
<1> QED
  BY <1>1, <1>2 DEF Broken

(* A socket is given up by a failing network or by a stop(). *)
LEMMA ListeningStays ==
    ASSUME ThreadsInv, Closing, [Next]_vars, NEW g \in Gens,
           socket[g] = "open", ~ Broken', main = "idle"
    PROVE  socket'[g] = "open"
<1> USE GensFacts DEF ThreadsInv, ThreadTypes
<1>1. CASE startServer \/ startClient \/ stop
  BY <1>1 DEF startServer, startClient, stop
<1>2. CASE stopReceiveCheck \/ stopReceiveClose
  BY <1>2 DEF stopReceiveCheck, stopReceiveClose
<1>3. ASSUME NEW h \in Gens, ReceiverBind(h) PROVE socket'[g] = "open"
  BY <1>3 DEF ReceiverBind, receiverFinally, Lives
<1>4. ASSUME NEW h \in Gens, ReceiveFails(h) PROVE socket'[g] = "open"
  BY <1>4 DEF ReceiveFails, receiverFinally, Broken
<1>5. ASSUME NEW h \in Gens, onNewDataReceived(h) PROVE socket'[g] = "open"
  BY <1>5 DEF onNewDataReceived, receiverTest, receiverFinally, Closing
<1>6. CASE UNCHANGED socket
  BY <1>6
<1> QED
  BY <1>1, <1>2, <1>3, <1>4, <1>5, <1>6
     DEF Next, SenderThread, ReceiverThread, onConnectionStatutChange,
         SenderEnds, SenderWait, sendBroadcast, ReceiverRuning,
         ReceiverNotStopped, Receive, Lose, Vanish, vars, receivers

(* start() and stop() in any order, any number of times, leave the tablet  *)
(* listening unless stop() came last.                                      *)
THEOREM StartListens == Spec => []StartedIsListening
<1>1. Init => StartedIsListening
  BY DEF Init, StartedIsListening
<1>2. ThreadsInv /\ Closing /\ StartedIsListening /\ [Next]_vars
         => StartedIsListening'
  <2> SUFFICES ASSUME ThreadsInv, Closing, StartedIsListening, [Next]_vars,
                      mBroadcastSenderThread' # 0, main' = "idle", ~ Broken',
                      receiver'[mBroadcastReceiveThread'] = "done"
               PROVE  (Listening(Tablet) # {})'
    BY DEF StartedIsListening
  <2> USE GensFacts
  <2>1. /\ main = "idle" /\ mBroadcastSenderThread # 0
        /\ mBroadcastReceiveThread' = mBroadcastReceiveThread
    BY NewGeneration
       DEF Next, SenderThread, ReceiverThread, startServer, startClient,
           startPair, stop, stopThread, stopReceiveCheck, stopReceiveClose,
           onConnectionStatutChange, SenderEnds, SenderWait, sendBroadcast,
           ReceiverBind, ReceiverRuning, ReceiverNotStopped, Receive,
           ReceiveFails, onNewDataReceived, Lose, Vanish, vars, connection,
           ThreadsInv, ThreadTypes
  <2> DEFINE n == mBroadcastReceiveThread
  <2>2. n \in Tablet /\ ~ mStopReceive[n] /\ socket[n] # "closed"
    BY <2>1 DEF Closing, ThreadsInv, ThreadTypes
  <2>3. receiver[n] = "done" \/ (receiver[n] = "bind" /\ ReceiverBind(n))
    BY <2>1, <2>2
       DEF Next, SenderThread, ReceiverThread, startServer, startClient,
           startPair, stop, stopReceiveCheck, stopReceiveClose,
           onConnectionStatutChange, SenderEnds, SenderWait, sendBroadcast,
           ReceiverBind, receiverFinally, ReceiverRuning, ReceiverNotStopped,
           Receive, ReceiveFails, onNewDataReceived, receiverTest, Lose,
           Vanish, vars, receivers, ThreadsInv, ThreadTypes, Lives
  <2>4. Listening(Tablet) # {}
    <3>1. CASE receiver[n] = "done"
      BY <2>1, <3>1, BrokenForGood DEF StartedIsListening
    <3>2. CASE ReceiverBind(n)
      BY <2>1, <2>2, <3>2 DEF ReceiverBind, EndOf, ThreadsInv, ThreadTypes
    <3> QED
      BY <2>3, <3>1, <3>2
  <2> QED
    BY <2>1, <2>4, ListeningStays DEF Listening
<1> QED
  BY <1>1, <1>2, ThreadsInvariant, ClosingInvariant, PTL DEF Spec

-----------------------------------------------------------------------------
(* The history is one in which tablet and phone have to meet, and have not *)
(* met yet.                                                                *)
ToMeet == ~ mServerIp /\ ~ hasty /\ ~ lost /\ ~ Broken

(* An announcement is on its way to the tablet. *)
Announced ==
    \/ mBroadcastTasks[Phone] > 0
    \/ "announce" \in net
    \/ \E g \in Tablet : receiver[g] = "deliver"

(* A query is on its way to the phone. *)
Asked ==
    \/ \E g \in Tablet : mBroadcastTasks[g] > 0
    \/ "query" \in net
    \/ receiver[Phone] = "deliver"

(* An end that has sent its first broadcast listens. *)
PhoneListens ==
    receiver[Phone] # "none" /\ mBroadcastTasks[Phone] = 0 =>
        socket[Phone] = "open"

TabletListens ==
    (\E g \in Tablet : receiver[g] # "none" /\ mBroadcastTasks[g] = 0) =>
        Listening(Tablet) # {}

UnderWay ==
    receiver[Phone] # "none" /\ mBroadcastReceiveThread # 0 =>
        Announced \/ Asked

Meeting == ToMeet => PhoneListens /\ TabletListens /\ UnderWay

(* What happened too early, or was lost, is forgotten only when they meet. *)
LEMMA StillToMeet ==
    ASSUME ThreadsInv, [Next]_vars, ToMeet'
    PROVE  ToMeet /\ main = "idle"
<1>1. ~ Broken
  BY BrokenForGood DEF ToMeet
<1>2. ~ mServerIp /\ ~ hasty /\ ~ lost
  <2>1. ~ mServerIp' /\ ~ hasty' /\ ~ lost'
    BY DEF ToMeet
  <2>2. ASSUME NEW g \in Gens, sendBroadcast(g)
        PROVE  ~ mServerIp /\ ~ hasty /\ ~ lost
    <3>1. /\ mServerIp' = mServerIp
          /\ hasty' = (hasty \/ (~ mServerIp /\ Listening(EndOf(g)) = {}))
          /\ lost' = lost \/ lost' = (lost \/ ~ mServerIp)
      BY <2>2 DEF sendBroadcast, connection
    <3>2. ~ mServerIp
      BY <2>1, <3>1
    <3>3. ~ hasty
      BY <2>1, <3>1
    <3>4. ~ lost
      <4>1. CASE lost' = lost
        BY <2>1, <4>1
      <4>2. CASE lost' = (lost \/ ~ mServerIp)
        BY <2>1, <4>2
      <4> QED
        BY <3>1, <4>1, <4>2
    <3> QED
      BY <3>2, <3>3, <3>4
  <2>3. ASSUME NEW g \in Gens, onNewDataReceived(g)
        PROVE  ~ mServerIp /\ ~ hasty /\ ~ lost
    BY <2>1, <2>3 DEF onNewDataReceived
  <2>4. ASSUME NEW kind, Lose(kind)
        PROVE  ~ mServerIp /\ ~ hasty /\ ~ lost
    <3>1. mServerIp' = mServerIp /\ lost' = ~ mServerIp
      BY <2>4 DEF Lose, connection
    <3> QED
      BY <2>1, <3>1
  <2>5. CASE mServerIp' = mServerIp /\ hasty' = hasty /\ lost' = lost
    BY <2>1, <2>5
  <2> QED
    BY <2>2, <2>3, <2>4, <2>5
       DEF Next, SenderThread, ReceiverThread, startServer, startClient, stop,
           stopReceiveCheck, stopReceiveClose, onConnectionStatutChange,
           SenderEnds, SenderWait, ReceiverBind, ReceiverRuning, Receive,
           ReceiverNotStopped, ReceiveFails, Vanish, vars, connection, history
<1>3. main = "idle"
  BY <1>2 DEF ThreadsInv, Told
<1> QED
  BY <1>1, <1>2, <1>3 DEF ToMeet

(* Tasks are only done by sending them. *)
LEMMA DoneIsSent ==
    ASSUME ThreadsInv, [Next]_vars, NEW g \in Gens,
           receiver'[g] # "none", mBroadcastTasks'[g] = 0
    PROVE  (receiver[g] # "none" /\ mBroadcastTasks[g] = 0) \/ sendBroadcast(g)
<1> USE GensFacts DEF ThreadsInv, ThreadTypes
<1>1. CASE startServer
  BY <1>1 DEF startServer, startPair
<1>2. CASE startClient
  BY <1>2, NewGeneration DEF startClient, startPair
<1>3. ASSUME NEW h \in Gens, sendBroadcast(h), h # g
      PROVE  receiver[g] # "none" /\ mBroadcastTasks[g] = 0
  BY <1>3 DEF sendBroadcast, receivers
<1>4. ASSUME NEW h \in Gens, onNewDataReceived(h)
      PROVE  receiver[g] # "none" /\ mBroadcastTasks[g] = 0
  BY <1>4 DEF onNewDataReceived, addBroadcastTask, receiverTest, receiverFinally
<1>5. ASSUME NEW h \in Gens,
             \/ ReceiverBind(h) \/ ReceiverRuning(h) \/ ReceiverNotStopped(h)
             \/ Receive(h) \/ ReceiveFails(h)
      PROVE  receiver[g] # "none" /\ mBroadcastTasks[g] = 0
  BY <1>5 DEF ReceiverBind, ReceiverRuning, ReceiverNotStopped, Receive,
              ReceiveFails, receiverFinally, senders
<1>6. CASE UNCHANGED <<receiver, mBroadcastTasks>>
  BY <1>6
<1> QED
  BY <1>1, <1>2, <1>3, <1>4, <1>5, <1>6
     DEF Next, SenderThread, ReceiverThread, stop, stopReceiveCheck,
         stopReceiveClose, onConnectionStatutChange, SenderEnds, SenderWait,
         Lose, Vanish, vars, receivers, senders

LEMMA MeetingStep == ThreadsInv /\ Closing /\ Meeting /\ [Next]_vars => Meeting'
<1> SUFFICES ASSUME ThreadsInv, Closing, Meeting, [Next]_vars, ToMeet'
             PROVE  PhoneListens' /\ TabletListens' /\ UnderWay'
  BY DEF Meeting
<1> USE GensFacts
<1>1. PhoneListens /\ TabletListens /\ UnderWay /\ main = "idle" /\ ~ mServerIp
  BY StillToMeet DEF Meeting, ToMeet
<1>2. ~ mServerIp' /\ ~ hasty' /\ ~ lost' /\ ~ Broken'
  BY DEF ToMeet
<1>3. \A g \in Gens : socket[g] = "open" => socket'[g] = "open"
  BY <1>1, <1>2, ListeningStays
<1>4. Listening(Tablet) # {} => (Listening(Tablet) # {})'
  BY <1>3 DEF Listening
<1>5. ASSUME NEW g \in Gens, sendBroadcast(g)
      PROVE  Listening(EndOf(g)) # {} /\ Sends(g) \in net'
  <2>1. /\ hasty' = (hasty \/ (~ mServerIp /\ Listening(EndOf(g)) = {}))
        /\ net' = net \cup {Sends(g)} \/ lost' = (lost \/ ~ mServerIp)
    BY <1>5 DEF sendBroadcast
  <2>2. Listening(EndOf(g)) # {}
    BY <1>1, <1>2, <2>1
  <2>3. net' = net \cup {Sends(g)}
    BY <1>1, <1>2, <2>1
  <2> QED
    BY <2>2, <2>3
<1>6. PhoneListens'
  <2> SUFFICES ASSUME receiver'[Phone] # "none", mBroadcastTasks'[Phone] = 0
               PROVE  socket'[Phone] = "open"
    BY DEF PhoneListens
  <2>1. CASE receiver[Phone] # "none" /\ mBroadcastTasks[Phone] = 0
    BY <1>1, <1>3, <2>1 DEF PhoneListens
  <2>2. CASE sendBroadcast(Phone)
    BY <1>3, <1>5, <2>2 DEF Listening, EndOf
  <2> QED
    BY <2>1, <2>2, DoneIsSent
<1>7. TabletListens'
  <2> SUFFICES ASSUME NEW g \in Tablet,
                      receiver'[g] # "none", mBroadcastTasks'[g] = 0
               PROVE  (Listening(Tablet) # {})'
    BY DEF TabletListens
  <2>1. CASE receiver[g] # "none" /\ mBroadcastTasks[g] = 0
    BY <1>1, <1>4, <2>1 DEF TabletListens
  <2>2. CASE sendBroadcast(g)
    BY <1>4, <1>5, <2>2 DEF EndOf
  <2> QED
    BY <2>1, <2>2, DoneIsSent
<1>8. UnderWay'
  <2> SUFFICES ASSUME receiver'[Phone] # "none", mBroadcastReceiveThread' # 0
               PROVE  Announced' \/ Asked'
    BY DEF UnderWay
  <2> USE DEF ThreadsInv, ThreadTypes
  <2>1. CASE startServer
    BY <2>1 DEF startServer, startPair, Announced
  <2>2. CASE startClient
    BY <2>2, NewGeneration DEF startClient, startPair, Asked
  <2>3. CASE stop \/ stopReceiveCheck \/ stopReceiveClose \/ onConnectionStatutChange
    BY <1>1, <2>3 DEF stop, stopReceiveCheck, stopReceiveClose, Told,
                      onConnectionStatutChange
  <2>4. ASSUME NEW g \in Gens, sendBroadcast(g) PROVE Announced' \/ Asked'
    BY <1>5, <2>4 DEF Sends, Announced, Asked
  <2>5. ASSUME NEW g \in Gens, Receive(g) PROVE Announced' \/ Asked'
    BY <2>5 DEF Receive, Announced, Asked
  <2>6. ASSUME NEW g \in Gens, onNewDataReceived(g) PROVE Announced' \/ Asked'
    <3>1. g = Phone
      BY <1>2, <2>6 DEF onNewDataReceived
    <3>2. mBroadcastTasks'[Phone] = mBroadcastTasks[Phone] + 1
      BY <2>6, <3>1 DEF onNewDataReceived, addBroadcastTask
    <3> QED
      BY <3>2 DEF Announced
  <2>7. ASSUME NEW kind \in {"query", "announce"}, Lose(kind) PROVE FALSE
    <3>1. lost' = ~ mServerIp
      BY <2>7 DEF Lose
    <3> QED
      BY <1>1, <1>2, <3>1
  <2>8. ASSUME NEW kind \in {"query", "announce"}, Vanish(kind)
        PROVE  Announced' \/ Asked'
    <3>0. UNCHANGED <<receiver, mBroadcastTasks, mBroadcastReceiveThread>>
      BY <2>8 DEF Vanish, connection, receivers, senders
    <3>1. CASE kind = "query"
      <4>1. socket[Phone] # "open"
        BY <2>8, <3>1 DEF Vanish, Audience, Listening
      <4>2. mBroadcastTasks[Phone] # 0
        BY <1>1, <3>0, <4>1 DEF PhoneListens
      <4> QED
        BY <3>0, <4>2 DEF Announced
    <3>2. CASE kind = "announce"
      <4>1. Listening(Tablet) = {}
        BY <2>8, <3>2 DEF Vanish, Audience
      <4>2. /\ mBroadcastReceiveThread \in Tablet
            /\ receiver[mBroadcastReceiveThread] # "none"
        BY <3>0 DEF Lives
      <4>3. mBroadcastTasks[mBroadcastReceiveThread] # 0
        BY <1>1, <4>1, <4>2 DEF TabletListens
      <4> QED
        BY <3>0, <4>2, <4>3 DEF Asked
    <3> QED
      BY <3>1, <3>2
  <2>9. ASSUME NEW g \in Gens,
               \/ ReceiverBind(g) \/ ReceiverRuning(g) \/ ReceiverNotStopped(g)
               \/ ReceiveFails(g) \/ SenderEnds(g) \/ SenderWait(g)
        PROVE  Announced' \/ Asked'
    <3>1. /\ UNCHANGED <<net, mBroadcastTasks, mBroadcastReceiveThread>>
          /\ receiver[Phone] # "none"
          /\ \A h \in Gens : receiver[h] = "deliver" => receiver'[h] = "deliver"
      BY <2>9 DEF ReceiverBind, ReceiverRuning, ReceiverNotStopped, ReceiveFails,
                  SenderEnds, SenderWait, receiverFinally, connection, receivers,
                  senders
    <3> QED
      BY <1>1, <3>1 DEF UnderWay, Announced, Asked
  <2>10. CASE UNCHANGED vars
    <3>1. UNCHANGED <<net, mBroadcastTasks, mBroadcastReceiveThread, receiver>>
      BY <2>10 DEF vars, connection, receivers, senders
    <3> QED
      BY <1>1, <3>1 DEF UnderWay, Announced, Asked
  <2> QED
    BY <2>1, <2>2, <2>3, <2>4, <2>5, <2>6, <2>7, <2>8, <2>9, <2>10
       DEF Next, SenderThread, ReceiverThread
<1> QED
  BY <1>6, <1>7, <1>8

(* Tablet and phone do not miss each other, whoever starts first and       *)
(* however often the tablet is started, if no datagram is lost and each    *)
(* end has bound its port before it broadcasts.                            *)
THEOREM EndsMeet == Spec => []TheyMeet
<1>1. Init => Meeting
  BY GensFacts DEF Init, Meeting, PhoneListens, TabletListens, UnderWay
<1>2. ThreadsInv /\ Meeting => TheyMeet
  <2> SUFFICES ASSUME ThreadsInv, Meeting, Quiet, ToMeet PROVE FALSE
    BY DEF TheyMeet, ToMeet
  <2>1. Announced \/ Asked
    BY DEF Meeting, UnderWay, Quiet
  <2> QED
    BY <2>1, GensFacts DEF Quiet, Announced, Asked
<1> QED
  BY <1>1, <1>2, MeetingStep, ThreadsInvariant, ClosingInvariant, PTL DEF Spec
=============================================================================
