----------------------- MODULE ServerConnections_proofs -----------------------
(***************************************************************************)
(* Proofs about ServerConnections, for any number of tablets, any size of  *)
(* the pool and any capacity of its queue.                                 *)
(***************************************************************************)
EXTENDS ServerConnections, TLAPS, FiniteSetTheorems, SequenceTheorems

(* The type of the state without the one flag; a thread that approves a    *)
(* connection knows which; and the accepting thread knows which connection *)
(* it registers.                                                           *)
Types ==
    /\ acceptor \in {"accept", "name", "list", "map", "dead"}
    /\ current \in Conns \cup {Null}
    /\ mCount \in 1..(MAX_THREAD_SIZE + 1)
    /\ sPoolWorkQueue \in Seq(Conns)
    /\ Len(sPoolWorkQueue) <= WorkQueueSize
    /\ mThreadName \in [Conns -> Names \cup {Null}]
    /\ mConnectionMap \in [Names -> Conns \cup {Null}]
    /\ mNetWorkInfos \in [Names -> NetWorkInfo \cup {Null}]
    /\ pc \in [Conns -> {"new", "rejected", "queued", "open", "opened",
                         "test", "reading", "authorizing", "pass",
                         "approving", "failed", "done"}]
    /\ mConnectStatus \in [Conns -> Status]
    /\ mStopConnection \in [Conns -> BOOLEAN]
    /\ threadName \in [Conns -> Names \cup {Null}]
    /\ approved \in [Conns -> Conns \cup {Null}]
    /\ \A c \in Conns : pc[c] = "approving" => approved[c] # Null
    /\ sent \in [Conns -> SUBSET {"pass", "failed"}]
    /\ silent \in [Conns -> BOOLEAN]
    /\ passed \in SUBSET Conns

Registering ==
    acceptor \in {"name", "list", "map"} => current \in Conns /\ mCount > 1

LEMMA NameOfThread ==
    ASSUME mCount \in 1..(MAX_THREAD_SIZE + 1), mCount > 1
    PROVE  Name(mCount - 1) \in Names
BY PoolAssumption DEF Names

LEMMA StatusPublished ==
    ASSUME Types, NEW name \in Names \cup {Null}, NEW newStatus \in Status,
           onConnectionStatutChange(name, newStatus)
    PROVE  mNetWorkInfos' \in [Names -> NetWorkInfo \cup {Null}]
BY NullAssumption DEF Types, onConnectionStatutChange, NetWorkInfo

LEMMA TypesInit == Init => Types /\ Registering
BY ConnsAssumption, PoolAssumption
   DEF Init, Types, Registering, Status

LEMMA TypesStep == Types /\ Registering /\ [Next]_vars => Types'
<1> SUFFICES ASSUME Types, Registering, [Next]_vars PROVE Types'
  OBVIOUS
<1> USE ConnsAssumption, PoolAssumption DEF Types
<1>1. ASSUME NEW c \in Conns, acceptAndExecute(c) PROVE Types'
  <2>1. UNCHANGED <<registered, flags, calls, sent, silent, passed>>
    BY <1>1 DEF acceptAndExecute, history
  <2>2. /\ sPoolWorkQueue' \in Seq(Conns)
        /\ Len(sPoolWorkQueue') <= WorkQueueSize
    <3>1. CASE sPoolWorkQueue' = Append(sPoolWorkQueue, c)
               /\ Len(sPoolWorkQueue) < WorkQueueSize
      <4>1. /\ sPoolWorkQueue' \in Seq(Conns)
            /\ Len(sPoolWorkQueue') = Len(sPoolWorkQueue) + 1
        BY <3>1, AppendProperties
      <4> QED
        BY <3>1, <4>1, LenProperties
    <3>2. CASE UNCHANGED sPoolWorkQueue
      BY <3>2
    <3> QED
      BY <1>1, <3>1, <3>2 DEF acceptAndExecute
  <2>3. mCount' \in 1..(MAX_THREAD_SIZE + 1)
    BY <1>1 DEF acceptAndExecute, poolSize
  <2> QED
    BY <1>1, <2>1, <2>2, <2>3 DEF acceptAndExecute, registered, flags, calls
<1>2. CASE setThreadName
  BY <1>2, NameOfThread DEF setThreadName, Registering, flags, calls, history
<1>3. CASE onNewConnection
  <2>1. [remoteIp |-> current, status |-> "NOT_INIT"] \in NetWorkInfo
    BY <1>3 DEF onNewConnection, Registering, NetWorkInfo, Status
  <2> QED
    BY <1>3, <2>1 DEF onNewConnection, flags, calls, history
<1>4. CASE putConnection
  BY <1>4 DEF putConnection, Registering, flags, calls, history
<1>5. CASE takeFromQueue
  BY <1>5 DEF takeFromQueue, accepting, registered, flags, calls, history
<1>6. ASSUME NEW c \in Conns, runOpened(c) PROVE Types'
  <2>1. mNetWorkInfos' \in [Names -> NetWorkInfo \cup {Null}]
    BY <1>6, StatusPublished DEF runOpened
  <2> QED
    BY <1>6, <2>1 DEF runOpened, accepting, calls, history
<1>7. ASSUME NEW c \in Conns, runOpen(c) \/ runFails(c) \/ runTest(c)
      PROVE  Types'
  <2>1. /\ UNCHANGED <<accepting, sPoolWorkQueue, registered, calls, sent,
                       silent, history>>
    BY <1>7 DEF runOpen, runFails, runTest
  <2>4. mConnectStatus' \in [Conns -> Status]
    BY <1>7 DEF runOpen, runFails, runTest, flags, Status
  <2>5. mStopConnection' \in [Conns -> BOOLEAN]
    BY <1>7, ZenonT(30) DEF runOpen, runFails, runTest, flags
  <2>2. \A d \in Conns : pc'[d] = "approving" => pc[d] = "approving"
    BY <1>7 DEF runOpen, runFails, runTest
  <2>3. pc' \in [Conns -> {"new", "rejected", "queued", "open", "opened",
                          "test", "reading", "authorizing", "pass",
                          "approving", "failed", "done"}]
    BY <1>7 DEF runOpen, runFails, runTest
  <2> QED
    BY <2>1, <2>2, <2>3, <2>4, <2>5 DEF accepting, registered, calls, history
<1>8. ASSUME NEW c \in Conns, NEW result \in {"pass", "failed"},
             sendAuthorizePackage(c, result)
      PROVE  Types'
  <2>1. sent' \in [Conns -> SUBSET {"pass", "failed"}]
    BY <1>8 DEF sendAuthorizePackage, sendDataToTarget
  <2>2. passed' \in SUBSET Conns
    BY <1>8 DEF sendAuthorizePackage
  <2> QED
    BY <1>8, <2>1, <2>2 DEF sendAuthorizePackage, accepting, registered, flags,
                            calls
<1>9. ASSUME NEW c \in Conns, stopConnection(c) \/ passUnfound(c) PROVE Types'
  <2>1. mStopConnection' \in [Conns -> BOOLEAN]
    BY <1>9 DEF stopConnection, passUnfound
  <2>2. /\ pc' = [pc EXCEPT ![c] = "test"]
        /\ threadName' = [threadName EXCEPT ![c] = Null]
        /\ UNCHANGED <<accepting, sPoolWorkQueue, mThreadName, mConnectionMap,
                       mConnectStatus, sent, silent, history, mNetWorkInfos,
                       approved>>
    BY <1>9 DEF stopConnection, passUnfound, handled
  <2> QED
    BY <2>1, <2>2 DEF accepting, history
<1>10. ASSUME NEW c \in Conns, setAutorizeCheckPass(c) PROVE Types'
  <2> DEFINE t == getConnection(threadName[c])
  <2>1. t \in Conns \cup {Null}
    BY DEF getConnection
  <2>2. /\ mConnectStatus' \in [Conns -> Status]
        /\ mStopConnection' \in [Conns -> BOOLEAN]
        /\ approved' \in [Conns -> Conns \cup {Null}]
        /\ \A d \in Conns : pc'[d] = "approving" => approved'[d] # Null
    BY <1>10, <2>1 DEF setAutorizeCheckPass, Status
  <2> QED
    BY <1>10, <2>2 DEF setAutorizeCheckPass, accepting, registered, history
<1>15. ASSUME NEW c \in Conns, reportApproved(c) PROVE Types'
  <2>1. approved[c] \in Conns
    BY <1>15 DEF reportApproved
  <2>2. mNetWorkInfos' \in [Names -> NetWorkInfo \cup {Null}]
    BY <1>15, <2>1, StatusPublished DEF reportApproved
  <2> QED
    BY <1>15, <2>2 DEF reportApproved, handled, accepting, history
<1>11. ASSUME NEW c \in Conns, receiveAuthorize(c) PROVE Types'
  BY <1>11 DEF receiveAuthorize, reading, accepting, registered, flags,
               calls
<1>12. ASSUME NEW c \in Conns, receiveAnswer(c) PROVE Types'
  <2>1. UNCHANGED <<accepting, sPoolWorkQueue, registered, mConnectStatus,
                    calls, sent, silent, history>>
    BY <1>12 DEF receiveAnswer
  <2>2. mStopConnection' \in [Conns -> BOOLEAN]
    BY <1>12 DEF receiveAnswer
  <2>3. \/ pc' = [pc EXCEPT ![c] = "done"]
        \/ pc' = [pc EXCEPT ![c] = "test"]
    BY <1>12 DEF receiveAnswer
  <2> QED
    BY <2>1, <2>2, <2>3 DEF accepting, registered, calls, history
<1>13. ASSUME NEW c \in Conns, receiveOther(c) PROVE Types'
  BY <1>13 DEF receiveOther, reading, accepting, registered, flags, calls,
               history
<1>16. ASSUME NEW c \in Conns, tabletGoes(c) PROVE Types'
  BY <1>16 DEF tabletGoes, accepting, registered, flags, calls, history
<1>14. CASE UNCHANGED vars
  BY <1>14 DEF vars, accepting, registered, flags, calls, history
<1> QED
  BY <1>1, <1>2, <1>3, <1>4, <1>5, <1>6, <1>7, <1>8, <1>9, <1>10, <1>11, <1>12,
     <1>13, <1>14, <1>15, <1>16
     DEF Next, SocketServerConnectionThread, ServerConnection, verdictArrives

LEMMA RegisteringStep ==
    Types /\ Registering /\ [Next]_vars => Registering'
<1> SUFFICES ASSUME Types, Registering, [Next]_vars PROVE Registering'
  OBVIOUS
<1> USE DEF Types, Registering
<1>1. ASSUME NEW c \in Conns, acceptAndExecute(c) PROVE Registering'
  BY <1>1, PoolAssumption DEF acceptAndExecute, poolSize
<1>2. CASE setThreadName \/ onNewConnection \/ putConnection
  BY <1>2 DEF setThreadName, onNewConnection, putConnection
<1>3. CASE UNCHANGED accepting
  BY <1>3 DEF accepting
<1> QED
  BY <1>1, <1>2, <1>3
     DEF Next, SocketServerConnectionThread, ServerConnection, verdictArrives,
         takeFromQueue, runOpen, runOpened, runFails, runTest, stopConnection,
         handled, setAutorizeCheckPass, passUnfound, reportApproved,
         sendAuthorizePackage, receiveAuthorize, receiveAnswer, receiveOther,
         tabletGoes, vars

LEMMA TypesInvariant == Spec => [](Types /\ Registering)
<1>1. Types /\ Registering /\ [Next]_vars => (Types /\ Registering)'
  BY TypesStep, RegisteringStep
<1> QED
  BY <1>1, TypesInit, PTL DEF Spec

(* The type of the state, for every size of the pool. *)
THEOREM ServerTyping == Spec => []TypeOK
<1>1. Init => anonymous \in BOOLEAN
  BY Zenon DEF Init
<1>2. anonymous \in BOOLEAN /\ [Next]_vars => (anonymous \in BOOLEAN)'
  <2> SUFFICES ASSUME anonymous \in BOOLEAN, [Next]_vars
               PROVE  anonymous' \in BOOLEAN
    OBVIOUS
  <2>1. ASSUME NEW c \in Conns, receiveAuthorize(c)
        PROVE  anonymous' \in BOOLEAN
    BY <2>1 DEF receiveAuthorize
  <2>2. CASE anonymous' = anonymous
    BY <2>2
  <2> QED
    BY <2>1, <2>2
       DEF Next, SocketServerConnectionThread, ServerConnection,
           verdictArrives, acceptAndExecute, setThreadName, onNewConnection,
           putConnection, takeFromQueue, runOpen, runOpened, runFails,
           runTest, stopConnection, setAutorizeCheckPass, passUnfound,
           reportApproved, handled, sendAuthorizePackage, receiveAnswer,
           receiveOther, tabletGoes, vars, history
<1>3. Types /\ anonymous \in BOOLEAN => TypeOK
  BY Zenon DEF Types, TypeOK
<1> QED
  BY <1>1, <1>2, <1>3, TypesInvariant, PTL DEF Spec

-----------------------------------------------------------------------------
(* The pool *)

LEMMA AcceptedIsFinite ==
    IsFiniteSet(Accepted) /\ Cardinality(Accepted) \in Nat
BY ConnsAssumption, FS_Subset, FS_CardinalityType DEF Accepted

(* The connections that wait are in the queue, each of them once. *)
Queued ==
    /\ \A c \in Conns :
          pc[c] = "queued" <=>
              \E i \in 1..Len(sPoolWorkQueue) : sPoolWorkQueue[i] = c
    /\ \A i, j \in 1..Len(sPoolWorkQueue) :
          sPoolWorkQueue[i] = sPoolWorkQueue[j] => i = j

(* A step that puts no connection into the queue, or takes none from it.   *)
LEMMA QueueUntouched ==
    ASSUME Types, Queued, UNCHANGED sPoolWorkQueue,
           \A c \in Conns : pc'[c] = "queued" <=> pc[c] = "queued"
    PROVE  Queued'
BY DEF Types, Queued

LEMMA QueuedStep == Types /\ Queued /\ [Next]_vars => Queued'
<1> SUFFICES ASSUME Types, Queued, [Next]_vars PROVE Queued'
  OBVIOUS
<1>1. ASSUME NEW c \in Conns, acceptAndExecute(c) PROVE Queued'
  <2>1. CASE sPoolWorkQueue' = Append(sPoolWorkQueue, c)
             /\ pc' = [pc EXCEPT ![c] = "queued"]
    <3> DEFINE q == sPoolWorkQueue
    <3>1. /\ q \in Seq(Conns) /\ Len(q) \in Nat /\ Len(q') = Len(q) + 1
          /\ \A i \in 1..Len(q) : q'[i] = q[i]
          /\ q'[Len(q) + 1] = c
      BY <2>1 DEF Types
    <3>2. \A i \in 1..Len(q) : q[i] # c
      BY <1>1 DEF acceptAndExecute, Queued
    <3>3. \A d \in Conns : pc'[d] = "queued" <=> pc[d] = "queued" \/ d = c
      BY <2>1 DEF Types
    <3> HIDE DEF q
    <3>4. \A d \in Conns : (\E i \in 1..Len(q') : q'[i] = d) <=>
              (\E i \in 1..Len(q) : q[i] = d) \/ d = c
      BY <3>1
    <3>5. \A i, j \in 1..Len(q') : q'[i] = q'[j] => i = j
      BY <3>1, <3>2 DEF Queued, q
    <3> QED
      BY <3>3, <3>4, <3>5 DEF Queued, q
  <2>2. CASE UNCHANGED sPoolWorkQueue
    <3>1. \A d \in Conns : pc'[d] = "queued" <=> pc[d] = "queued"
      BY <1>1, <2>2 DEF acceptAndExecute, Types
    <3> QED
      BY <2>2, <3>1, QueueUntouched
  <2> QED
    BY <1>1, <2>1, <2>2 DEF acceptAndExecute
<1>2. CASE takeFromQueue
  <2> DEFINE q == sPoolWorkQueue
             h == Head(q)
  <2>1. /\ q \in Seq(Conns) /\ Len(q) \in Nat \ {0} /\ Len(q') = Len(q) - 1
        /\ \A i \in 1..Len(q') : q'[i] = q[i + 1]
        /\ h = q[1] /\ h \in Conns
    BY <1>2 DEF takeFromQueue, Types
  <2>2. \A d \in Conns : pc'[d] = "queued" <=> pc[d] = "queued" /\ d # h
    BY <1>2 DEF takeFromQueue, Types
  <2>3. \A i, j \in 1..Len(q) : q[i] = q[j] => i = j
    BY DEF Queued
  <2> HIDE DEF q, h
  <2>4. \A d \in Conns : (\E i \in 1..Len(q') : q'[i] = d) <=>
            (\E i \in 1..Len(q) : q[i] = d) /\ d # h
    <3> TAKE d \in Conns
    <3>1. ASSUME NEW i \in 1..Len(q'), q'[i] = d
          PROVE  (\E j \in 1..Len(q) : q[j] = d) /\ d # h
      <4>1. i + 1 \in 1..Len(q) /\ i + 1 # 1 /\ 1 \in 1..Len(q)
        BY <2>1
      <4> QED
        BY <2>1, <2>3, <3>1, <4>1
    <3>2. ASSUME NEW j \in 1..Len(q), q[j] = d, d # h
          PROVE  \E i \in 1..Len(q') : q'[i] = d
      <4>1. j - 1 \in 1..Len(q') /\ (j - 1) + 1 = j
        BY <2>1, <3>2
      <4>2. q'[j - 1] = q[(j - 1) + 1]
        BY <2>1, <4>1
      <4>3. q'[j - 1] = d
        BY <3>2, <4>1, <4>2
      <4> QED
        BY <4>1, <4>3
    <3> QED
      BY <3>1, <3>2
  <2>5. \A i, j \in 1..Len(q') : q'[i] = q'[j] => i = j
    BY <2>1, <2>3
  <2> QED
    BY <2>2, <2>4, <2>5 DEF Queued, q
<1>3. ASSUME NEW c \in Conns,
             \/ ServerConnection(c) \/ verdictArrives(c) \/ receiveAuthorize(c)
             \/ receiveAnswer(c) \/ receiveOther(c) \/ tabletGoes(c)
      PROVE  Queued'
  <2>1. UNCHANGED sPoolWorkQueue
    BY <1>3 DEF ServerConnection, runOpen, runOpened, runFails, runTest,
                stopConnection, setAutorizeCheckPass, passUnfound,
                reportApproved, handled, verdictArrives, receiveAuthorize,
                sendAuthorizePackage, receiveAnswer, receiveOther, tabletGoes
  <2>2. \A d \in Conns : pc'[d] = "queued" <=> pc[d] = "queued"
    BY <1>3 DEF ServerConnection, runOpen, runOpened, runFails, runTest,
                stopConnection, setAutorizeCheckPass, passUnfound,
                reportApproved, handled, verdictArrives, receiveAuthorize,
                sendAuthorizePackage, receiveAnswer, receiveOther, tabletGoes,
                reading, Types
  <2> QED
    BY <2>1, <2>2, QueueUntouched
<1>4. CASE UNCHANGED <<sPoolWorkQueue, pc>>
  BY <1>4, QueueUntouched
<1> QED
  BY <1>1, <1>2, <1>3, <1>4
     DEF Next, SocketServerConnectionThread, setThreadName, onNewConnection,
         putConnection, vars

LEMMA QueuedInvariant == Spec => []Queued
<1>1. Init => Queued
  BY DEF Init, Queued
<1>2. Types /\ Queued /\ [Next]_vars => Queued'
  BY QueuedStep
<1> QED
  BY <1>1, <1>2, TypesInvariant, PTL DEF Spec

-----------------------------------------------------------------------------
(* Names and verdicts *)

(* No two connections share a pool thread's name. *)
Few == Cardinality(Accepted) <= MAX_THREAD_SIZE

(* As long as that is so, every accepted connection has been given a       *)
(* thread of its own, and names are given in that order.                   *)
NamesApart ==
    /\ poolSize = Cardinality(Accepted)
    /\ \A k \in 1..MAX_THREAD_SIZE, c \in Conns :
          mThreadName[c] = Name(k) =>
              k <= poolSize /\ (acceptor = "name" => k < poolSize)
    /\ \A c, d \in Conns :
          mThreadName[c] = mThreadName[d] /\ mThreadName[c] # Null => c = d
    /\ \A c \in Conns : c \notin Accepted => mThreadName[c] = Null
    /\ acceptor \in {"name", "list", "map"} => current \in Accepted
    /\ acceptor = "name" => mThreadName[current] = Null
    /\ acceptor \in {"list", "map"} => mThreadName[current] # Null

(* A name leads to the connection that has it, and to no other; a          *)
(* connection is listed before it can be found.                            *)
MapApart ==
    /\ \A n \in Names : mConnectionMap[n] # Null =>
          /\ mThreadName[mConnectionMap[n]] = n
          /\ mNetWorkInfos[n] # Null
          /\ mNetWorkInfos[n].remoteIp = mConnectionMap[n]
    /\ acceptor \in {"name", "list"} =>
          \A n \in Names : mConnectionMap[n] # current
    /\ acceptor = "map" =>
          /\ mNetWorkInfos[mThreadName[current]] # Null
          /\ mNetWorkInfos[mThreadName[current]].remoteIp = current
    /\ \A c \in Conns : threadName[c] # Null => threadName[c] = mThreadName[c]

(* Everything but the accepting thread leaves its state and the names      *)
(* alone, and accepts nothing.                                             *)
LEMMA OthersDoNotAccept ==
    ASSUME Types, Queued, [Next]_vars
    PROVE  \/ SocketServerConnectionThread
           \/ /\ UNCHANGED <<accepting, mThreadName, mConnectionMap>>
              /\ Accepted' = Accepted
<1>1. CASE takeFromQueue
  <2>1. /\ Head(sPoolWorkQueue) = sPoolWorkQueue[1]
        /\ 1 \in 1..Len(sPoolWorkQueue) /\ Head(sPoolWorkQueue) \in Conns
    BY <1>1 DEF Types, takeFromQueue
  <2>2. pc[Head(sPoolWorkQueue)] = "queued"
    BY <2>1 DEF Queued
  <2> QED
    BY <1>1, <2>1, <2>2 DEF Types, registered, takeFromQueue, Accepted
<1>2. ASSUME NEW c \in Conns,
             \/ ServerConnection(c) \/ verdictArrives(c) \/ receiveAuthorize(c)
             \/ receiveAnswer(c) \/ receiveOther(c) \/ tabletGoes(c)
      PROVE  /\ UNCHANGED <<accepting, mThreadName, mConnectionMap>>
             /\ Accepted' = Accepted
  <2> USE <1>2 DEF ServerConnection, verdictArrives, runOpen, runOpened,
                   runFails, runTest, stopConnection, setAutorizeCheckPass,
                   passUnfound, reportApproved, handled, sendAuthorizePackage,
                   receiveAuthorize, receiveAnswer, receiveOther, tabletGoes
  <2>1. UNCHANGED <<accepting, mThreadName, mConnectionMap>>
    BY DEF registered
  <2>2. Accepted' = Accepted
    BY DEF Types, reading, Accepted
  <2> QED
    BY <2>1, <2>2
<1> QED
  BY <1>1, <1>2 DEF Next, vars, registered, Accepted

LEMMA AcceptedGrows ==
    ASSUME Types, Queued, [Next]_vars, Few'
    PROVE  Few
<1>1. Accepted \subseteq Accepted'
  BY OthersDoNotAccept
     DEF Accepted, SocketServerConnectionThread, acceptAndExecute,
         setThreadName, onNewConnection, putConnection, Types
<1>2. IsFiniteSet(Accepted') /\ Cardinality(Accepted') \in Nat
  BY ConnsAssumption, FS_Subset, FS_CardinalityType DEF Accepted
<1>3. Cardinality(Accepted) <= Cardinality(Accepted')
  BY <1>1, <1>2, FS_Subset
<1> QED
  BY <1>2, <1>3, AcceptedIsFinite, PoolAssumption DEF Few

LEMMA NameIsInjective ==
    ASSUME NEW j, NEW k, Name(j) = Name(k)
    PROVE  j = k
BY DEF Name

LEMMA NamesApartStep ==
    ASSUME Types, Registering, Queued, Few', NamesApart, [Next]_vars
    PROVE  NamesApart'
<1> USE NullAssumption DEF Types
<1>0. poolSize \in Nat /\ poolSize = Cardinality(Accepted)
  BY AcceptedIsFinite DEF NamesApart
<1>1. ASSUME NEW c \in Conns, acceptAndExecute(c) PROVE NamesApart'
  <2>1. /\ c \notin Accepted
        /\ pc'[c] # "rejected" => Accepted' = Accepted \cup {c}
    BY <1>1 DEF acceptAndExecute, Accepted
  <2>2. pc'[c] # "rejected" => Cardinality(Accepted') = Cardinality(Accepted) + 1
    BY <2>1, AcceptedIsFinite, FS_AddElement
  <2>3. CASE pc' = [pc EXCEPT ![c] = "open"]
    <3>1. /\ mCount' = mCount + 1 /\ acceptor' = "name" /\ current' = c
          /\ c \in Accepted' /\ Accepted \subseteq Accepted'
          /\ mThreadName' = mThreadName
      BY <1>1, <2>3 DEF acceptAndExecute, registered, Accepted
    <3>2. poolSize' = Cardinality(Accepted')
      BY <1>0, <2>2, <2>3, <3>1 DEF poolSize
    <3>3. poolSize' = poolSize + 1
      BY <3>1 DEF poolSize
    <3> QED
      BY <1>0, <2>1, <3>1, <3>2, <3>3 DEF NamesApart
  <2>4. CASE pc' = [pc EXCEPT ![c] = "queued"]
    <3>1. poolSize = MAX_THREAD_SIZE
      BY <1>1, <2>4 DEF acceptAndExecute
    <3> QED
      BY <1>0, <2>2, <2>4, <3>1 DEF Few
  <2>5. CASE pc' = [pc EXCEPT ![c] = "rejected"]
    <3>1. /\ acceptor' = "dead"
          /\ UNCHANGED <<current, mCount, mThreadName>>
          /\ Accepted' = Accepted /\ poolSize' = poolSize
      BY <1>1, <2>5 DEF acceptAndExecute, registered, Accepted, poolSize
    <3> QED
      BY <2>5, <3>1 DEF NamesApart
  <2> QED
    BY <1>1, <2>3, <2>4, <2>5 DEF acceptAndExecute
<1>2. CASE setThreadName
  <2>1. /\ acceptor = "name" /\ acceptor' = "list" /\ current \in Conns
        /\ mThreadName' = [mThreadName EXCEPT ![current] = Name(poolSize)]
        /\ UNCHANGED <<current, mCount, pc>>
        /\ Accepted' = Accepted /\ poolSize' = poolSize
    BY <1>2 DEF setThreadName, Registering, poolSize, Accepted
  <2>2. Name(poolSize) \in Names /\ poolSize \in 1..MAX_THREAD_SIZE
    BY <1>0, <2>1, NameOfThread, PoolAssumption DEF poolSize, Registering
  <2>3. \A c \in Conns : mThreadName[c] # Name(poolSize)
    BY <1>0, <2>1, <2>2 DEF NamesApart
  <2>4. \A k \in 1..MAX_THREAD_SIZE : Name(poolSize) = Name(k) => k = poolSize
    BY NameIsInjective
  <2>5. \A k \in 1..MAX_THREAD_SIZE, c \in Conns :
           mThreadName'[c] = Name(k) => k <= poolSize
    BY <1>0, <2>1, <2>4 DEF NamesApart
  <2>6. \A c, d \in Conns :
           mThreadName'[c] = mThreadName'[d] /\ mThreadName'[c] # Null => c = d
    BY <2>1, <2>3 DEF NamesApart
  <2> QED
    BY <2>1, <2>2, <2>5, <2>6 DEF NamesApart
<1>3. CASE onNewConnection \/ putConnection
  <2>1. /\ acceptor' \in {"map", "accept"} /\ acceptor \in {"list", "map"}
        /\ UNCHANGED <<current, mCount, pc, mThreadName>>
        /\ Accepted' = Accepted /\ poolSize' = poolSize
    BY <1>3 DEF onNewConnection, putConnection, Accepted, poolSize
  <2> QED
    BY <2>1 DEF NamesApart
<1>4. CASE /\ UNCHANGED <<accepting, mThreadName, mConnectionMap>>
           /\ Accepted' = Accepted
  <2>1. /\ UNCHANGED <<acceptor, current, mCount, mThreadName>>
        /\ poolSize' = poolSize
    BY <1>4 DEF accepting, poolSize
  <2>2. acceptor \in {"name", "list", "map"} => current \in Conns
    BY DEF Registering
  <2> QED
    BY <1>4, <2>1, <2>2 DEF NamesApart
<1> QED
  BY <1>1, <1>2, <1>3, <1>4, OthersDoNotAccept DEF SocketServerConnectionThread

(* Publishing a status changes the status of that name and nothing else.   *)
LEMMA OnlyTheStatus ==
    ASSUME Types, NEW name \in Names \cup {Null}, NEW newStatus \in Status,
           onConnectionStatutChange(name, newStatus)
    PROVE  \A n \in Names :
              /\ mNetWorkInfos'[n] # Null <=> mNetWorkInfos[n] # Null
              /\ n # name => mNetWorkInfos'[n] = mNetWorkInfos[n]
              /\ mNetWorkInfos[n] # Null =>
                    mNetWorkInfos'[n].remoteIp = mNetWorkInfos[n].remoteIp
              /\ mNetWorkInfos[n] # Null /\ n = name =>
                    mNetWorkInfos'[n] =
                        [remoteIp |-> mNetWorkInfos[n].remoteIp,
                         status |-> newStatus]
<1> TAKE n \in Names
<1> USE NullAssumption DEF Types, onConnectionStatutChange, NetWorkInfo
<1>1. CASE n # name \/ mNetWorkInfos[n] = Null
  BY <1>1
<1>2. CASE n = name /\ mNetWorkInfos[n] # Null
  <2>1. mNetWorkInfos[n] \in NetWorkInfo
    BY <1>2
  <2>2. mNetWorkInfos'[n] = [mNetWorkInfos[n] EXCEPT !.status = newStatus]
    BY <1>2
  <2>3. mNetWorkInfos'[n] = [remoteIp |-> mNetWorkInfos[n].remoteIp,
                             status |-> newStatus]
    BY <2>1, <2>2
  <2>4. mNetWorkInfos'[n] \in NetWorkInfo
    BY <2>1, <2>3
  <2> QED
    BY <1>2, <2>3, <2>4
<1> QED
  BY <1>1, <1>2

LEMMA MapApartStep ==
    ASSUME Types, Registering, NamesApart, MapApart, [Next]_vars
    PROVE  MapApart'
<1> USE NullAssumption, ConnsAssumption DEF Types
<1>1. ASSUME NEW c \in Conns, acceptAndExecute(c) PROVE MapApart'
  <2>1. /\ UNCHANGED <<mThreadName, mConnectionMap, mNetWorkInfos, threadName>>
        /\ acceptor' \in {"name", "dead"}
        /\ acceptor' = "name" => current' = c
        /\ c \notin Accepted
    BY <1>1 DEF acceptAndExecute, registered, calls, Accepted
  <2>2. \A n \in Names : mConnectionMap[n] # c
    BY <2>1 DEF NamesApart, MapApart
  <2> QED
    BY <2>1, <2>2 DEF MapApart
<1>2. CASE setThreadName
  <2>1. /\ acceptor = "name" /\ acceptor' = "list" /\ current \in Conns
        /\ mThreadName' = [mThreadName EXCEPT ![current] = Name(mCount - 1)]
        /\ UNCHANGED <<current, mConnectionMap, mNetWorkInfos, threadName>>
    BY <1>2 DEF setThreadName, Registering, calls
  <2>2. threadName[current] = Null
    BY <2>1 DEF NamesApart, MapApart
  <2> QED
    BY <2>1, <2>2 DEF MapApart
<1>3. CASE onNewConnection
  <2> DEFINE n == mThreadName[current]
  <2>1. /\ acceptor = "list" /\ acceptor' = "map" /\ current \in Conns
        /\ mNetWorkInfos' = [mNetWorkInfos EXCEPT ![n] =
                                [remoteIp |-> current, status |-> "NOT_INIT"]]
        /\ UNCHANGED <<current, mThreadName, mConnectionMap, threadName>>
    BY <1>3 DEF onNewConnection, Registering, calls
  <2>2. n \in Names
    BY <2>1 DEF NamesApart
  <2>3. mConnectionMap[n] = Null
    BY <2>1, <2>2 DEF NamesApart, MapApart
  <2>4. [remoteIp |-> current, status |-> "NOT_INIT"] # Null
    BY <2>1 DEF NetWorkInfo, Status
  <2> QED
    BY <2>1, <2>2, <2>3, <2>4 DEF MapApart
<1>4. CASE putConnection
  <2>1. /\ acceptor = "map" /\ acceptor' = "accept" /\ current \in Conns
        /\ mConnectionMap' = [mConnectionMap EXCEPT ![mThreadName[current]] =
                                 current]
        /\ UNCHANGED <<current, mThreadName, mNetWorkInfos, threadName>>
    BY <1>4 DEF putConnection, Registering, calls
  <2>2. mThreadName[current] \in Names
    BY <2>1 DEF NamesApart
  <2> QED
    BY <2>1, <2>2 DEF MapApart
<1>5. ASSUME UNCHANGED <<accepting, mThreadName, mConnectionMap>>,
             NEW name \in Names \cup {Null}, NEW newStatus \in Status,
             onConnectionStatutChange(name, newStatus),
             \A c \in Conns : threadName'[c] \in {threadName[c], Null}
      PROVE  MapApart'
  <2>1. acceptor \in {"name", "list", "map"} => current \in Conns
    BY DEF Registering
  <2>2. acceptor = "map" => mThreadName[current] \in Names
    BY <2>1 DEF NamesApart
  <2>3. UNCHANGED <<acceptor, current>>
    BY <1>5 DEF accepting
  <2>4. \A n \in Names :
           /\ mNetWorkInfos'[n] # Null <=> mNetWorkInfos[n] # Null
           /\ mNetWorkInfos[n] # Null =>
                 mNetWorkInfos'[n].remoteIp = mNetWorkInfos[n].remoteIp
    BY <1>5, OnlyTheStatus
  <2>5. \A n \in Names : mConnectionMap'[n] # Null =>
           /\ mThreadName'[mConnectionMap'[n]] = n
           /\ mNetWorkInfos'[n] # Null
           /\ mNetWorkInfos'[n].remoteIp = mConnectionMap'[n]
    BY <1>5, <2>4 DEF MapApart
  <2>6. \A c \in Conns : threadName'[c] # Null => threadName'[c] = mThreadName'[c]
    BY <1>5 DEF MapApart
  <2> QED
    BY <1>5, <2>1, <2>2, <2>3, <2>4, <2>5, <2>6 DEF MapApart
<1>6. ASSUME UNCHANGED <<accepting, mThreadName, mConnectionMap, mNetWorkInfos>>,
             \A c \in Conns : threadName'[c] \in {threadName[c], mThreadName[c],
                                                  Null}
      PROVE  MapApart'
  BY <1>6 DEF MapApart, accepting
<1>7. ASSUME NEW c \in Conns, runOpened(c) PROVE MapApart'
  <2>1. /\ onConnectionStatutChange(mThreadName[c], mConnectStatus[c])
        /\ UNCHANGED <<accepting, mThreadName, mConnectionMap, threadName>>
    BY <1>7 DEF runOpened, calls
  <2> QED
    BY <1>5, <2>1
<1>8. ASSUME NEW c \in Conns, reportApproved(c) PROVE MapApart'
  <2>1. /\ UNCHANGED <<accepting, mThreadName, mConnectionMap>>
        /\ \A d \in Conns : threadName'[d] \in {threadName[d], Null}
    BY <1>8 DEF reportApproved, handled
  <2>2. approved[c] \in Conns
    BY <1>8 DEF reportApproved
  <2>3. onConnectionStatutChange(mThreadName[approved[c]],
                                 mConnectStatus[approved[c]])
    BY <1>8 DEF reportApproved
  <2> QED
    BY <1>5, <2>1, <2>2, <2>3
<1>9. ASSUME NEW c \in Conns,
             \/ runOpen(c) \/ runFails(c) \/ runTest(c)
             \/ stopConnection(c) \/ passUnfound(c) \/ setAutorizeCheckPass(c)
             \/ verdictArrives(c) \/ receiveAuthorize(c) \/ receiveAnswer(c)
             \/ receiveOther(c) \/ tabletGoes(c)
      PROVE  MapApart'
  <2> USE <1>9 DEF runOpen, runFails, runTest, stopConnection, passUnfound,
                   setAutorizeCheckPass, handled, verdictArrives,
                   sendAuthorizePackage, receiveAuthorize, receiveAnswer,
                   receiveOther, tabletGoes
  <2>1. UNCHANGED <<accepting, mThreadName, mConnectionMap, mNetWorkInfos>>
    BY DEF registered
  <2>2. \A d \in Conns : threadName'[d] \in {threadName[d], mThreadName[d], Null}
    BY DEF calls
  <2> QED
    BY <1>6, <2>1, <2>2
<1>10. CASE takeFromQueue \/ UNCHANGED vars
  BY <1>6, <1>10 DEF takeFromQueue, vars, registered, calls
<1> QED
  BY <1>1, <1>2, <1>3, <1>4, <1>7, <1>8, <1>9, <1>10
     DEF Next, SocketServerConnectionThread, ServerConnection

(* A connection is CONNECTED by its own device's verdict, after it can be  *)
(* found; its status is listed, or its own thread is about to report it.   *)
ConnectedApart ==
    /\ \A c \in Conns : pc[c] = "pass" => c \in passed
    /\ \A c \in Conns : approved[c] # Null => approved[c] = c
    /\ \A c \in Conns : mConnectStatus[c] = "CONNECTED" =>
          /\ c \in passed
          /\ mThreadName[c] # Null
          /\ mConnectionMap[mThreadName[c]] = c
          /\ \/ mNetWorkInfos[mThreadName[c]].status = "CONNECTED"
             \/ approved[c] = c

(* A verdict is sent under the name that the connection had when the       *)
(* package came, or the history says that it had none.                     *)
SentApart ==
    ~ anonymous => \A c \in Conns :
        /\ pc[c] = "authorizing" => threadName[c] # Null
        /\ "pass" \in sent[c] => c \in passed

LEMMA ConnectedApartStep ==
    ASSUME Types, Registering, NamesApart, MapApart, ConnectedApart, [Next]_vars
    PROVE  ConnectedApart'
<1> USE NullAssumption, ConnsAssumption DEF Types
<1>1. ASSUME NEW c \in Conns, acceptAndExecute(c) PROVE ConnectedApart'
  <2>1. /\ UNCHANGED <<mThreadName, mConnectionMap, mNetWorkInfos,
                       mConnectStatus, approved, passed>>
        /\ \A d \in Conns : pc'[d] = "pass" => pc[d] = "pass"
    BY <1>1 DEF acceptAndExecute, registered, flags, calls, history
  <2> QED
    BY <2>1 DEF ConnectedApart
<1>2. CASE setThreadName
  <2>1. /\ acceptor = "name" /\ current \in Conns
        /\ mThreadName' = [mThreadName EXCEPT ![current] = Name(mCount - 1)]
        /\ UNCHANGED <<mConnectionMap, mNetWorkInfos, mConnectStatus, approved,
                       passed, pc>>
    BY <1>2 DEF setThreadName, Registering, flags, calls, history
  <2>2. mConnectStatus[current] # "CONNECTED"
    BY <2>1 DEF NamesApart, ConnectedApart
  <2> QED
    BY <2>1, <2>2 DEF ConnectedApart
<1>3. CASE onNewConnection
  <2> DEFINE n == mThreadName[current]
  <2>1. /\ acceptor = "list" /\ current \in Conns
        /\ mNetWorkInfos' = [mNetWorkInfos EXCEPT ![n] =
                                [remoteIp |-> current, status |-> "NOT_INIT"]]
        /\ UNCHANGED <<mThreadName, mConnectionMap, mConnectStatus, approved,
                       passed, pc>>
    BY <1>3 DEF onNewConnection, Registering, flags, calls, history
  <2>2. n \in Names
    BY <2>1 DEF NamesApart
  <2>3. \A c \in Conns : mConnectStatus[c] = "CONNECTED" => mThreadName[c] # n
    BY <2>1, <2>2 DEF MapApart, NamesApart, ConnectedApart
  <2> QED
    BY <2>1, <2>2, <2>3 DEF ConnectedApart
<1>4. CASE putConnection
  <2>1. /\ acceptor = "map" /\ current \in Conns
        /\ mConnectionMap' = [mConnectionMap EXCEPT ![mThreadName[current]] =
                                 current]
        /\ UNCHANGED <<mThreadName, mNetWorkInfos, mConnectStatus, approved,
                       passed, pc>>
    BY <1>4 DEF putConnection, Registering, flags, calls, history
  <2>2. mThreadName[current] \in Names
    BY <2>1 DEF NamesApart
  <2> QED
    BY <2>1, <2>2 DEF ConnectedApart, NamesApart
<1>5. ASSUME NEW c \in Conns, NEW newStatus \in Status,
             NEW name \in Names \cup {Null},
             name = mThreadName[c], newStatus = mConnectStatus[c],
             onConnectionStatutChange(name, newStatus),
             UNCHANGED <<mThreadName, mConnectionMap, mConnectStatus, passed>>,
             \A d \in Conns : pc'[d] = "pass" => pc[d] = "pass",
             \A d \in Conns : approved'[d] = approved[d]
                              \/ (d = c /\ approved'[d] = Null)
      PROVE  ConnectedApart'
  <2>1. \A d \in Conns : mThreadName[d] \in Names \cup {Null}
    OBVIOUS
  <2>2. \A n \in Names : mConnectionMap[n] # Null => mNetWorkInfos[n] # Null
    BY DEF MapApart
  <2> HIDE DEF Types
  <2>3. \A n \in Names : n # name =>
           mNetWorkInfos'[n] = mNetWorkInfos[n]
    BY <1>5, <2>1, OnlyTheStatus, ZenonT(30)
  <2>4. \A n \in Names : n = name /\ mNetWorkInfos[n] # Null =>
           mNetWorkInfos'[n].status = newStatus
    <3>1. \A n \in Names : mNetWorkInfos[n] # Null /\ n = name =>
             mNetWorkInfos'[n] = [remoteIp |-> mNetWorkInfos[n].remoteIp,
                                  status |-> newStatus]
      BY <1>5, OnlyTheStatus, ZenonT(30)
    <3>2. TAKE n \in Names
    <3>3. HAVE n = name /\ mNetWorkInfos[n] # Null
    <3>4. mNetWorkInfos'[n] = [remoteIp |-> mNetWorkInfos[n].remoteIp,
                               status |-> newStatus]
      BY <3>1, <3>3, Zenon
    <3> QED
      BY <3>4
  <2>5. \A d \in Conns : mConnectStatus[d] = "CONNECTED" =>
           /\ mThreadName[d] \in Names
           /\ mNetWorkInfos[mThreadName[d]] # Null
           /\ d # c => mThreadName[d] # mThreadName[c]
    BY <2>1, <2>2 DEF ConnectedApart, NamesApart
  <2>6. \A d \in Conns : mConnectStatus[d] = "CONNECTED" =>
           \/ mNetWorkInfos'[mThreadName[d]].status = "CONNECTED"
           \/ approved'[d] = d
    <3> TAKE d \in Conns
    <3>1. CASE d = c
      BY <1>5, <2>4, <2>5, <3>1
    <3>2. CASE d # c
      BY <1>5, <2>3, <2>5, <3>2 DEF ConnectedApart
    <3> QED
      BY <3>1, <3>2
  <2> QED
    BY <1>5, <2>6 DEF ConnectedApart
<1>11. ASSUME NEW c \in Conns, runOpened(c) PROVE ConnectedApart'
  <2>1. /\ onConnectionStatutChange(mThreadName[c], mConnectStatus[c])
        /\ UNCHANGED <<mThreadName, mConnectionMap, mConnectStatus, passed,
                       approved>>
        /\ \A d \in Conns : pc'[d] = "pass" => pc[d] = "pass"
    BY <1>11 DEF runOpened, calls, history
  <2> QED
    BY <1>5, <2>1
<1>12. ASSUME NEW c \in Conns, reportApproved(c) PROVE ConnectedApart'
  <2>1. approved[c] = c
    BY <1>12 DEF reportApproved, ConnectedApart
  <2>2. /\ onConnectionStatutChange(mThreadName[c], mConnectStatus[c])
        /\ UNCHANGED <<mThreadName, mConnectionMap, mConnectStatus, passed>>
        /\ \A d \in Conns : pc'[d] = "pass" => pc[d] = "pass"
        /\ \A d \in Conns : approved'[d] = approved[d]
                             \/ (d = c /\ approved'[d] = Null)
    BY <1>12, <2>1 DEF reportApproved, handled, history
  <2> QED
    BY <1>5, <2>2
<1>13. ASSUME NEW c \in Conns, runOpen(c) PROVE ConnectedApart'
  <2>1. /\ mConnectStatus' = [mConnectStatus EXCEPT ![c] = "UNAUTHORIZED"]
        /\ UNCHANGED <<mThreadName, mConnectionMap, mNetWorkInfos, approved,
                       passed>>
        /\ \A d \in Conns : pc'[d] = "pass" => pc[d] = "pass"
    BY <1>13 DEF runOpen, registered, calls, history
  <2>2. \A d \in Conns : mConnectStatus'[d] = "CONNECTED" =>
           mConnectStatus[d] = "CONNECTED"
    BY <2>1
  <2> QED
    BY <2>1, <2>2 DEF ConnectedApart
<1>6. ASSUME NEW c \in Conns, setAutorizeCheckPass(c) PROVE ConnectedApart'
  <2> DEFINE t == getConnection(threadName[c])
             n == threadName[c]
  <2>1. /\ UNCHANGED <<mThreadName, mConnectionMap, mNetWorkInfos, passed>>
        /\ \A d \in Conns : pc'[d] = "pass" => pc[d] = "pass"
        /\ c \in passed /\ t # Null
        /\ mConnectStatus' = [mConnectStatus EXCEPT ![t] = "CONNECTED"]
        /\ approved' = [approved EXCEPT ![c] = t]
    BY <1>6 DEF setAutorizeCheckPass, registered, history, ConnectedApart
  <2>2. n \in Names /\ mConnectionMap[n] = t
    BY <2>1 DEF getConnection
  <2>3. t = c /\ mThreadName[c] = n
    BY <2>1, <2>2 DEF NamesApart, MapApart
  <2>4. \A d \in Conns : mConnectStatus'[d] = "CONNECTED" =>
           mConnectStatus[d] = "CONNECTED" \/ d = c
    BY <2>1, <2>3
  <2>5. \A d \in Conns : approved'[d] = IF d = c THEN c ELSE approved[d]
    BY <2>1, <2>3
  <2> HIDE DEF t, n, Types
  <2> QED
    BY <2>1, <2>2, <2>3, <2>4, <2>5 DEF ConnectedApart
<1>7. ASSUME NEW c \in Conns, NEW result \in {"pass", "failed"},
             sendAuthorizePackage(c, result)
      PROVE  ConnectedApart'
  <2>1. /\ UNCHANGED <<mThreadName, mConnectionMap, mNetWorkInfos,
                       mConnectStatus, approved>>
        /\ passed \subseteq passed'
        /\ \A d \in Conns : pc'[d] = "pass" => pc[d] = "pass" \/ d \in passed'
    BY <1>7 DEF sendAuthorizePackage, registered, flags, calls
  <2> QED
    BY <2>1 DEF ConnectedApart
<1>8. ASSUME NEW c \in Conns,
             \/ runFails(c) \/ runTest(c) \/ stopConnection(c) \/ passUnfound(c)
             \/ receiveAuthorize(c) \/ receiveAnswer(c)
             \/ receiveOther(c) \/ tabletGoes(c)
      PROVE  ConnectedApart'
  <2> USE <1>8 DEF runFails, runTest, stopConnection, passUnfound, handled,
                   receiveAuthorize, receiveAnswer, receiveOther, tabletGoes
  <2>1. UNCHANGED <<mThreadName, mConnectionMap, mNetWorkInfos, mConnectStatus,
                    approved, passed>>
    BY DEF registered, flags, calls, history
  <2>2. \A d \in Conns : pc'[d] = "pass" => pc[d] = "pass"
    OBVIOUS
  <2> QED
    BY <2>1, <2>2 DEF ConnectedApart
<1>9. CASE takeFromQueue
  <2>1. /\ UNCHANGED <<mThreadName, mConnectionMap, mNetWorkInfos,
                       mConnectStatus, approved, passed>>
        /\ \A d \in Conns : pc'[d] = "pass" => pc[d] = "pass"
    BY <1>9 DEF takeFromQueue, registered, flags, calls, history
  <2> QED
    BY <2>1 DEF ConnectedApart
<1>10. CASE UNCHANGED vars
  BY <1>10 DEF vars, registered, flags, calls, history, ConnectedApart
<1> QED
  BY <1>1, <1>2, <1>3, <1>4, <1>6, <1>7, <1>8, <1>9, <1>10, <1>11, <1>12, <1>13
     DEF Next, SocketServerConnectionThread, ServerConnection, verdictArrives

LEMMA SentApartStep ==
    ASSUME Types, NamesApart, MapApart, SentApart, [Next]_vars
    PROVE  SentApart'
<1> USE NullAssumption, ConnsAssumption DEF Types
<1>1. ASSUME NEW c \in Conns, receiveAuthorize(c) PROVE SentApart'
  <2>1. /\ threadName' = [threadName EXCEPT ![c] = mThreadName[c]]
        /\ pc' = [pc EXCEPT ![c] = "authorizing"]
        /\ UNCHANGED <<sent, passed>>
        /\ anonymous' = (anonymous \/ mThreadName[c] = Null)
    BY <1>1 DEF receiveAuthorize
  <2>2. ~ anonymous' => ~ anonymous /\ mThreadName[c] # Null
    BY <2>1
  <2> QED
    BY <2>1, <2>2 DEF SentApart
<1>2. ASSUME NEW c \in Conns, NEW result \in {"pass", "failed"},
             sendAuthorizePackage(c, result)
      PROVE  SentApart'
  <2>1. /\ anonymous' = anonymous /\ threadName' = threadName
        /\ passed' = IF result = "pass" THEN passed \cup {c} ELSE passed
        /\ pc' = [pc EXCEPT ![c] = result]
        /\ pc[c] = "authorizing"
        /\ sendDataToTarget(threadName[c], result)
    BY <1>2 DEF sendAuthorizePackage, calls
  <2> SUFFICES ASSUME ~ anonymous, NEW d \in Conns
               PROVE  /\ pc'[d] = "authorizing" => threadName'[d] # Null
                      /\ "pass" \in sent'[d] => d \in passed'
    BY <2>1 DEF SentApart
  <2>2. pc'[d] = "authorizing" => threadName'[d] # Null
    BY <2>1 DEF SentApart
  <2>3. threadName[c] # Null /\ threadName[c] = mThreadName[c]
    BY <2>1 DEF SentApart, MapApart
  <2>4. d \in targets(threadName[c]) => d = c
    BY <2>3 DEF targets, NamesApart, MapApart
  <2>5. "pass" \in sent'[d] =>
           "pass" \in sent[d] \/ (d \in targets(threadName[c]) /\ result = "pass")
    BY <2>1 DEF sendDataToTarget
  <2>6. "pass" \in sent'[d] => d \in passed'
    BY <2>1, <2>4, <2>5 DEF SentApart
  <2> QED
    BY <2>2, <2>6
<1>3. ASSUME UNCHANGED <<sent, passed>>, anonymous' = anonymous,
             \A c \in Conns : pc'[c] = "authorizing" =>
                 pc[c] = "authorizing" /\ threadName'[c] = threadName[c]
      PROVE  SentApart'
  BY <1>3 DEF SentApart
<1>4. ASSUME NEW c \in Conns,
             \/ acceptAndExecute(c) \/ ServerConnection(c) \/ receiveAnswer(c)
             \/ receiveOther(c) \/ tabletGoes(c)
      PROVE  SentApart'
  <2>1. UNCHANGED <<sent, passed>> /\ anonymous' = anonymous
    BY <1>4 DEF acceptAndExecute, ServerConnection, runOpen, runOpened,
                runFails, runTest, stopConnection, setAutorizeCheckPass,
                passUnfound, reportApproved, handled, receiveAnswer,
                receiveOther, tabletGoes, calls, history
  <2>2. \A d \in Conns : pc'[d] = "authorizing" =>
           pc[d] = "authorizing" /\ threadName'[d] = threadName[d]
    BY <1>4 DEF acceptAndExecute, ServerConnection, runOpen, runOpened,
                runFails, runTest, stopConnection, setAutorizeCheckPass,
                passUnfound, reportApproved, handled, receiveAnswer,
                receiveOther, tabletGoes, calls
  <2> QED
    BY <1>3, <2>1, <2>2
<1>5. CASE setThreadName \/ onNewConnection \/ putConnection \/ takeFromQueue
           \/ UNCHANGED vars
  <2>1. UNCHANGED <<sent, passed>> /\ anonymous' = anonymous
    BY <1>5 DEF setThreadName, onNewConnection, putConnection, takeFromQueue,
                vars, calls, history
  <2>2. \A d \in Conns : pc'[d] = "authorizing" =>
           pc[d] = "authorizing" /\ threadName'[d] = threadName[d]
    BY <1>5 DEF setThreadName, onNewConnection, putConnection, takeFromQueue,
                vars, calls
  <2> QED
    BY <1>3, <2>1, <2>2
<1> QED
  BY <1>1, <1>2, <1>4, <1>5
     DEF Next, SocketServerConnectionThread, verdictArrives

Apart == Few => NamesApart /\ MapApart /\ ConnectedApart /\ SentApart

LEMMA ApartInvariant == Spec => []Apart
<1>1. Init => Apart
  <2> SUFFICES ASSUME Init PROVE NamesApart /\ MapApart /\ ConnectedApart /\ SentApart
    BY DEF Apart
  <2> USE NullAssumption DEF Init
  <2>1. Accepted = {} /\ Cardinality(Accepted) = 0
    BY FS_EmptySet DEF Accepted
  <2>2. NamesApart
    BY <2>1 DEF NamesApart, poolSize, Names
  <2>3. MapApart
    BY DEF MapApart
  <2>4. ConnectedApart /\ SentApart
    BY DEF ConnectedApart, SentApart
  <2> QED
    BY <2>2, <2>3, <2>4
<1>2. Types /\ Registering /\ Queued /\ Apart /\ [Next]_vars => Apart'
  BY AcceptedGrows, NamesApartStep, MapApartStep, ConnectedApartStep,
     SentApartStep DEF Apart
<1> QED
  BY <1>1, <1>2, TypesInvariant, QueuedInvariant, PTL DEF Spec

(* As long as no connection has to share a pool thread's name, a           *)
(* connection is CONNECTED only by the verdict on its own device, and only *)
(* a device that passed is told so, for every size of the pool.            *)
THEOREM VerdictsAreApart == Spec => []VerdictsStayApart
<1>1. Apart => VerdictsStayApart
  BY DEF Apart, Few, ConnectedApart, SentApart, VerdictsStayApart
<1> QED
  BY <1>1, ApartInvariant, PTL

(* ... and it is listed under its own address, as CONNECTED once the       *)
(* thread that approved it has told the listener.                          *)
THEOREM ConnectedAreListed == Spec => []ConnectedIsListed
<1>1. Types /\ Apart => ConnectedIsListed
  <2> SUFFICES ASSUME Types, MapApart, ConnectedApart, NEW c \in Conns,
                      mConnectStatus[c] = "CONNECTED"
               PROVE  /\ mThreadName[c] # Null
                      /\ mNetWorkInfos[mThreadName[c]] # Null
                      /\ mNetWorkInfos[mThreadName[c]].remoteIp = c
                      /\ \/ mNetWorkInfos[mThreadName[c]].status = "CONNECTED"
                         \/ \E d \in Conns : approved[d] = c
    BY DEF Apart, Few, ConnectedIsListed
  <2>1. mThreadName[c] \in Names
    BY DEF Types, ConnectedApart
  <2>2. mConnectionMap[mThreadName[c]] # Null
    BY ConnsAssumption DEF ConnectedApart
  <2> QED
    BY <2>1, <2>2 DEF MapApart, ConnectedApart
<1> QED
  BY <1>1, ApartInvariant, TypesInvariant, PTL

-----------------------------------------------------------------------------
(* A connection outside the pool is in no table, and the connection that   *)
(* is being registered is in the pool: execute() has not thrown.           *)
NoTrace ==
    /\ acceptor \in {"name", "list", "map"} => current \in Accepted
    /\ \A c \in Conns \ Accepted :
          /\ mThreadName[c] = Null
          /\ \A n \in Names :
                /\ mConnectionMap[n] # c
                /\ mNetWorkInfos[n] = Null \/ mNetWorkInfos[n].remoteIp # c
          /\ mConnectStatus[c] = "NOT_INIT"
          /\ sent[c] = {}

LEMMA NoTraceStep ==
    ASSUME Types, Registering, Queued, NoTrace, [Next]_vars
    PROVE  NoTrace'
<1> USE NullAssumption, ConnsAssumption DEF Types
<1>1. ASSUME NEW c \in Conns, acceptAndExecute(c) PROVE NoTrace'
  <2>1. /\ UNCHANGED <<mThreadName, mConnectionMap, mNetWorkInfos,
                       mConnectStatus, sent>>
        /\ Accepted \subseteq Accepted'
        /\ acceptor' # "dead" => current' = c /\ c \in Accepted'
        /\ acceptor' \in {"name", "dead"}
    BY <1>1 DEF acceptAndExecute, registered, flags, Accepted
  <2> QED
    BY <2>1 DEF NoTrace
<1>2. CASE setThreadName \/ onNewConnection \/ putConnection
  <2>1. /\ current \in Accepted /\ current \in Conns
        /\ current' = current /\ Accepted' = Accepted
        /\ UNCHANGED <<mConnectStatus, sent>>
    BY <1>2 DEF setThreadName, onNewConnection, putConnection, NoTrace,
                Registering, flags, Accepted
  <2>2. \A c \in Conns \ Accepted : mThreadName'[c] = mThreadName[c]
    BY <1>2, <2>1 DEF setThreadName, onNewConnection, putConnection
  <2>3. \A c \in Conns \ Accepted, n \in Names :
           mConnectionMap'[n] # c
    BY <1>2, <2>1 DEF setThreadName, onNewConnection, putConnection, NoTrace
  <2>4. \A c \in Conns \ Accepted, n \in Names :
           mNetWorkInfos'[n] = Null \/ mNetWorkInfos'[n].remoteIp # c
    BY <1>2, <2>1 DEF setThreadName, onNewConnection, putConnection, NoTrace
  <2> QED
    BY <2>1, <2>2, <2>3, <2>4 DEF NoTrace
<1>3. ASSUME UNCHANGED <<accepting, mThreadName, mConnectionMap>>,
             Accepted' = Accepted,
             \A c \in Conns \ Accepted, n \in Names :
                 mNetWorkInfos'[n] = Null \/ mNetWorkInfos'[n].remoteIp # c,
             \A c \in Conns \ Accepted :
                 mConnectStatus'[c] = mConnectStatus[c] /\ sent'[c] = sent[c]
      PROVE  NoTrace'
  BY <1>3 DEF NoTrace, accepting
<1>4. \A c \in Conns \ Accepted, n \in Names :
         mNetWorkInfos[n] = Null \/ mNetWorkInfos[n].remoteIp # c
  BY DEF NoTrace
<1>5. ASSUME NEW name \in Names \cup {Null}, NEW newStatus \in Status,
             onConnectionStatutChange(name, newStatus)
      PROVE  \A c \in Conns \ Accepted, n \in Names :
                 mNetWorkInfos'[n] = Null \/ mNetWorkInfos'[n].remoteIp # c
  <2> HIDE DEF Types
  <2>1. \A n \in Names :
           /\ mNetWorkInfos'[n] # Null <=> mNetWorkInfos[n] # Null
           /\ mNetWorkInfos[n] # Null =>
                 mNetWorkInfos'[n].remoteIp = mNetWorkInfos[n].remoteIp
    BY <1>5, OnlyTheStatus
  <2> QED
    BY <1>4, <2>1
<1>6. ASSUME NEW c \in Conns, NEW result \in {"pass", "failed"},
             sendAuthorizePackage(c, result)
      PROVE  \A d \in Conns \ Accepted : sent'[d] = sent[d]
  <2>1. \A d \in Conns \ Accepted : d \notin targets(threadName[c])
    BY DEF targets, canSendData, NoTrace
  <2> QED
    BY <1>6, <2>1 DEF sendAuthorizePackage, sendDataToTarget
<1>7. ASSUME NEW c \in Conns, setAutorizeCheckPass(c)
      PROVE  \A d \in Conns \ Accepted : mConnectStatus'[d] = mConnectStatus[d]
  <2> DEFINE t == getConnection(threadName[c])
  <2>1. t # Null /\ mConnectStatus' = [mConnectStatus EXCEPT ![t] = "CONNECTED"]
    BY <1>7 DEF setAutorizeCheckPass
  <2>2. \A d \in Conns \ Accepted : d # t
    BY <2>1 DEF getConnection, NoTrace
  <2> HIDE DEF t
  <2> QED
    BY <2>1, <2>2
<1>8. ASSUME NEW c \in Conns, runOpen(c)
      PROVE  \A d \in Conns \ Accepted : mConnectStatus'[d] = mConnectStatus[d]
  <2>1. c \in Accepted
    BY <1>8 DEF runOpen, Accepted
  <2> QED
    BY <1>8, <2>1 DEF runOpen
<1>9. CASE /\ UNCHANGED <<accepting, mThreadName, mConnectionMap>>
           /\ Accepted' = Accepted
  <2>1. CASE UNCHANGED <<mNetWorkInfos, mConnectStatus, sent>>
    BY <1>3, <1>4, <1>9, <2>1
  <2>2. ASSUME NEW c \in Conns, runOpen(c) \/ setAutorizeCheckPass(c)
        PROVE  NoTrace'
    <3>1. UNCHANGED <<mNetWorkInfos, sent>>
      BY <2>2 DEF runOpen, setAutorizeCheckPass, registered
    <3> QED
      BY <1>3, <1>4, <1>7, <1>8, <1>9, <2>2, <3>1
  <2>3. ASSUME NEW c \in Conns, runOpened(c) PROVE NoTrace'
    <3>1. /\ onConnectionStatutChange(mThreadName[c], mConnectStatus[c])
          /\ UNCHANGED <<mConnectStatus, sent>>
      BY <2>3 DEF runOpened
    <3> QED
      BY <1>3, <1>5, <1>9, <3>1
  <2>4. ASSUME NEW c \in Conns, reportApproved(c) PROVE NoTrace'
    <3>1. /\ onConnectionStatutChange(mThreadName[approved[c]],
                                      mConnectStatus[approved[c]])
          /\ UNCHANGED <<mConnectStatus, sent>>
          /\ approved[c] \in Conns
      BY <2>4 DEF reportApproved, handled
    <3> QED
      BY <1>3, <1>5, <1>9, <3>1
  <2>5. ASSUME NEW c \in Conns, NEW result \in {"pass", "failed"},
               sendAuthorizePackage(c, result)
        PROVE  NoTrace'
    <3>1. UNCHANGED <<mNetWorkInfos, mConnectStatus>>
      BY <2>5 DEF sendAuthorizePackage, registered, flags
    <3> QED
      BY <1>3, <1>4, <1>6, <1>9, <2>5, <3>1
  <2> QED
    BY <1>1, <1>2, <2>1, <2>2, <2>3, <2>4, <2>5
       DEF Next, SocketServerConnectionThread, ServerConnection,
           verdictArrives, takeFromQueue, runFails, runTest, stopConnection,
           passUnfound, handled, receiveAuthorize, receiveAnswer,
           receiveOther, tabletGoes, vars, registered, flags
<1> QED
  BY <1>1, <1>2, <1>9, OthersDoNotAccept DEF SocketServerConnectionThread

(* A connection that the full pool turns away, and with it the accepting   *)
(* thread's end, leaves no trace in the tables that the phone sends and    *)
(* lists by, for every size of the pool and of its queue.                  *)
THEOREM TurnedAwayIsUnknown == Spec => []TurnedAwayLeavesNoTrace
<1>1. Init => NoTrace
  BY NullAssumption, ConnsAssumption DEF Init, NoTrace
<1>2. Types /\ Registering /\ Queued /\ NoTrace /\ [Next]_vars => NoTrace'
  BY NoTraceStep
<1>3. NoTrace => TurnedAwayLeavesNoTrace
  BY DEF NoTrace, TurnedAwayLeavesNoTrace, Accepted
<1> QED
  BY <1>1, <1>2, <1>3, TypesInvariant, QueuedInvariant, PTL DEF Spec
=============================================================================
