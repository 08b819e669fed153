----------------------- MODULE SocketDataSender_proofs -----------------------
(***************************************************************************)
(* Proofs about SocketDataSender, for any number of messages and           *)
(* heartbeats: type correctness, no lost wakeup, at most one task after a  *)
(* stop, every message accounted for, and the refinement of                *)
(* AtMostOnceSender.                                                       *)
(***************************************************************************)
EXTENDS SocketDataSender, TLAPS

(* The type invariant holds of every behaviour of the thread. *)
THEOREM Typing == Spec => []TypeOK
<1>1. Init => TypeOK
  <2> SUFFICES ASSUME Init PROVE TypeOK
    OBVIOUS
  <2>1. /\ tick \in BOOLEAN /\ mThreadStop \in BOOLEAN
        /\ mHeartbeatEnabled \in BOOLEAN /\ heard \in BOOLEAN
    BY DEF Init
  <2>2. mMessageTask \in Seq(Tasks)
    BY DEF Init
  <2>3. reported \in Seq([id : Nat \ {0}, success : BOOLEAN])
    BY DEF Init
  <2> QED
    BY <2>1, <2>2, <2>3 DEF Init, TypeOK, NoTask
<1>2. TypeOK /\ [Next]_vars => TypeOK'
  <2> SUFFICES ASSUME TypeOK, [Next]_vars PROVE TypeOK'
    OBVIOUS
  <2> USE DEF TypeOK, Tasks, Heartbeat, NoTask
  <2>1. CASE addMessage
    BY <2>1 DEF addMessage, notify
  <2>2. CASE TimerFires
    BY <2>2 DEF TimerFires
  <2>3. CASE TimerAdds
    <3>1. tick' \in BOOLEAN
      BY <2>3 DEF TimerAdds
    <3> QED
      BY <2>3, <3>1 DEF TimerAdds, addHeartbeatPackage, notify
  <2>4. CASE sendHeartbeatPackages
    BY <2>4 DEF sendHeartbeatPackages, addHeartbeatPackage, notify
  <2>5. CASE RunStart
    BY <2>5 DEF RunStart
  <2>6. CASE LoopTest
    BY <2>6 DEF LoopTest
  <2>7. CASE Wait
    BY <2>7 DEF Wait
  <2>8. CASE TakeTask
    BY <2>8 DEF TakeTask
  <2>9. CASE WriteTask
    <3> DEFINE Outcome == [id : Nat \ {0}, success : BOOLEAN]
    <3>1. PICK success \in BOOLEAN :
            reported' = IF task = Heartbeat THEN reported
                        ELSE Append(reported, [id |-> task, success |-> success])
      BY <2>9 DEF WriteTask
    <3>2. task # NoTask
      BY <2>9 DEF WriteTask
    <3>3. reported' \in Seq(Outcome)
      <4>1. CASE task = Heartbeat
        BY <3>1, <4>1
      <4>2. CASE task # Heartbeat
        <5>1. [id |-> task, success |-> success] \in Outcome
          BY <3>2, <4>2
        <5> QED
          BY <3>1, <4>2, <5>1
      <4> QED
        BY <4>1, <4>2
    <3> QED
      BY <2>9, <3>3 DEF WriteTask
  <2>10. CASE Exit
    BY <2>10 DEF Exit
  <2>11. CASE SpuriousWakeup
    BY <2>11 DEF SpuriousWakeup
  <2>12. CASE CloseStreams
    BY <2>12 DEF CloseStreams
  <2>13. CASE stopRuning
    BY <2>13 DEF stopRuning
  <2>14. CASE UNCHANGED vars
    BY <2>14 DEF vars
  <2> QED
    BY <2>1, <2>2, <2>3, <2>4, <2>5, <2>6, <2>7, <2>8, <2>9, <2>10, <2>11,
       <2>12, <2>13, <2>14 DEF Next, run
<1> QED
  BY <1>1, <1>2, PTL DEF Spec

-----------------------------------------------------------------------------
(* A sleeping sender has nothing to send, in every behaviour: addMessage,  *)
(* addHeartbeatPackage and wait() exclude each other by the monitor.       *)
THEOREM WakeupsAreNeverLost == Spec => []NoLostWakeup
<1>1. Init => NoLostWakeup
  BY DEF Init, NoLostWakeup
<1>2. NoLostWakeup /\ [Next]_vars => NoLostWakeup'
  BY DEF NoLostWakeup, Next, run, vars, addMessage, TimerFires, TimerAdds,
         sendHeartbeatPackages, addHeartbeatPackage, notify, RunStart,
         LoopTest, Wait, TakeTask, WriteTask, Exit, SpuriousWakeup,
         CloseStreams, stopRuning
<1> QED
  BY <1>1, <1>2, PTL DEF Spec

-----------------------------------------------------------------------------
(* AtMostOneAfterStop is not inductive: the flag a heard stop has set must *)
(* be known to stay set, since run() clears it only once, and a task taken *)
(* since must be known to be the last that run() came to the monitor for.  *)
StopInv ==
    /\ AtMostOneAfterStop
    /\ heard => mThreadStop /\ pc # "created"
    /\ ~ heard \/ pc \in {"created", "monitor", "waiting"} => late = 0

(* A stop that comes after line 75 bounds the work of run(): at most one   *)
(* more task is taken, in every behaviour.                                 *)
THEOREM StopIsBounded == Spec => []AtMostOneAfterStop
<1>1. Init => StopInv
  BY DEF Init, StopInv, AtMostOneAfterStop
<1>2. TypeOK /\ StopInv /\ [Next]_vars => StopInv'
  <2> SUFFICES ASSUME TypeOK, StopInv, [Next]_vars PROVE StopInv'
    OBVIOUS
  <2> USE DEF StopInv, AtMostOneAfterStop, TypeOK
  <2>1. CASE addMessage \/ TimerAdds \/ sendHeartbeatPackages
    BY <2>1 DEF addMessage, TimerAdds, sendHeartbeatPackages,
                addHeartbeatPackage, notify
  <2>2. CASE RunStart \/ LoopTest \/ Wait \/ SpuriousWakeup
    BY <2>2 DEF RunStart, LoopTest, Wait, SpuriousWakeup
  <2>3. CASE TakeTask
    BY <2>3 DEF TakeTask
  <2>4. CASE WriteTask \/ Exit \/ TimerFires
    BY <2>4 DEF WriteTask, Exit, TimerFires
  <2>5. CASE CloseStreams \/ stopRuning
    BY <2>5 DEF CloseStreams, stopRuning
  <2>6. CASE UNCHANGED vars
    BY <2>6 DEF vars
  <2> QED
    BY <2>1, <2>2, <2>3, <2>4, <2>5, <2>6 DEF Next, run
<1>3. StopInv => AtMostOneAfterStop
  BY DEF StopInv
<1> QED
  BY <1>1, <1>2, <1>3, Typing, PTL DEF Spec

-----------------------------------------------------------------------------
(* The elements of a sequence with one more at its end. *)
LEMMA ElementsOfAppend ==
    ASSUME NEW S, NEW s \in Seq(S), NEW e \in S
    PROVE  {Append(s, e)[i] : i \in 1..Len(Append(s, e))} =
               {s[i] : i \in 1..Len(s)} \cup {e}
<1> DEFINE t == Append(s, e)
<1>1. /\ Len(t) = Len(s) + 1
      /\ \A i \in 1..Len(s) : t[i] = s[i]
      /\ t[Len(s) + 1] = e
      /\ Len(s) \in Nat
  OBVIOUS
<1> HIDE DEF t
<1>2. \A x : x \in {t[i] : i \in 1..Len(t)} <=>
              x \in {s[i] : i \in 1..Len(s)} \cup {e}
  <2> SUFFICES ASSUME NEW x
               PROVE  (\E i \in 1..Len(t) : x = t[i]) <=>
                          ((\E i \in 1..Len(s) : x = s[i]) \/ x = e)
    OBVIOUS
  <2>1. ASSUME NEW i \in 1..Len(t), x = t[i]
        PROVE  (\E j \in 1..Len(s) : x = s[j]) \/ x = e
    <3>1. CASE i = Len(s) + 1
      BY <1>1, <2>1, <3>1
    <3>2. CASE i # Len(s) + 1
      <4>1. i \in 1..Len(s)
        BY <1>1, <3>2
      <4> QED
        BY <1>1, <2>1, <4>1
    <3> QED
      BY <3>1, <3>2
  <2>2. ASSUME NEW j \in 1..Len(s), x = s[j]
        PROVE  \E i \in 1..Len(t) : x = t[i]
    <3>1. j \in 1..Len(t) /\ t[j] = x
      BY <1>1, <2>2
    <3> QED
      BY <3>1
  <2>3. ASSUME x = e
        PROVE  \E i \in 1..Len(t) : x = t[i]
    <3>1. Len(s) + 1 \in 1..Len(t) /\ t[Len(s) + 1] = x
      BY <1>1, <2>3
    <3> QED
      BY <3>1
  <2> QED
    BY <2>1, <2>2, <2>3
<1> QED
  BY <1>2 DEF t

(* A prefix of length n has length n and the same elements. *)
LEMMA PrefixProperties ==
    ASSUME NEW S, NEW s \in Seq(S), NEW n \in Nat, n <= Len(s)
    PROVE  /\ SubSeq(s, 1, n) \in Seq(S)
           /\ Len(SubSeq(s, 1, n)) = n
           /\ \A i \in 1..n : SubSeq(s, 1, n)[i] = s[i]
  OBVIOUS

(* The elements of a sequence are those before its last and its last. *)
LEMMA ElementsOfFront ==
    ASSUME NEW S, NEW s \in Seq(S), s # <<>>
    PROVE  LET f == SubSeq(s, 1, Len(s) - 1)
           IN  /\ f \in Seq(S)
               /\ Len(f) = Len(s) - 1
               /\ \A i \in 1..Len(f) : f[i] = s[i]
               /\ {s[i] : i \in 1..Len(s)} =
                      {f[i] : i \in 1..Len(f)} \cup {s[Len(s)]}
<1> DEFINE f == SubSeq(s, 1, Len(s) - 1)
<1>0. Len(s) \in Nat \ {0}
  OBVIOUS
<1>1. /\ f \in Seq(S)
      /\ Len(f) = Len(s) - 1
      /\ \A i \in 1..Len(f) : f[i] = s[i]
      /\ Len(s) \in Nat \ {0}
  <2>1. Len(s) - 1 \in Nat /\ Len(s) - 1 <= Len(s)
    BY <1>0
  <2> QED
    BY <1>0, <2>1, PrefixProperties
<1> HIDE DEF f
<1>2. \A x : (\E i \in 1..Len(s) : x = s[i]) <=>
              ((\E i \in 1..Len(f) : x = f[i]) \/ x = s[Len(s)])
  <2> SUFFICES ASSUME NEW x
               PROVE  (\E i \in 1..Len(s) : x = s[i]) <=>
                          ((\E i \in 1..Len(f) : x = f[i]) \/ x = s[Len(s)])
    OBVIOUS
  <2>1. ASSUME NEW i \in 1..Len(s), x = s[i]
        PROVE  (\E j \in 1..Len(f) : x = f[j]) \/ x = s[Len(s)]
    <3>1. CASE i # Len(s)
      <4>1. i \in 1..Len(f)
        BY <1>1, <3>1
      <4> QED
        BY <1>1, <2>1, <4>1
    <3> QED
      BY <2>1, <3>1
  <2>2. ASSUME NEW j \in 1..Len(f), x = f[j]
        PROVE  \E i \in 1..Len(s) : x = s[i]
    <3>1. j \in 1..Len(s) /\ s[j] = x
      BY <1>1, <2>2
    <3> QED
      BY <3>1
  <2>3. Len(s) \in 1..Len(s)
    BY <1>1
  <2> QED
    BY <2>1, <2>2, <2>3
<1> QED
  BY <1>1, <1>2 DEF f

-----------------------------------------------------------------------------
(* One step keeps the identifiers accounted for. *)
LEMMA AccountedStep ==
    ASSUME TypeOK, EveryMessageAccounted, [Next]_vars
    PROVE  EveryMessageAccounted'
<1> DEFINE Q == {mMessageTask[i] : i \in 1..Len(mMessageTask)}
           R == {reported[i].id : i \in 1..Len(reported)}
<1> USE DEF Heartbeat, NoTask
<1>a. /\ mMessageTask \in Seq(Tasks)
      /\ mCurrentId \in Nat
      /\ task \in Tasks \cup {NoTask}
      /\ pc = "writing" <=> task # NoTask
  BY DEF TypeOK
<1>1. CASE addMessage
  <2>1. /\ mMessageTask' = Append(mMessageTask, mCurrentId + 1)
        /\ mCurrentId' = mCurrentId + 1
        /\ task' = task
        /\ reported' = reported
    BY <1>1 DEF addMessage
  <2>2. mCurrentId + 1 \in Tasks
    BY <1>a DEF Tasks
  <2>3. QueuedIds' = QueuedIds \cup {mCurrentId + 1}
    BY <1>a, <2>1, <2>2, ElementsOfAppend DEF QueuedIds
  <2>4. WritingIds' = WritingIds /\ ReportedIds' = ReportedIds
    BY <2>1 DEF WritingIds, ReportedIds
  <2>5. mCurrentId + 1 \notin QueuedIds \cup WritingIds \cup ReportedIds
    BY <1>a DEF EveryMessageAccounted
  <2>6. 1..(mCurrentId + 1) = (1..mCurrentId) \cup {mCurrentId + 1}
    BY <1>a
  <2>7. \A i, j \in 1..Len(mMessageTask') :
          i # j /\ mMessageTask'[i] = mMessageTask'[j] =>
              mMessageTask'[i] = Heartbeat
    <3> SUFFICES ASSUME NEW i \in 1..Len(mMessageTask'),
                        NEW j \in 1..Len(mMessageTask'),
                        i # j, mMessageTask'[i] = mMessageTask'[j]
                 PROVE  mMessageTask'[i] = Heartbeat
      OBVIOUS
    <3>1. \A k \in 1..Len(mMessageTask) :
            mMessageTask'[k] = mMessageTask[k]
      BY <1>a, <2>1
    <3>2. \A k \in 1..Len(mMessageTask) : mMessageTask[k] # mCurrentId + 1
      BY <1>a, <2>5 DEF QueuedIds
    <3>3. /\ Len(mMessageTask') = Len(mMessageTask) + 1
          /\ mMessageTask'[Len(mMessageTask) + 1] = mCurrentId + 1
          /\ Len(mMessageTask) \in Nat
      BY <1>a, <2>1, <2>2
    <3>4. i \in 1..Len(mMessageTask) /\ j \in 1..Len(mMessageTask)
      BY <3>1, <3>2, <3>3
    <3> QED
      BY <3>1, <3>4 DEF EveryMessageAccounted
  <2> QED
    BY <2>1, <2>3, <2>4, <2>5, <2>6, <2>7 DEF EveryMessageAccounted
<1>2. CASE TimerAdds \/ sendHeartbeatPackages
  <2>1. /\ mMessageTask' = Append(mMessageTask, Heartbeat)
        /\ UNCHANGED <<mCurrentId, task, reported>>
    BY <1>2 DEF TimerAdds, sendHeartbeatPackages, addHeartbeatPackage
  <2>2. Heartbeat \in Tasks
    BY DEF Tasks
  <2>3. QueuedIds' = QueuedIds
    BY <1>a, <2>1, <2>2, ElementsOfAppend DEF QueuedIds
  <2>4. WritingIds' = WritingIds /\ ReportedIds' = ReportedIds
    BY <2>1 DEF WritingIds, ReportedIds
  <2>5. \A i, j \in 1..Len(mMessageTask') :
          i # j /\ mMessageTask'[i] = mMessageTask'[j] =>
              mMessageTask'[i] = Heartbeat
    BY <1>a, <2>1, <2>2 DEF EveryMessageAccounted
  <2> QED
    BY <2>1, <2>3, <2>4, <2>5 DEF EveryMessageAccounted
<1>3. CASE TakeTask
  <2> DEFINE f == SubSeq(mMessageTask, 1, Len(mMessageTask) - 1)
             x == mMessageTask[Len(mMessageTask)]
  <2>1. /\ mMessageTask # <<>> /\ mMessageTask' = f
        /\ task' = x /\ task = NoTask
        /\ UNCHANGED <<mCurrentId, reported>>
    BY <1>3, <1>a DEF TakeTask
  <2>2. /\ Len(f) = Len(mMessageTask) - 1
        /\ \A i \in 1..Len(f) : f[i] = mMessageTask[i]
        /\ Q = {f[i] : i \in 1..Len(f)} \cup {x}
    BY <1>a, <2>1, ElementsOfFront
  <2>3. x \in Tasks /\ Len(mMessageTask) \in Nat \ {0}
    BY <1>a, <2>1
  <2> HIDE DEF f, x
  <2>4. QueuedIds = QueuedIds' \cup ({x} \ {Heartbeat})
    BY <2>1, <2>2 DEF QueuedIds
  <2>5. WritingIds' = {x} \ {Heartbeat} /\ WritingIds = {}
    BY <2>1, <2>3 DEF WritingIds, Tasks
  <2>6. ReportedIds' = ReportedIds
    BY <2>1 DEF ReportedIds
  <2>7. QueuedIds' \cap WritingIds' = {}
    <3> SUFFICES ASSUME NEW i \in 1..Len(f), f[i] = x PROVE x = Heartbeat
      BY <2>1, <2>5 DEF QueuedIds
    <3>1. /\ i \in 1..Len(mMessageTask) /\ i # Len(mMessageTask)
          /\ mMessageTask[i] = mMessageTask[Len(mMessageTask)]
          /\ Len(mMessageTask) \in 1..Len(mMessageTask)
      BY <2>2, <2>3 DEF x
    <3>2. mMessageTask[i] = Heartbeat
      BY <3>1 DEF EveryMessageAccounted
    <3> QED
      BY <3>1, <3>2 DEF x
  <2>8. \A i, j \in 1..Len(f) : i # j /\ f[i] = f[j] => f[i] = Heartbeat
    <3>1. 1..Len(f) \subseteq 1..Len(mMessageTask)
      BY <2>2, <2>3
    <3> QED
      BY <2>2, <3>1 DEF EveryMessageAccounted
  <2> QED
    BY <2>1, <2>4, <2>5, <2>6, <2>7, <2>8 DEF EveryMessageAccounted
<1>4. CASE WriteTask
  <2>1. /\ task # NoTask /\ task' = NoTask
        /\ UNCHANGED <<mMessageTask, mCurrentId>>
    BY <1>4, <1>a DEF WriteTask
  <2>2. PICK success \in BOOLEAN :
          reported' = IF task = Heartbeat THEN reported
                      ELSE Append(reported, [id |-> task, success |-> success])
    BY <1>4 DEF WriteTask
  <2>3. QueuedIds' = QueuedIds /\ WritingIds' = {}
    BY <2>1 DEF QueuedIds, WritingIds
  <2>4. CASE task = Heartbeat
    <3>1. WritingIds = {} /\ reported' = reported
      BY <2>2, <2>4 DEF WritingIds
    <3> QED
      BY <2>1, <2>3, <3>1 DEF EveryMessageAccounted, ReportedIds
  <2>5. CASE task # Heartbeat
    <3> DEFINE o == [id |-> task, success |-> success]
    <3>1. WritingIds = {task} /\ reported' = Append(reported, o) /\ o.id = task
      BY <2>1, <2>2, <2>5 DEF WritingIds
    <3> HIDE DEF o
    <3>2. /\ Len(reported') = Len(reported) + 1 /\ Len(reported) \in Nat
          /\ \A i \in 1..Len(reported) : reported'[i] = reported[i]
          /\ reported'[Len(reported) + 1].id = task
      BY <3>1 DEF TypeOK
    <3>3. ReportedIds' = ReportedIds \cup {task}
      <4>1. 1..Len(reported') = (1..Len(reported)) \cup {Len(reported) + 1}
        BY <3>2
      <4> QED
        BY <3>2, <4>1 DEF ReportedIds
    <3>4. task \notin ReportedIds /\ task \notin QueuedIds
      BY <3>1 DEF EveryMessageAccounted
    <3>5. \A i, j \in 1..Len(reported') :
            reported'[i].id = reported'[j].id => i = j
      <4>1. \A i \in 1..Len(reported) : reported[i].id # task
        BY <3>4 DEF ReportedIds
      <4>2. \A i \in 1..Len(reported') :
              i \in 1..Len(reported) \/ i = Len(reported) + 1
        BY <3>2
      <4> QED
        BY <3>2, <4>1, <4>2 DEF EveryMessageAccounted
    <3> QED
      BY <2>1, <2>3, <3>1, <3>3, <3>4, <3>5 DEF EveryMessageAccounted
  <2> QED
    BY <2>4, <2>5
<1>5. CASE UNCHANGED <<mMessageTask, mCurrentId, task, reported>>
  <2>1. /\ QueuedIds' = QueuedIds
        /\ WritingIds' = WritingIds
        /\ ReportedIds' = ReportedIds
    BY <1>5 DEF QueuedIds, WritingIds, ReportedIds
  <2> QED
    BY <1>5, <2>1 DEF EveryMessageAccounted
<1> QED
  BY <1>1, <1>2, <1>3, <1>4, <1>5
     DEF Next, run, vars, TimerFires, RunStart, LoopTest, Wait, Exit,
         SpuriousWakeup, CloseStreams, stopRuning

(* No message is lost, duplicated or reported twice, in every behaviour.   *)
THEOREM MessagesAreAccounted == Spec => []EveryMessageAccounted
<1>1. Init => EveryMessageAccounted
  <2> SUFFICES ASSUME Init PROVE EveryMessageAccounted
    OBVIOUS
  <2>1. mMessageTask = <<>> /\ reported = <<>> /\ task = 0 /\ mCurrentId = 0
    BY DEF Init, NoTask
  <2>2. QueuedIds = {} /\ ReportedIds = {} /\ 1..mCurrentId = {}
    BY <2>1 DEF QueuedIds, ReportedIds
  <2>3. WritingIds = {}
    BY <2>1 DEF WritingIds, NoTask
  <2> QED
    BY <2>1, <2>2, <2>3 DEF EveryMessageAccounted
<1>2. TypeOK /\ EveryMessageAccounted /\ [Next]_vars => EveryMessageAccounted'
  BY AccountedStep
<1> QED
  BY <1>1, <1>2, Typing, PTL DEF Spec

-----------------------------------------------------------------------------
(* The sender thread implements AtMostOnceSender: adding is Accept, writing *)
(* a message is Attempt, closing is Close, and every other step stutters.   *)
THEOREM ImplementsAtMostOnce == Spec => AtMostOnce
<1> USE DEF Heartbeat, NoTask
<1>1. Init => Abstract!Init
  <2> SUFFICES ASSUME Init PROVE Abstract!Init
    OBVIOUS
  <2>1. QueuedIds = {} /\ WritingIds = {}
    BY DEF Init, QueuedIds, WritingIds
  <2> QED
    BY <2>1 DEF Init, Abstract!Init, streamOpen
<1>2. TypeOK /\ EveryMessageAccounted /\ [Next]_vars
          => [Abstract!Next]_(Abstract!vars)
  <2> SUFFICES ASSUME TypeOK, EveryMessageAccounted, [Next]_vars
               PROVE  [Abstract!Next]_(Abstract!vars)
    OBVIOUS
  <2>a. /\ mMessageTask \in Seq(Tasks)
        /\ mCurrentId \in Nat
        /\ task \in Tasks \cup {NoTask}
        /\ pc = "writing" <=> task # NoTask
    BY DEF TypeOK
  <2>1. CASE addMessage
    <3>1. mCurrentId + 1 \in Tasks
      BY <2>a DEF Tasks
    <3>2. QueuedIds' = QueuedIds \cup {mCurrentId + 1}
      BY <2>1, <2>a, <3>1, ElementsOfAppend DEF addMessage, QueuedIds
    <3>3. /\ WritingIds' = WritingIds /\ streamOpen' = streamOpen
          /\ reported' = reported /\ mCurrentId' = mCurrentId + 1
      BY <2>1 DEF addMessage, WritingIds, streamOpen
    <3>4. Abstract!Accept
      BY <3>2, <3>3 DEF Abstract!Accept
    <3> QED
      BY <3>4 DEF Abstract!Next
  <2>2. CASE TimerAdds \/ sendHeartbeatPackages
    <3>1. Heartbeat \in Tasks
      BY DEF Tasks
    <3>2. QueuedIds' = QueuedIds
      BY <2>2, <2>a, <3>1, ElementsOfAppend
         DEF TimerAdds, sendHeartbeatPackages, addHeartbeatPackage, QueuedIds
    <3>3. /\ WritingIds' = WritingIds /\ streamOpen' = streamOpen
          /\ UNCHANGED <<reported, mCurrentId>>
      BY <2>2 DEF TimerAdds, sendHeartbeatPackages, addHeartbeatPackage,
                  WritingIds, streamOpen
    <3> QED
      BY <3>2, <3>3 DEF Abstract!vars
  <2>3. CASE TakeTask
    <3> DEFINE f == SubSeq(mMessageTask, 1, Len(mMessageTask) - 1)
               x == mMessageTask[Len(mMessageTask)]
    <3>1. /\ mMessageTask # <<>> /\ mMessageTask' = f
          /\ task' = x /\ task = NoTask
          /\ UNCHANGED <<mCurrentId, reported, owner>>
      BY <2>3, <2>a DEF TakeTask
    <3>2. {mMessageTask[i] : i \in 1..Len(mMessageTask)} =
              {f[i] : i \in 1..Len(f)} \cup {x}
      BY <2>a, <3>1, ElementsOfFront
    <3>3. x # NoTask
      BY <2>a, <3>1 DEF Tasks
    <3> HIDE DEF f, x
    <3>4. QueuedIds \cup WritingIds = QueuedIds' \cup WritingIds'
      BY <3>1, <3>2, <3>3 DEF QueuedIds, WritingIds
    <3> QED
      BY <3>1, <3>4 DEF Abstract!vars, streamOpen
  <2>4. CASE WriteTask
    <3>1. /\ task # NoTask /\ task' = NoTask
          /\ UNCHANGED <<mMessageTask, mCurrentId, owner>>
      BY <2>4, <2>a DEF WriteTask
    <3>2. PICK success \in BOOLEAN :
            /\ success => streamOpen
            /\ reported' = IF task = Heartbeat THEN reported
                           ELSE Append(reported,
                                       [id |-> task, success |-> success])
      BY <2>4 DEF WriteTask
    <3>3. QueuedIds' = QueuedIds /\ WritingIds' = {} /\ streamOpen' = streamOpen
      BY <3>1 DEF QueuedIds, WritingIds, streamOpen
    <3>4. CASE task = Heartbeat
      <4>1. WritingIds = {} /\ reported' = reported
        BY <3>2, <3>4 DEF WritingIds
      <4> QED
        BY <3>1, <3>3, <4>1 DEF Abstract!vars
    <3>5. CASE task # Heartbeat
      <4>1. WritingIds = {task}
        BY <3>1, <3>5 DEF WritingIds
      <4>2. task \notin QueuedIds
        BY <4>1 DEF EveryMessageAccounted
      <4>3. Abstract!Attempt(task, success)
        BY <3>1, <3>2, <3>3, <3>5, <4>1, <4>2 DEF Abstract!Attempt
      <4>4. task \in QueuedIds \cup WritingIds
        BY <4>1
      <4> QED
        BY <4>3, <4>4 DEF Abstract!Next
    <3> QED
      BY <3>4, <3>5
  <2>5. CASE CloseStreams
    <3>1. Abstract!Close
      BY <2>5 DEF CloseStreams, Abstract!Close, streamOpen, QueuedIds, WritingIds
    <3> QED
      BY <3>1 DEF Abstract!Next
  <2>6. CASE stopRuning
    BY <2>6 DEF stopRuning, Abstract!vars, streamOpen, QueuedIds, WritingIds
  <2>7. CASE UNCHANGED <<mMessageTask, mCurrentId, task, reported, owner>>
    BY <2>7 DEF Abstract!vars, streamOpen, QueuedIds, WritingIds
  <2> QED
    BY <2>1, <2>2, <2>3, <2>4, <2>5, <2>6, <2>7
       DEF Next, run, vars, TimerFires, RunStart, LoopTest, Wait, Exit,
           SpuriousWakeup
<1> QED
  BY <1>1, <1>2, Typing, MessagesAreAccounted, PTL
     DEF Spec, AtMostOnce, Abstract!Spec
=============================================================================
