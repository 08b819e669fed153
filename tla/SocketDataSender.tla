-------------------------- MODULE SocketDataSender --------------------------
(***************************************************************************)
(* SocketDataSenderThread: the thread that writes a connection's outgoing  *)
(* objects, its HeartbeatThread timer, and the owner (ServerConnection or  *)
(* SocketClientConnectionThread) that closes the stream and stops it.      *)
(*                                                                         *)
(* A task is its identifier; heartbeat packages all carry -1 and have no   *)
(* listener.  The monitor of mMessageTask is held exactly while pc is      *)
(* "writing": every other critical section is one step.                    *)
(***************************************************************************)
EXTENDS Integers, Sequences, FiniteSets

CONSTANTS
    MaxMessages,        \* bound: addMessage calls
    MaxHeartbeats       \* bound: heartbeat packages queued at one time

ASSUME MaxMessagesAssumption == MaxMessages \in Nat
ASSUME MaxHeartbeatsAssumption == MaxHeartbeats \in Nat

VARIABLES
    mHeartbeatEnabled,  \* TRUE for a server's sender, FALSE for a client's
    mMessageTask,       \* the list of tasks: a stack, its last element on top
    mCurrentId,         \* the identifier given to the last message
    mThreadStop,
    mHeartbeatThread,   \* "none", "armed" or "cancelled"
    tick,               \* the timer is inside addHeartbeatPackage
    pc,                 \* where run() is
    task,               \* the task being written, 0 when there is none
    owner,              \* how far releaseServerSocket has come
    reported,           \* history: the calls of onDataSendDone
    heard,              \* history: stopRuning was called after RunStart
    late                \* history: tasks taken since that call

vars == <<mHeartbeatEnabled, mMessageTask, mCurrentId, mThreadStop,
          mHeartbeatThread, tick, pc, task, owner, reported, heard, late>>

Heartbeat == -1
NoTask == 0
Tasks == {Heartbeat} \cup (Nat \ {0})

streamOpen == owner = "using"
monitorFree == pc # "writing"

Init ==
    /\ mHeartbeatEnabled \in BOOLEAN
    /\ mMessageTask = <<>>
    /\ mCurrentId = 0
    /\ mThreadStop = FALSE
    /\ mHeartbeatThread = "none"
    /\ tick = FALSE
    /\ pc = "created"
    /\ task = NoTask
    /\ owner = "using"
    /\ reported = <<>>
    /\ heard = FALSE
    /\ late = 0

-----------------------------------------------------------------------------
(* Object.notify on mMessageTask: only run() ever waits on it. *)
notify == pc' = IF pc = "waiting" THEN "monitor" ELSE pc

(* Slip: the caller adds without waking the thread. *)
addMessage_NoNotify ==
    /\ monitorFree
    /\ mCurrentId < MaxMessages
    /\ mCurrentId' = mCurrentId + 1
    /\ mMessageTask' = Append(mMessageTask, mCurrentId + 1)
    /\ UNCHANGED <<mHeartbeatEnabled, mThreadStop, mHeartbeatThread, tick,
                   pc, task, owner, reported, heard,
                   late>>

addMessage ==
    /\ monitorFree
    /\ mCurrentId < MaxMessages
    /\ mCurrentId' = mCurrentId + 1
    /\ mMessageTask' = Append(mMessageTask, mCurrentId + 1)
    /\ notify
    /\ UNCHANGED <<mHeartbeatEnabled, mThreadStop, mHeartbeatThread, tick,
                   task, owner, reported, heard,
                   late>>

QueuedHeartbeats ==
    {i \in 1..Len(mMessageTask) : mMessageTask[i] = Heartbeat}

(* Slip: the timer adds without waking the thread. *)
addHeartbeatPackage_NoNotify ==
    /\ monitorFree
    /\ Cardinality(QueuedHeartbeats) < MaxHeartbeats
    /\ mMessageTask' = Append(mMessageTask, Heartbeat)
    /\ UNCHANGED <<mHeartbeatEnabled, mCurrentId, mThreadStop,
                   mHeartbeatThread, pc, task, owner, reported, heard,
                   late>>

addHeartbeatPackage ==
    /\ monitorFree
    /\ Cardinality(QueuedHeartbeats) < MaxHeartbeats
    /\ mMessageTask' = Append(mMessageTask, Heartbeat)
    /\ notify
    /\ UNCHANGED <<mHeartbeatEnabled, mCurrentId, mThreadStop,
                   mHeartbeatThread, task, owner, reported, heard,
                   late>>

(* The timer's period has elapsed: TimerTask.run is entered.               *)
TimerFires ==
    /\ mHeartbeatThread = "armed"
    /\ ~ tick
    /\ tick' = TRUE
    /\ UNCHANGED <<mHeartbeatEnabled, mMessageTask, mCurrentId,
                   mThreadStop, mHeartbeatThread, pc, task, owner, reported,
                   heard, late>>

TimerAdds ==
    /\ tick
    /\ tick' = FALSE
    /\ addHeartbeatPackage

(* A client's connection thread answers a heartbeat of the server.  Its    *)
(* isConnected() test may be long past when the package is added.          *)
sendHeartbeatPackages ==
    /\ ~ mHeartbeatEnabled
    /\ addHeartbeatPackage
    /\ UNCHANGED tick

-----------------------------------------------------------------------------
(* run(): arm the timer, then clear mThreadStop, whoever set it before.    *)
RunStart ==
    /\ pc = "created"
    /\ mHeartbeatThread' = IF mHeartbeatEnabled THEN "armed" ELSE "none"
    /\ mThreadStop' = FALSE
    /\ pc' = "test"
    /\ UNCHANGED <<mHeartbeatEnabled, mMessageTask, mCurrentId, tick,
                   task, owner, reported, heard,
                   late>>

(* Slip: a stopped thread first empties its stack. *)
LoopTest_DrainFirst ==
    /\ pc = "test"
    /\ pc' = IF mThreadStop /\ mMessageTask = <<>> THEN "exiting"
             ELSE "monitor"
    /\ UNCHANGED <<mHeartbeatEnabled, mMessageTask, mCurrentId,
                   mThreadStop, mHeartbeatThread, tick, task, owner, reported,
                   heard, late>>

LoopTest ==
    /\ pc = "test"
    /\ pc' = IF mThreadStop THEN "exiting" ELSE "monitor"
    /\ UNCHANGED <<mHeartbeatEnabled, mMessageTask, mCurrentId,
                   mThreadStop, mHeartbeatThread, tick, task, owner, reported,
                   heard, late>>

Wait ==
    /\ pc = "monitor"
    /\ mMessageTask = <<>>
    /\ pc' = "waiting"
    /\ UNCHANGED <<mHeartbeatEnabled, mMessageTask, mCurrentId,
                   mThreadStop, mHeartbeatThread, tick, task, owner, reported,
                   heard, late>>

(* Object.wait may return without a notify. *)
SpuriousWakeup ==
    /\ pc = "waiting"
    /\ pc' = "monitor"
    /\ UNCHANGED <<mHeartbeatEnabled, mMessageTask, mCurrentId,
                   mThreadStop, mHeartbeatThread, tick, task, owner, reported,
                   heard, late>>

(* Slip: get() where the code has remove(). *)
TakeTask_Peek ==
    /\ pc = "monitor"
    /\ mMessageTask # <<>>
    /\ task' = mMessageTask[Len(mMessageTask)]
    /\ pc' = "writing"
    /\ late' = IF heard THEN late + 1 ELSE late
    /\ UNCHANGED <<mHeartbeatEnabled, mMessageTask, mCurrentId,
                   mThreadStop, mHeartbeatThread, tick, owner, reported, heard>>

TakeTask ==
    /\ pc = "monitor"
    /\ mMessageTask # <<>>
    /\ task' = mMessageTask[Len(mMessageTask)]
    /\ mMessageTask' = SubSeq(mMessageTask, 1, Len(mMessageTask) - 1)
    /\ pc' = "writing"
    /\ late' = IF heard THEN late + 1 ELSE late
    /\ UNCHANGED <<mHeartbeatEnabled, mCurrentId, mThreadStop,
                   mHeartbeatThread, tick, owner, reported, heard>>

(* Slip: success is reported without a flush, whatever became of the write. *)
WriteTask_NoFlush ==
    /\ pc = "writing"
    /\ reported' = IF task = Heartbeat THEN reported
                   ELSE Append(reported, [id |-> task, success |-> TRUE])
    /\ task' = NoTask
    /\ pc' = "test"
    /\ UNCHANGED <<mHeartbeatEnabled, mMessageTask, mCurrentId,
                   mThreadStop, mHeartbeatThread, tick, owner, heard, late>>

(* writeObject and flush, then onDataSendDone, still inside the monitor.   *)
WriteTask ==
    /\ pc = "writing"
    /\ \E success \in BOOLEAN :
          /\ success => streamOpen
          /\ reported' = IF task = Heartbeat THEN reported
                         ELSE Append(reported,
                                     [id |-> task, success |-> success])
    /\ task' = NoTask
    /\ pc' = "test"
    /\ UNCHANGED <<mHeartbeatEnabled, mMessageTask, mCurrentId,
                   mThreadStop, mHeartbeatThread, tick, owner, heard, late>>

Exit ==
    /\ pc = "exiting"
    /\ mHeartbeatThread' = IF mHeartbeatThread = "none" THEN "none"
                           ELSE "cancelled"
    /\ pc' = "exited"
    /\ UNCHANGED <<mHeartbeatEnabled, mMessageTask, mCurrentId,
                   mThreadStop, tick, task, owner, reported, heard,
                   late>>

-----------------------------------------------------------------------------
(* releaseServerSocket closes the streams and the socket ...               *)
CloseStreams ==
    /\ owner = "using"
    /\ owner' = "closed"
    /\ UNCHANGED <<mHeartbeatEnabled, mMessageTask, mCurrentId,
                   mThreadStop, mHeartbeatThread, tick, pc, task, reported,
                   heard, late>>

(* ... and then sets the flag, without a notify.  A server connection that *)
(* ends by an exception releases in its catch clause and again in finally. *)
stopRuning ==
    /\ owner \in {"closed", "stopping"}
    /\ owner' \in IF owner = "closed" /\ mHeartbeatEnabled
                  THEN {"stopping", "stopped"} ELSE {"stopped"}
    /\ mThreadStop' = TRUE
    /\ heard' = (heard \/ pc # "created")
    /\ UNCHANGED <<mHeartbeatEnabled, mMessageTask, mCurrentId,
                   mHeartbeatThread, tick, pc, task, reported, late>>

run == RunStart \/ LoopTest \/ Wait \/ TakeTask \/ WriteTask \/ Exit

Next ==
    \/ addMessage
    \/ TimerFires \/ TimerAdds \/ sendHeartbeatPackages
    \/ run \/ SpuriousWakeup
    \/ CloseStreams \/ stopRuning

Spec == Init /\ [][Next]_vars

(* run() gets the monitor with a message, and not a heartbeat, on top.     *)
TakeMessage ==
    /\ TakeTask
    /\ task' # Heartbeat

(* The scheduler runs the sender thread, its timer thread and an owner     *)
(* that has begun to release; nobody is obliged to send or to disconnect.  *)
(* A sender that stands before the monitor again and again with a message  *)
(* on top gets in: its rival there is a timer that fires every 10 s.       *)
Fairness ==
    /\ WF_vars(run)
    /\ SF_vars(TakeMessage)
    /\ WF_vars(TimerFires)
    /\ WF_vars(TimerAdds)
    /\ WF_vars(stopRuning)

FairSpec == Spec /\ Fairness

-----------------------------------------------------------------------------
QueuedIds == {mMessageTask[i] : i \in 1..Len(mMessageTask)} \ {Heartbeat}
WritingIds == {task} \ {Heartbeat, NoTask}
ReportedIds == {reported[i].id : i \in 1..Len(reported)}

(* The type of the state; run() holds a task exactly while it writes it.  *)
TypeOK ==
    /\ mHeartbeatEnabled \in BOOLEAN
    /\ mMessageTask \in Seq(Tasks)
    /\ mCurrentId \in Nat
    /\ mThreadStop \in BOOLEAN
    /\ mHeartbeatThread \in {"none", "armed", "cancelled"}
    /\ tick \in BOOLEAN
    /\ pc \in {"created", "test", "monitor", "waiting", "writing", "exiting",
               "exited"}
    /\ task \in Tasks \cup {NoTask}
    /\ pc = "writing" <=> task # NoTask
    /\ owner \in {"using", "closed", "stopping", "stopped"}
    /\ reported \in Seq([id : Nat \ {0}, success : BOOLEAN])
    /\ heard \in BOOLEAN
    /\ late \in Nat

(* The thread never sleeps in wait() while a task is queued, whatever      *)
(* order the callers, the timer and run() come in (addMessage and          *)
(* addHeartbeatPackage notify under the monitor, the wait re-tests).       *)
NoLostWakeup == pc = "waiting" => mMessageTask = <<>>

(* Every identifier returned by addMessage is in exactly one place: still  *)
(* queued, being written, or reported to its listener, and it is in that   *)
(* place once.  Heartbeats, which share the stack, never displace one.     *)
EveryMessageAccounted ==
    /\ QueuedIds \cup WritingIds \cup ReportedIds = 1..mCurrentId
    /\ QueuedIds \cap WritingIds = {}
    /\ (QueuedIds \cup WritingIds) \cap ReportedIds = {}
    /\ \A i, j \in 1..Len(mMessageTask) :
          i # j /\ mMessageTask[i] = mMessageTask[j] =>
              mMessageTask[i] = Heartbeat
    /\ \A i, j \in 1..Len(reported) :
          reported[i].id = reported[j].id => i = j

(* A call of stopRuning that comes after run() has cleared the flag (line  *)
(* 75) bounds the work left: from this call on run() takes at most one     *)
(* task, however full the stack is.  Tasks taken into the closed streams   *)
(* before the call are not bounded, nor is anything after a call that      *)
(* comes before line 75, which stops nothing (ReleaseStopsSender).         *)
AtMostOneAfterStop == late <= 1

(* The thread implements the promise of AtMostOnceSender. *)
Abstract == INSTANCE AtMostOnceSender
    WITH issued <- mCurrentId, pending <- QueuedIds \cup WritingIds,
         log <- reported, open <- streamOpen
AtMostOnce == Abstract!Spec

(* Heartbeats are slower than the sender: again and again it has come back *)
(* from its last write, to the monitor or to wait(), with none queued.     *)
(* They may go on for ever, as the timer of a live server does.            *)
HeartbeatsAreWritten ==
    []<>(QueuedHeartbeats = {} /\ pc \notin {"test", "writing"})

(* The stack is last-in first-out, so a message can be overtaken for ever. *)
(* If heartbeats do not keep arriving as fast as they are written, and     *)
(* finitely many messages are sent (MaxMessages), every message is         *)
(* attempted, unless the thread exits first.                               *)
Drains ==
    HeartbeatsAreWritten =>
        \A id \in 1..MaxMessages :
            id \in QueuedIds ~> (id \in ReportedIds \/ pc = "exited")

(* A stop that reaches a server's sender after run() has cleared the flag  *)
(* ends the thread even if it sleeps in wait(): the next heartbeat wakes   *)
(* it, the write fails, and the flag is tested.                            *)
StopsOnceRunning ==
    (mHeartbeatEnabled /\ mThreadStop /\ pc # "created") ~> (pc = "exited")

(* What SocketServerConnectionThread.java:79-80 says of a lost client:     *)
(* "Client disconnected, stop the sender thread ,and create new one."      *)
ReleaseStopsSender ==
    (mHeartbeatEnabled /\ owner = "stopped") ~> (pc = "exited")
=============================================================================
