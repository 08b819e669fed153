------------------------------- MODULE Calls -------------------------------
(***************************************************************************)
(* Call control: CollaborationService on the phone, PhoneMsgListener and   *)
(* InCallUIService on the tablet, the two senders between them, and the    *)
(* tablet's AudioManager (VoiceEngine).                                    *)
(*                                                                         *)
(* A call's serial number is the caller's number.  The phone may have      *)
(* several calls, one of them ringing, but Android reports one state for   *)
(* them all, and only with RINGING the number that belongs to it.          *)
(*                                                                         *)
(* A sender is a stack of what it still has to send (SocketDataSender); a  *)
(* connection that is lost takes both with it, and while there is none     *)
(* what is sent is dropped.  On the tablet the connection's thread         *)
(* ("reader") and the main thread share jsonList without a lock.  What     *)
(* only shows on the windows is left out.                                  *)
(***************************************************************************)
EXTENDS VoiceEngine, Sequences, SequencesExt

CONSTANTS
    Numbers,
    MaxCalls,       \* bound: calls to the phone
    MaxClicks,      \* bound: clicks on Accept, Reject or End
    MaxPending      \* bound: call states on their way to the tablet's windows

ASSUME BoundsAssumption ==
    MaxCalls \in Nat /\ MaxClicks \in Nat /\ MaxPending \in Nat
ASSUME NumbersAssumption == None \notin Numbers

VARIABLES
    ringing,        \* the caller the phone rings for, or None
    ongoing,        \* the callers of all its calls, the ringing one included
    calls,          \* calls so far
    phoneTasks,     \* the phone's sender
    tabletTasks,    \* the tablet's sender
    up,             \* the two are connected
    jsonList, handler,  \* PhoneMsgListener: the list; mHandler is not null
    pc,             \* where each of the two threads is in the listener
    item,           \* what it has removed from the list
    service,        \* InCallUIService: "none", "starting", "created", "bound"
    mainQueue,      \* messages posted to the main thread
    mFloatViewMap, mCallMap,
    engine,
    clicks,
    missed,         \* history: calls that ended and no IDLE said so, or whose
                    \*   IDLE was lost or came too early
    raced           \* history: an event came while setHandler delivered

telephony == <<ringing, ongoing, calls>>
network == <<phoneTasks, tabletTasks, up, missed>>
listener == <<jsonList, handler, pc, item, raced>>
ui == <<service, mFloatViewMap, mCallMap, engine, clicks>>
vars == <<telephony, network, listener, mainQueue, ui>>

Threads == {"reader", "main"}

(* Call.State and its numbers on the wire: an unknown number is IDLE. *)
State == <<"IDLE", "ACTIVE", "HOLDING", "DIALING", "ALERTING", "INCOMING",
           "WAITING", "DISCONNECTED", "DISCONNECTING">>
stateToNum(state) ==
    IF \E i \in 1..9 : State[i] = state
    THEN (CHOOSE i \in 1..9 : State[i] = state) - 1
    ELSE -1
numToState(num) == IF num \in 0..8 THEN State[num + 1] ELSE "IDLE"

(* Of a PhoneJson the two fields that are read at the other end.           *)
packPhoneJson(state, n) == [callType |-> stateToNum(state), serialno |-> n]
PhoneJson == [callType : -1..8, serialno : Numbers]
StateOf(json) == numToState(json.callType)

InState(state, s) ==
    {j.serialno : j \in {x \in ToSet(s) : StateOf(x) = state}}

Init ==
    /\ ringing = None /\ ongoing = {} /\ calls = 0
    /\ phoneTasks = <<>> /\ tabletTasks = <<>>
    /\ up = TRUE
    /\ jsonList = <<>>
    /\ handler = FALSE
    /\ pc = [t \in Threads |-> "idle"]
    /\ item = [t \in Threads |-> <<>>]
    /\ service = "none"
    /\ mainQueue = <<>>
    /\ mFloatViewMap = {} /\ mCallMap = {}
    /\ engine = NoEngine
    /\ clicks = 0
    /\ missed = {}
    /\ raced = FALSE

-----------------------------------------------------------------------------
(* The network *)
close ==
    /\ up' = FALSE
    /\ phoneTasks' = <<>> /\ tabletTasks' = <<>>

loseConnection ==
    /\ close
    /\ missed' = missed \cup InState("IDLE", phoneTasks)

ConnectionLost ==
    /\ up
    /\ loseConnection
    /\ UNCHANGED <<telephony, listener, mainQueue, ui>>

Reconnect ==
    /\ ~ up
    /\ up' = TRUE
    /\ UNCHANGED <<telephony, phoneTasks, tabletTasks, missed, listener,
                   mainQueue, ui>>

sendDataToClient(e) ==
    phoneTasks' = IF up THEN Append(phoneTasks, e) ELSE phoneTasks

sendData(e) == tabletTasks' = IF up THEN Append(tabletTasks, e) ELSE tabletTasks

-----------------------------------------------------------------------------
(* CollaborationService *)

stateFromPhoneToCall(state) ==
    CASE state = "RINGING" -> "INCOMING"
      [] state = "OFFHOOK" -> "ACTIVE"
      [] OTHER -> "IDLE"

onCallStateChanged(state, n) ==
    /\ Len(phoneTasks) + Len(jsonList) + Len(mainQueue) < MaxPending
    /\ sendDataToClient(packPhoneJson(stateFromPhoneToCall(state), n))

(* TelephonyManager's state of all the calls. *)
callState ==
    IF ringing # None THEN "RINGING"
    ELSE IF ongoing = {} THEN "IDLE" ELSE "OFFHOOK"

(* What comes as incomingNumber: the ringing caller's, or, with IDLE, any  *)
(* number, or one that nobody has.  The one with OFFHOOK nobody reads:     *)
(* InCallUIService:164, "We can not get the serial number".                *)
incomingNumbers(r, o) ==
    CASE r # None -> {r}
      [] r = None /\ o # {} -> {ringing}
      [] OTHER -> Numbers

(* The phone's calls change; the platform reports only a state that is     *)
(* new.                                                                    *)
callsBecome(r, o) ==
    /\ ringing' = r
    /\ ongoing' = o
    /\ \/ callState' = callState /\ UNCHANGED phoneTasks
       \/ /\ callState' # callState
          /\ \E n \in incomingNumbers(r, o) :
                onCallStateChanged(callState', n)
    /\ missed' = missed \cup ((ongoing \ o) \ InState("IDLE", phoneTasks'))

(* A call comes, perhaps while another is active. *)
Rings(n) ==
    /\ ringing = None
    /\ n \notin ongoing
    /\ calls < MaxCalls
    /\ calls' = calls + 1
    /\ callsBecome(n, ongoing \cup {n})
    /\ UNCHANGED <<tabletTasks, up, listener, mainQueue, ui>>

answered ==
    /\ ringing # None
    /\ callsBecome(None, ongoing)

AnsweredOnPhone ==
    /\ answered
    /\ UNCHANGED <<calls, tabletTasks, up, listener, mainQueue, ui>>

ended(n) ==
    /\ n \in ongoing
    /\ callsBecome(IF n = ringing THEN None ELSE ringing, ongoing \ {n})

(* The caller gives up, or one of the two hangs up. *)
Ends(n) ==
    /\ ended(n)
    /\ UNCHANGED <<calls, tabletTasks, up, listener, mainQueue, ui>>

(* A server's mNetWorkInfos has one entry for each thread's name, and      *)
(* get(0) asks it for an Integer.                                          *)
mNetWorkInfosKeys == {[class |-> "String", value |-> "Connection#1"]}
getNetWorkInfoIsNull == \A k \in mNetWorkInfosKeys : k.class # "Integer"

(* onMessage(ACTIVE): the address of the tablet is asked for first, for    *)
(* the phone's own audio, and an exception ends the connection.  The       *)
(* phone's AudioManager is not modelled: it is never started.              *)
onMessageActive ==
    /\ tabletTasks # <<>>
    /\ StateOf(Last(tabletTasks)) = "ACTIVE"
    /\ IF getNetWorkInfoIsNull
       THEN loseConnection /\ UNCHANGED telephony
       ELSE /\ answered
            /\ tabletTasks' = Front(tabletTasks)
            /\ UNCHANGED <<calls, up>>
    /\ UNCHANGED <<listener, mainQueue, ui>>

(* onMessage(DISCONNECTING): endCall ends the call that rings, or one of   *)
(* the others, whatever number was rejected; it may find none, or fail.    *)
onMessageDisconnecting ==
    /\ tabletTasks # <<>>
    /\ StateOf(Last(tabletTasks)) = "DISCONNECTING"
    /\ tabletTasks' = Front(tabletTasks)
    /\ \/ \E n \in IF ringing = None THEN ongoing ELSE {ringing} : ended(n)
       \/ UNCHANGED <<ringing, ongoing, phoneTasks, missed>>
    /\ UNCHANGED <<calls, up, listener, mainQueue, ui>>

-----------------------------------------------------------------------------
(* PhoneMsgListener *)

(* The last event put into the sender comes first.  An add() that meets    *)
(* the main thread's remove(0) may be lost.                                *)
onMessageAdd ==
    /\ pc["reader"] = "idle"
    /\ phoneTasks # <<>>
    /\ LET e == Last(phoneTasks)
       IN  /\ phoneTasks' = Front(phoneTasks)
           /\ missed' = missed \cup (InState("IDLE", <<e>>)
                                 \cap InState("INCOMING", Front(phoneTasks)))
           /\ \/ jsonList' = Append(jsonList, e)
              \/ pc["main"] = "remove" /\ UNCHANGED jsonList
    /\ pc' = [pc EXCEPT !["reader"] = "test"]
    /\ raced' = (raced \/ pc["main"] # "idle")
    /\ UNCHANGED <<telephony, tabletTasks, up, handler, item, mainQueue, ui>>

(* deliverMsg: isEmpty(), remove(0) and updateState() are three steps; the  *)
(* test of the list goes with the step before it.                          *)
deliverMsgFrom(t, list) ==
    pc' = [pc EXCEPT ![t] = IF list = <<>> THEN "idle" ELSE "remove"]

(* startService does nothing more if the service is there. *)
onMessageTest ==
    /\ pc["reader"] = "test"
    /\ IF handler THEN deliverMsgFrom("reader", jsonList)
       ELSE pc' = [pc EXCEPT !["reader"] = "idle"]
    /\ service' = IF ~ handler /\ service = "none" THEN "starting" ELSE service
    /\ raced' = (raced \/ pc["main"] # "idle")
    /\ UNCHANGED <<telephony, network, jsonList, handler, item, mainQueue,
                   mFloatViewMap, mCallMap, engine, clicks>>

deliverMsgRemove(t) ==
    /\ pc[t] = "remove"
    /\ jsonList # <<>>
    /\ item' = [item EXCEPT ![t] = <<Head(jsonList)>>]
    /\ jsonList' = Tail(jsonList)
    /\ pc' = [pc EXCEPT ![t] = "post"]
    /\ UNCHANGED <<telephony, network, handler, raced, mainQueue, ui>>

(* Two remove(0) at a time may both give the first element, and take away  *)
(* one or two.                                                             *)
deliverMsgBothRemove ==
    /\ \A t \in Threads : pc[t] = "remove"
    /\ jsonList # <<>>
    /\ item' = [t \in Threads |-> <<Head(jsonList)>>]
    /\ jsonList' \in {Tail(jsonList), SubSeq(jsonList, 3, Len(jsonList))}
    /\ pc' = [t \in Threads |-> "post"]
    /\ UNCHANGED <<telephony, network, handler, raced, mainQueue, ui>>

(* The tablet's process ends, its connection with it, and is started       *)
(* again.                                                                  *)
processDies ==
    /\ close
    /\ missed' = {} /\ raced' = FALSE
    /\ jsonList' = <<>> /\ handler' = FALSE
    /\ pc' = [t \in Threads |-> "idle"]
    /\ item' = [t \in Threads |-> <<>>]
    /\ service' = "none" /\ mainQueue' = <<>>
    /\ mFloatViewMap' = {} /\ mCallMap' = {}
    /\ engine' = NoEngine

(* The list has become empty: the exception ends the connection, or the    *)
(* process.                                                                *)
deliverMsgThrows(t) ==
    /\ pc[t] = "remove"
    /\ jsonList = <<>>
    /\ \/ /\ t = "reader"
          /\ loseConnection
          /\ pc' = [pc EXCEPT ![t] = "idle"]
          /\ UNCHANGED <<jsonList, handler, item, raced, mainQueue, service,
                         mFloatViewMap, mCallMap, engine>>
       \/ t = "main" /\ processDies
    /\ UNCHANGED <<telephony, clicks>>

updateState(t) ==
    /\ pc[t] = "post"
    /\ mainQueue' = IF handler THEN mainQueue \o item[t] ELSE mainQueue
    /\ item' = [item EXCEPT ![t] = <<>>]
    /\ deliverMsgFrom(t, jsonList)
    /\ UNCHANGED <<telephony, network, jsonList, handler, raced, ui>>

deliverMsg(t) ==
    deliverMsgRemove(t) \/ deliverMsgThrows(t) \/ updateState(t)

-----------------------------------------------------------------------------
(* InCallUIService, on the main thread *)
MainIsFree == pc["main"] = "idle"

onCreate ==
    /\ MainIsFree
    /\ service = "starting"
    /\ service' = "created"
    /\ mCallMap' = {}
    /\ mFloatViewMap' = {}
    /\ engine' = [engine EXCEPT !.voiceChannel = 4]
    /\ UNCHANGED <<telephony, network, listener, mainQueue, clicks>>

(* Slip: events that have come before are not delivered. *)
onServiceConnected_NoDeliver ==
    /\ MainIsFree
    /\ service = "created"
    /\ service' = "bound"
    /\ handler' = TRUE
    /\ UNCHANGED <<telephony, network, jsonList, pc, item, raced, mainQueue,
                   mFloatViewMap, mCallMap, engine, clicks>>

(* setHandler(mHandler), and deliverMsg *)
onServiceConnected ==
    /\ MainIsFree
    /\ service = "created"
    /\ service' = "bound"
    /\ handler' = TRUE
    /\ deliverMsgFrom("main", jsonList)
    /\ raced' = (raced \/ pc["reader"] # "idle")
    /\ UNCHANGED <<telephony, network, jsonList, item, mainQueue,
                   mFloatViewMap, mCallMap, engine, clicks>>

(* Without a call the listener's handler is taken back. *)
dismissFloatUI(n) ==
    /\ mFloatViewMap' = mFloatViewMap \ {n}
    /\ handler' = (handler /\ mCallMap # {})

(* handleDevolveMsg posts the event again, behind those before it; the two *)
(* messages are one here.                                                  *)
handleMessage(state, n) ==
    /\ MainIsFree
    /\ mainQueue # <<>>
    /\ StateOf(Head(mainQueue)) = state
    /\ Head(mainQueue).serialno = n
    /\ mainQueue' = Tail(mainQueue)

(* Slip: the window of a call that ended is left on the screen. *)
MSG_IDLE_CALL_KeepsWindow(n) ==
    /\ handleMessage("IDLE", n)
    /\ mCallMap' = mCallMap \ {n}
    /\ IF mCallMap' = {}
       THEN engine' = stopVoiceEngine(engine) /\ service' = "none"
       ELSE UNCHANGED <<engine, service>>
    /\ UNCHANGED <<telephony, network, listener, mFloatViewMap, clicks>>

(* The window goes, the call goes, and with the last call the audio and    *)
(* the service (clearInCallUI).                                            *)
MSG_IDLE_CALL(n) ==
    /\ handleMessage("IDLE", n)
    /\ IF n \in mFloatViewMap THEN dismissFloatUI(n)
       ELSE UNCHANGED <<mFloatViewMap, handler>>
    /\ mCallMap' = mCallMap \ {n}
    /\ IF mCallMap' = {}
       THEN engine' = stopVoiceEngine(engine) /\ service' = "none"
       ELSE UNCHANGED <<engine, service>>
    /\ UNCHANGED <<telephony, network, jsonList, pc, item, raced, clicks>>

MSG_INCOMING_CALL(n) ==
    /\ handleMessage("INCOMING", n)
    /\ mFloatViewMap' = mFloatViewMap \cup {n}
    /\ mCallMap' = mCallMap \cup {n}
    /\ UNCHANGED <<telephony, network, listener, service, engine, clicks>>

MSG_ACTIVE_CALL(n) ==
    /\ handleMessage("ACTIVE", n)
    /\ UNCHANGED <<telephony, network, listener, ui>>

click(n) ==
    /\ MainIsFree
    /\ n \in mFloatViewMap
    /\ clicks < MaxClicks
    /\ clicks' = clicks + 1

(* prepareAudio's result is not looked at.  (What was sent before the      *)
(* process dies has no effect but to close the connection.)                *)
acceptCall(n) ==
    /\ click(n)
    /\ \E ok \in Outcomes :
          LET prepared == prepareAudio(engine, ok)
          IN  \/ Aborts(prepared, ok) /\ processDies
             \/ /\ ~ Aborts(prepared, ok)
                /\ sendData(packPhoneJson("ACTIVE", n))
                /\ engine' = startVoiceEngine(prepared, ok)
                /\ UNCHANGED <<phoneTasks, up, missed, listener, mainQueue,
                               service, mFloatViewMap, mCallMap>>
    /\ UNCHANGED telephony

(* Slip: the number of the window's call is not packed. *)
rejectCall_NoSerial(n) ==
    /\ click(n)
    /\ sendData(packPhoneJson("DISCONNECTING", None))
    /\ dismissFloatUI(n)
    /\ UNCHANGED <<telephony, phoneTasks, up, missed, jsonList, pc, item, raced,
                   mainQueue, service, mCallMap, engine>>

(* btn_reject and btn_endcall *)
rejectCall(n) ==
    /\ click(n)
    /\ sendData(packPhoneJson("DISCONNECTING", n))
    /\ dismissFloatUI(n)
    /\ UNCHANGED <<telephony, phoneTasks, up, missed, jsonList, pc, item, raced,
                   mainQueue, service, mCallMap, engine>>

(* btn_ignore *)
ignore(n) ==
    /\ MainIsFree
    /\ n \in mFloatViewMap
    /\ dismissFloatUI(n)
    /\ UNCHANGED <<telephony, network, jsonList, pc, item, raced, mainQueue,
                   service, mCallMap, engine, clicks>>

-----------------------------------------------------------------------------
Next ==
    \/ ConnectionLost \/ Reconnect
    \/ AnsweredOnPhone \/ onMessageActive \/ onMessageDisconnecting
    \/ onMessageAdd \/ onMessageTest
    \/ (\E t \in Threads : deliverMsg(t)) \/ deliverMsgBothRemove
    \/ onCreate \/ onServiceConnected
    \/ \E n \in Numbers :
          \/ Rings(n) \/ Ends(n)
          \/ MSG_IDLE_CALL(n) \/ MSG_INCOMING_CALL(n) \/ MSG_ACTIVE_CALL(n)
          \/ acceptCall(n) \/ rejectCall(n) \/ ignore(n)

Spec == Init /\ [][Next]_vars

-----------------------------------------------------------------------------
(* The type of the state. *)
TypeOK ==
    /\ ringing \in ongoing \cup {None}
    /\ ongoing \in SUBSET Numbers
    /\ calls \in 0..MaxCalls
    /\ phoneTasks \in Seq(PhoneJson) /\ tabletTasks \in Seq(PhoneJson)
    /\ up \in BOOLEAN
    /\ jsonList \in Seq(PhoneJson) /\ mainQueue \in Seq(PhoneJson)
    /\ handler \in BOOLEAN
    /\ pc \in [Threads -> {"idle", "test", "remove", "post"}]
    /\ item \in [Threads -> Seq(PhoneJson)]
    /\ service \in {"none", "starting", "created", "bound"}
    /\ mFloatViewMap \in SUBSET Numbers
    /\ mCallMap \in SUBSET Numbers
    /\ engine \in Engines
    /\ clicks \in 0..MaxClicks
    /\ raced \in BOOLEAN
    /\ missed \in SUBSET Numbers

(* InCallUIService:140, "stop audio if no call in callManager": nothing is *)
(* played, recorded or sent on the tablet without a call, however often    *)
(* Accept was clicked (each click adds a channel that stopVoiceEngine does *)
(* not know).                                                              *)
AudioOnlyDuringCalls == Sounds(engine) => mCallMap # {}

(* A window on the tablet is that of a call it knows.  It is why           *)
(* dismissFloatUI never finds the call table empty, so that the listener   *)
(* keeps the handler it was given first.                                   *)
WindowsAreCalls == mFloatViewMap \subseteq mCallMap

Quiet ==
    /\ ongoing = {}
    /\ phoneTasks = <<>> /\ mainQueue = <<>>
    /\ \A t \in Threads : pc[t] = "idle"
    /\ service \in {"none", "bound"}

(* When all is quiet and no event came while setHandler delivered, the     *)
(* tablet has delivered every event and knows no call that has ended,      *)
(* except those in missed: calls that no IDLE named, as when one of two    *)
(* calls ends or Android gives no number, and calls whose IDLE was lost    *)
(* with a connection or overtook its INCOMING in the phone's sender.       *)
EndedCallsAreForgotten ==
    Quiet /\ ~ raced => jsonList = <<>> /\ mCallMap \subseteq missed

(* CollaborationService.java:154, "Answer call": a ringing phone that is   *)
(* told that the tablet has accepted answers the call.                     *)
AcceptedIsAnswered ==
    [][onMessageActive /\ callState = "RINGING" => callState' = "OFFHOOK"]_vars
=============================================================================
