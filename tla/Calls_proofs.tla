---------------------------- MODULE Calls_proofs ----------------------------
(***************************************************************************)
(* Proofs about Calls for any callers and any number of calls, clicks and  *)
(* pending events: the tablet's windows, calls and audio.                  *)
(***************************************************************************)
EXTENDS Calls, TLAPS, SequenceTheorems

(* An engine that was never created makes no sound. *)
Sound(e) == e \in Engines /\ (~ e.created => ~ Sounds(e))

LEMMA NoEngineIsSilent == NoEngine \in Engines /\ ~ Sounds(NoEngine)
BY DEF NoEngine, Engines, Sounds, None

-----------------------------------------------------------------------------
(* The steps of startVoiceEngine *)
LEMMA PrepareAudioSound ==
    ASSUME NEW e, Sound(e), NEW ok \in Outcomes
    PROVE  Sound(prepareAudio(e, ok))
<1>1. ok.create \in BOOLEAN /\ ok.init \in BOOLEAN
  BY DEF Outcomes, Steps
<1> DEFINE e1 == VoE_Create(e, ok.create)
<1>2. e1 \in Engines /\ (e1.created <=> e.created \/ ok.create)
      /\ (Sounds(e1) <=> Sounds(e))
  BY <1>1 DEF VoE_Create, Sound, Engines, Sounds
<1>3. Sound(e1)
  BY <1>2 DEF Sound
<1> HIDE DEF e1
<1>4. Sound(VoE_Init(e1, ok.init))
  BY <1>1, <1>3 DEF VoE_Init, Sound, Engines, Sounds
<1> QED
  BY <1>4 DEF prepareAudio, e1

LEMMA StartListenSound ==
    ASSUME NEW e, Sound(e), NEW c \in Nat \cup {None}
    PROVE  Sound(VoE_StartListen(e, c))
<1>1. CASE ~ Located(e, c)
  BY <1>1 DEF VoE_StartListen
<1>2. CASE Located(e, c)
  <2>1. c \in Nat
    BY <1>2 DEF Located, Sound, Engines
  <2> QED
    BY <1>2, <2>1 DEF VoE_StartListen, Located, Sound, Engines, Sounds
<1> QED
  BY <1>1, <1>2

LEMMA StartVoiceEngineSound ==
    ASSUME NEW e, Sound(e), NEW ok \in Outcomes
    PROVE  Sound(startVoiceEngine(e, ok))
<1>1. ok.playout \in BOOLEAN /\ ok.recording \in BOOLEAN
  BY DEF Outcomes, Steps
<1>2. CASE ~ e.created
  BY <1>2 DEF startVoiceEngine, Sound, Engines, Sounds
<1>3. CASE e.created
  <2> DEFINE c == e.last + 1
             e1 == VoE_CreateChannel(e)
             e2 == VoE_StartListen(e1, c)
             e3 == VoE_StartPlayout(e2, c, ok.playout)
  <2>1. c \in Nat
    BY DEF Sound, Engines
  <2>2. Sound(e1)
    BY <1>3, <2>1 DEF VoE_CreateChannel, Sound, Engines
  <2>3. Sound(e2)
    BY <2>1, <2>2, StartListenSound
  <2>4. ASSUME NEW f, Sound(f) PROVE Sound(VoE_StartPlayout(f, c, ok.playout))
    BY <1>1, <2>1, <2>4 DEF VoE_StartPlayout, Located, Sound, Engines
  <2>5. ASSUME NEW f, Sound(f) PROVE Sound(VoE_StartSend(f, c, ok.recording))
    BY <1>1, <2>1, <2>5 DEF VoE_StartSend, Located, Sound, Engines
  <2>6. Sound(VoE_StartSend(e3, c, ok.recording))
    BY <2>3, <2>4, <2>5
  <2> QED
    BY <1>3, <2>6 DEF startVoiceEngine
<1> QED
  BY <1>2, <1>3

-----------------------------------------------------------------------------
(* The steps of stopVoiceEngine *)
LEMMA StopSound ==
    ASSUME NEW e, Sound(e), NEW c
    PROVE  Sound(VoE_StopSend(e, c)) /\ Sound(VoE_StopPlayout(e, c))
BY ZenonT(30) DEF VoE_StopSend, VoE_StopPlayout, Located, Sound, Engines, Sounds

LEMMA DeleteChannelSound ==
    ASSUME NEW e, Sound(e), NEW c
    PROVE  Sound(VoE_DeleteChannel(e, c))
<1> DEFINE e1 == IF e.created THEN [e EXCEPT !.transport = None] ELSE e
           e2 == VoE_StopPlayout(VoE_StopSend(e1, c), c)
<1>1. Sound(e1)
  BY DEF Sound, Engines, Sounds
<1>2. Sound(e2)
  BY <1>1, StopSound
<1> HIDE DEF e1, e2
<1>3. Sound([e2 EXCEPT !.channels = @ \ {c}, !.receiving = @ \ {c}])
  BY <1>2 DEF Sound, Engines, Sounds
<1> QED
  BY <1>1, <1>3 DEF VoE_DeleteChannel, e1, e2

(* Whatever channels an earlier Accept has left, Terminate() silences the  *)
(* engine.                                                                 *)
LEMMA StopVoiceEngineSilences ==
    ASSUME NEW e, Sound(e)
    PROVE  Sound(stopVoiceEngine(e)) /\ ~ Sounds(stopVoiceEngine(e))
<1> DEFINE c == e.voiceChannel
           e1 == VoE_StopSend(e, c)
           e2 == VoE_StopListen(e1, c)
           e3 == VoE_StopPlayout(e2, c)
           e4 == VoE_DeleteChannel(e3, c)
           e5 == [e4 EXCEPT !.voiceChannel = None]
<1>1. c \in Nat \cup {None}
  BY DEF Sound, Engines
<1>2. Sound(e1)
  BY StopSound
<1>3. Sound(e2)
  BY <1>1, <1>2, StartListenSound DEF VoE_StopListen
<1>4. Sound(e4)
  BY <1>3, StopSound, DeleteChannelSound
<1> HIDE DEF e4
<1>5. Sound(e5)
  BY <1>4 DEF Sound, Engines, Sounds
<1> HIDE DEF e5
<1>6. Sound(VoE_Terminate(e5)) /\ ~ Sounds(VoE_Terminate(e5))
  BY <1>5, ZenonT(30) DEF VoE_Terminate, Sound, Engines, Sounds
<1> QED
  BY <1>6 DEF stopVoiceEngine, e4, e5

-----------------------------------------------------------------------------
(* Neither property is inductive.  onCreate clears the calls without       *)
(* stopping the audio: it is safe because a service is only created before *)
(* the listener has had its first handler, and until then no event has     *)
(* reached the windows.                                                    *)
CallsInv ==
    /\ Sound(engine)
    /\ WindowsAreCalls
    /\ AudioOnlyDuringCalls
    /\ handler \in BOOLEAN
    /\ service \in {"starting", "created"} => ~ handler
    /\ ~ handler => mainQueue = <<>> /\ mCallMap = {} /\ mFloatViewMap = {}

LEMMA CallsInvInit == Init => CallsInv
BY NoEngineIsSilent
   DEF Init, CallsInv, WindowsAreCalls, AudioOnlyDuringCalls, Sound

(* What CallsInv is about. *)
shown == <<engine, handler, service, mainQueue, mCallMap, mFloatViewMap>>

LEMMA CallsInvStep == CallsInv /\ [Next]_vars => CallsInv'
<1> SUFFICES ASSUME CallsInv, [Next]_vars PROVE CallsInv'
  OBVIOUS
<1> USE DEF CallsInv, WindowsAreCalls, AudioOnlyDuringCalls
<1>1. ASSUME UNCHANGED shown PROVE CallsInv'
  BY <1>1 DEF shown
<1>2. ASSUME processDies PROVE CallsInv'
  BY <1>2, NoEngineIsSilent DEF processDies, Sound
<1>3. ASSUME NEW n \in Numbers, n \in mFloatViewMap PROVE handler /\ mCallMap # {}
  BY <1>3
<1>4. CASE \/ ConnectionLost \/ Reconnect \/ AnsweredOnPhone
           \/ onMessageActive \/ onMessageDisconnecting \/ onMessageAdd
           \/ deliverMsgBothRemove \/ \E n \in Numbers : Rings(n) \/ Ends(n)
  <2>1. UNCHANGED shown
    BY <1>4 DEF ConnectionLost, Reconnect, AnsweredOnPhone, Ends,
                onMessageActive, onMessageDisconnecting, onMessageAdd,
                deliverMsgBothRemove, Rings, listener, ui, shown
  <2> QED
    BY <1>1, <2>1
<1>5. CASE onMessageTest
  BY <1>5 DEF onMessageTest
<1>6. ASSUME NEW t \in Threads, deliverMsg(t) PROVE CallsInv'
  <2>1. CASE deliverMsgRemove(t)
    BY <1>1, <2>1 DEF deliverMsgRemove, ui, shown
  <2>2. CASE deliverMsgThrows(t)
    BY <1>1, <1>2, <2>2 DEF deliverMsgThrows, shown
  <2>3. CASE updateState(t)
    BY <2>3 DEF updateState, ui
  <2> QED
    BY <1>6, <2>1, <2>2, <2>3 DEF deliverMsg
<1>7. CASE onCreate
  <2>1. ~ handler /\ mCallMap = {} /\ ~ Sounds(engine)
    BY <1>7 DEF onCreate
  <2>2. Sound(engine') /\ ~ Sounds(engine')
    BY <1>7, <2>1 DEF onCreate, Sound, Sounds, Engines
  <2> QED
    BY <1>7, <2>1, <2>2 DEF onCreate, listener
<1>8. CASE onServiceConnected
  BY <1>8 DEF onServiceConnected
<1>9. ASSUME NEW n \in Numbers, MSG_IDLE_CALL(n) PROVE CallsInv'
  <2>1. handler
    BY <1>9 DEF MSG_IDLE_CALL, handleMessage
  <2>2. handler' = TRUE /\ mFloatViewMap' \subseteq mCallMap'
    <3>1. mCallMap' = mCallMap \ {n}
      BY <1>9 DEF MSG_IDLE_CALL
    <3>2. CASE n \in mFloatViewMap
      <4>1. dismissFloatUI(n) /\ mCallMap # {}
        BY <1>9, <3>2 DEF MSG_IDLE_CALL
      <4> QED
        BY <2>1, <3>1, <4>1 DEF dismissFloatUI
    <3>3. CASE n \notin mFloatViewMap
      <4>1. UNCHANGED <<mFloatViewMap, handler>>
        BY <1>9, <3>3 DEF MSG_IDLE_CALL
      <4> QED
        BY <2>1, <3>1, <3>3, <4>1
    <3> QED
      BY <3>2, <3>3
  <2>3. CASE mCallMap' = {}
    BY <1>9, <2>2, <2>3, StopVoiceEngineSilences DEF MSG_IDLE_CALL
  <2>4. CASE mCallMap' # {}
    BY <1>9, <2>1, <2>2, <2>4 DEF MSG_IDLE_CALL
  <2> QED
    BY <2>3, <2>4
<1>10. ASSUME NEW n \in Numbers, MSG_INCOMING_CALL(n) PROVE CallsInv'
  BY <1>10 DEF MSG_INCOMING_CALL, handleMessage, listener
<1>11. ASSUME NEW n \in Numbers, MSG_ACTIVE_CALL(n) PROVE CallsInv'
  BY <1>11 DEF MSG_ACTIVE_CALL, handleMessage, listener, ui
<1>12. ASSUME NEW n \in Numbers, acceptCall(n) PROVE CallsInv'
  <2>1. n \in mFloatViewMap
    BY <1>12 DEF acceptCall, click
  <2>2. PICK ok \in Outcomes :
           \/ processDies
           \/ /\ engine' = startVoiceEngine(prepareAudio(engine, ok), ok)
              /\ UNCHANGED <<phoneTasks, up, missed, listener, mainQueue,
                             service, mFloatViewMap, mCallMap>>
    BY <1>12 DEF acceptCall
  <2>3. Sound(startVoiceEngine(prepareAudio(engine, ok), ok))
    BY PrepareAudioSound, StartVoiceEngineSound
  <2> QED
    BY <1>2, <1>3, <2>1, <2>2, <2>3 DEF listener
<1>13. ASSUME NEW n \in Numbers, rejectCall(n) \/ ignore(n) PROVE CallsInv'
  <2>1. n \in mFloatViewMap /\ dismissFloatUI(n)
        /\ UNCHANGED <<mainQueue, service, mCallMap, engine>>
    BY <1>13 DEF rejectCall, ignore, click
  <2> QED
    BY <1>3, <2>1 DEF dismissFloatUI
<1>14. CASE UNCHANGED vars
  BY <1>1, <1>14 DEF vars, listener, ui, shown
<1> QED
  BY <1>4, <1>5, <1>6, <1>7, <1>8, <1>9, <1>10, <1>11, <1>12, <1>13, <1>14
     DEF Next

(* Every window on the tablet belongs to a call it knows, for any number   *)
(* of calls and clicks, lost connections and restarts.                     *)
THEOREM WindowsOfCalls == Spec => []WindowsAreCalls
<1>1. CallsInv => WindowsAreCalls
  BY DEF CallsInv
<1> QED
  BY <1>1, CallsInvInit, CallsInvStep, PTL DEF Spec

(* Nothing is played or recorded on the tablet without a call, however     *)
(* many channels the clicks on Accept have left behind.                    *)
THEOREM SilentWithoutCalls == Spec => []AudioOnlyDuringCalls
<1>1. CallsInv => AudioOnlyDuringCalls
  BY DEF CallsInv
<1> QED
  BY <1>1, CallsInvInit, CallsInvStep, PTL DEF Spec
-----------------------------------------------------------------------------
(* What is sent has a number for every state, from which the other end     *)
(* reads the same state.                                                   *)
LEMMA Wire ==
    ASSUME NEW state \in {State[i] : i \in 1..9}, NEW n \in Numbers
    PROVE  /\ packPhoneJson(state, n) \in PhoneJson
           /\ StateOf(packPhoneJson(state, n)) = state
           /\ packPhoneJson(state, n).serialno = n
<1> DEFINE i == CHOOSE i \in 1..9 : State[i] = state
<1>1. i \in 1..9 /\ State[i] = state
  <2>1. \E j \in 1..9 : State[j] = state
    OBVIOUS
  <2> HIDE DEF State
  <2> QED BY <2>1
<1>2. stateToNum(state) = i - 1
  <2>1. \E j \in 1..9 : State[j] = state
    BY <1>1
  <2> QED BY <2>1 DEF stateToNum
<1> HIDE DEF i
<1>3. i - 1 \in 0..8 /\ i - 1 \in -1..8 /\ (i - 1) + 1 = i
  BY <1>1
<1>4. numToState(i - 1) = state
  <2> HIDE DEF State
  <2> QED BY <1>1, <1>3 DEF numToState
<1> QED
  BY <1>2, <1>3, <1>4 DEF packPhoneJson, PhoneJson, StateOf

LEMMA WireStates ==
    {"IDLE", "ACTIVE", "INCOMING", "DISCONNECTING"} \subseteq
        {State[i] : i \in 1..9}
<1>1. /\ State[1] = "IDLE" /\ State[2] = "ACTIVE" /\ State[6] = "INCOMING"
      /\ State[9] = "DISCONNECTING"
  BY DEF State
<1> QED
  BY <1>1

(* Which numbers the events of a queue in some state are about.           *)
LEMMA InStateNumbers ==
    ASSUME NEW state, NEW s \in Seq(PhoneJson)
    PROVE  /\ InState(state, s) \subseteq Numbers
           /\ \A n : n \in InState(state, s) <=>
                 \E i \in 1..Len(s) : StateOf(s[i]) = state /\ s[i].serialno = n
<1>1. DOMAIN s = 1..Len(s) /\ \A i \in 1..Len(s) : s[i] \in PhoneJson
  BY ElementOfSeq, LenProperties
<1>2. \A n : n \in InState(state, s) <=>
                 \E i \in 1..Len(s) : StateOf(s[i]) = state /\ s[i].serialno = n
  BY <1>1 DEF InState, ToSet
<1>3. \A i \in 1..Len(s) : s[i].serialno \in Numbers
  BY <1>1 DEF PhoneJson
<1> QED
  BY <1>2, <1>3

(* Taking from either end of a queue leaves a queue. *)
LEMMA QueueParts ==
    ASSUME NEW s \in Seq(PhoneJson), s # <<>>
    PROVE  /\ Front(s) \in Seq(PhoneJson) /\ Last(s) \in PhoneJson
           /\ Tail(s) \in Seq(PhoneJson) /\ Head(s) \in PhoneJson
           /\ <<Head(s)>> \in Seq(PhoneJson)
           /\ SubSeq(s, 3, Len(s)) \in Seq(PhoneJson)
<1>1. Len(s) \in Nat \ {0} /\ \A i \in 1..Len(s) : s[i] \in PhoneJson
  BY EmptySeq, ElementOfSeq
<1>2. Front(s) \in Seq(PhoneJson) /\ Last(s) \in PhoneJson
  BY <1>1, SubSeqProperties DEF Front, Last
<1>3. SubSeq(s, 3, Len(s)) \in Seq(PhoneJson)
  BY <1>1, SubSeqProperties
<1> QED
  BY <1>2, <1>3, HeadTailProperties

(* The types, but for the engine and the flags: CallsInv has the engine's. *)
Types ==
    /\ ringing \in ongoing \cup {None}
    /\ ongoing \in SUBSET Numbers
    /\ calls \in 0..MaxCalls
    /\ phoneTasks \in Seq(PhoneJson) /\ tabletTasks \in Seq(PhoneJson)
    /\ jsonList \in Seq(PhoneJson) /\ mainQueue \in Seq(PhoneJson)
    /\ pc \in [Threads -> {"idle", "test", "remove", "post"}]
    /\ item \in [Threads -> Seq(PhoneJson)]
    /\ service \in {"none", "starting", "created", "bound"}
    /\ mFloatViewMap \in SUBSET Numbers
    /\ mCallMap \in SUBSET Numbers
    /\ clicks \in 0..MaxClicks
    /\ missed \in SUBSET Numbers

(* Three of the things actions do to the state. *)
LEMMA CloseTypes ==
    ASSUME Types, loseConnection
    PROVE  /\ phoneTasks' \in Seq(PhoneJson) /\ tabletTasks' \in Seq(PhoneJson)
           /\ missed' \in SUBSET Numbers
BY InStateNumbers DEF Types, loseConnection, close

LEMMA DiesTypes ==
    ASSUME processDies, Types, UNCHANGED telephony, clicks' \in 0..MaxClicks
    PROVE  Types'
BY DEF Types, processDies, close, telephony, Threads

(* How the phone's calls may change: one that rings is one of them, and    *)
(* none is new without ringing.                                            *)
Fits(r, o) ==
    /\ o \in SUBSET Numbers
    /\ r \in o \cup {None}
    /\ r # None \/ o \subseteq ongoing

LEMMA CallsChange ==
    ASSUME Types, \/ answered
                  \/ \E n \in Numbers : ended(n) \/ Rings(n)
    PROVE  \E r, o : Fits(r, o) /\ callsBecome(r, o)
<1>1. CASE answered
  <2>1. Fits(None, ongoing) /\ callsBecome(None, ongoing)
    BY <1>1 DEF answered, Fits, Types
  <2> QED BY <2>1
<1>2. ASSUME NEW n \in Numbers, ended(n)
      PROVE  \E r, o : Fits(r, o) /\ callsBecome(r, o)
  <2> DEFINE r == IF n = ringing THEN None ELSE ringing
             o == ongoing \ {n}
  <2>1. Fits(r, o) /\ callsBecome(r, o)
    BY <1>2 DEF ended, Fits, Types
  <2> QED BY <2>1
<1>3. ASSUME NEW n \in Numbers, Rings(n)
      PROVE  \E r, o : Fits(r, o) /\ callsBecome(r, o)
  <2>1. Fits(n, ongoing \cup {n}) /\ callsBecome(n, ongoing \cup {n})
    BY <1>3, NumbersAssumption DEF Rings, Fits, Types
  <2> QED BY <2>1
<1> QED BY <1>1, <1>2, <1>3

(* What the phone then sends, if anything, is INCOMING only for the caller *)
(* that rings.                                                             *)
LEMMA WhatIsSent ==
    ASSUME Types, NEW r, NEW o, Fits(r, o), callsBecome(r, o)
    PROVE  \/ UNCHANGED phoneTasks
           \/ \E e \in PhoneJson :
                 /\ phoneTasks' = Append(phoneTasks, e)
                 /\ StateOf(e) = "INCOMING" => e.serialno \in o
<1> SUFFICES ASSUME callState' # callState, phoneTasks' # phoneTasks
             PROVE  \E e \in PhoneJson :
                       /\ phoneTasks' = Append(phoneTasks, e)
                       /\ StateOf(e) = "INCOMING" => e.serialno \in o
  BY DEF callsBecome
<1>1. PICK n \in incomingNumbers(r, o) : onCallStateChanged(callState', n)
  BY DEF callsBecome
<1> DEFINE state == stateFromPhoneToCall(callState')
           e == packPhoneJson(state, n)
<1>2. ringing' = r /\ ongoing' = o
  BY DEF callsBecome
<1>3. callState' = IF r # None THEN "RINGING"
                   ELSE IF o = {} THEN "IDLE" ELSE "OFFHOOK"
  BY <1>2 DEF callState
<1>4. n \in Numbers
  <2>1. r = None /\ o # {} => ringing # None
    BY <1>3 DEF callState, Fits
  <2> QED
    BY <1>1, <2>1 DEF incomingNumbers, Fits, Types
<1>5. /\ state \in {"IDLE", "ACTIVE", "INCOMING"}
      /\ state = "INCOMING" => n \in o
  BY <1>1, <1>3 DEF stateFromPhoneToCall, incomingNumbers, Fits
<1>6. e \in PhoneJson /\ StateOf(e) = state /\ e.serialno = n
  <2>1. state \in {State[i] : i \in 1..9}
    BY <1>5, WireStates
  <2> HIDE DEF state
  <2> QED BY <1>4, <2>1, Wire
<1>7. sendDataToClient(e)
  BY <1>1 DEF onCallStateChanged
<1> HIDE DEF e, state
<1>8. phoneTasks' = Append(phoneTasks, e)
  BY <1>7 DEF sendDataToClient
<1> QED
  BY <1>5, <1>6, <1>8

LEMMA CallStateTypes ==
    ASSUME Types, \/ answered
                  \/ \E n \in Numbers : ended(n) \/ Rings(n)
    PROVE  /\ ringing' \in ongoing' \cup {None} /\ ongoing' \in SUBSET Numbers
           /\ phoneTasks' \in Seq(PhoneJson) /\ missed' \in SUBSET Numbers
<1>1. PICK r, o : Fits(r, o) /\ callsBecome(r, o)
  BY CallsChange
<1>2. phoneTasks' \in Seq(PhoneJson)
  <2>1. phoneTasks \in Seq(PhoneJson)
    BY DEF Types
  <2>2. \/ UNCHANGED phoneTasks
        \/ \E e \in PhoneJson : phoneTasks' = Append(phoneTasks, e)
    BY <1>1, WhatIsSent
  <2> QED BY <2>1, <2>2
<1>3. /\ ringing' = r /\ ongoing' = o
      /\ missed' = missed \cup ((ongoing \ o) \ InState("IDLE", phoneTasks'))
  BY <1>1 DEF callsBecome
<1> QED
  BY <1>1, <1>2, <1>3 DEF Fits, Types

LEMMA TypesStep ==
    ASSUME Types, [Next]_vars
    PROVE  Types'
<1> USE BoundsAssumption
<1>1. CASE ConnectionLost
  BY <1>1, CloseTypes
  DEF ConnectionLost, telephony, listener, ui, Types
<1>2. CASE Reconnect \/ UNCHANGED vars
  BY <1>2 DEF Reconnect, vars, telephony, network, listener, ui, Types
<1>3. CASE AnsweredOnPhone \/ \E n \in Numbers : Ends(n)
  BY <1>3, CallStateTypes DEF AnsweredOnPhone, Ends, listener, ui, Types
<1>4. CASE onMessageActive
  <2>1. CASE loseConnection /\ UNCHANGED telephony
    BY <1>4, <2>1, CloseTypes
    DEF onMessageActive, telephony, listener, ui, Types
  <2>2. CASE /\ answered
             /\ tabletTasks' = Front(tabletTasks)
             /\ UNCHANGED <<calls, up>>
    <3>1. tabletTasks' \in Seq(PhoneJson)
      BY <1>4, <2>2, QueueParts DEF onMessageActive, Types
    <3> QED
      BY <1>4, <2>2, <3>1, CallStateTypes
      DEF onMessageActive, listener, ui, Types
  <2> QED
    BY <1>4, <2>1, <2>2 DEF onMessageActive
<1>5. CASE onMessageDisconnecting
  <2>1. tabletTasks' \in Seq(PhoneJson)
    BY <1>5, QueueParts DEF onMessageDisconnecting, Types
  <2>2. \/ \E n \in Numbers : ended(n)
        \/ UNCHANGED <<ringing, ongoing, phoneTasks, missed>>
    BY <1>5 DEF onMessageDisconnecting, ended, Types
  <2> QED
    BY <1>5, <2>1, <2>2, CallStateTypes
    DEF onMessageDisconnecting, listener, ui, Types
<1>6. CASE onMessageAdd
  <2>1. /\ phoneTasks' \in Seq(PhoneJson) /\ jsonList' \in Seq(PhoneJson)
        /\ missed' \in SUBSET Numbers
    <3> DEFINE e == Last(phoneTasks)
    <3>1. e \in PhoneJson /\ Front(phoneTasks) \in Seq(PhoneJson)
      BY <1>6, QueueParts DEF onMessageAdd, Types
    <3> HIDE DEF e
    <3>2. Append(jsonList, e) \in Seq(PhoneJson) /\ <<e>> \in Seq(PhoneJson)
      BY <3>1 DEF Types
    <3>3. InState("IDLE", <<e>>) \subseteq Numbers
      BY <3>2, InStateNumbers
    <3> QED
      BY <1>6, <3>1, <3>2, <3>3 DEF onMessageAdd, Types, e
  <2> QED
    BY <1>6, <2>1 DEF onMessageAdd, telephony, ui, Types
<1>7. CASE onMessageTest
  BY <1>7 DEF onMessageTest, deliverMsgFrom, telephony, network, Types, Threads
<1>8. ASSUME NEW t \in Threads, deliverMsgRemove(t) PROVE Types'
  <2>1. /\ <<Head(jsonList)>> \in Seq(PhoneJson)
        /\ Tail(jsonList) \in Seq(PhoneJson)
    BY <1>8, QueueParts DEF deliverMsgRemove, Types
  <2> QED
    BY <1>8, <2>1 DEF deliverMsgRemove, telephony, network, ui, Types
<1>9. CASE deliverMsgBothRemove
  <2>1. /\ <<Head(jsonList)>> \in Seq(PhoneJson)
        /\ jsonList' \in Seq(PhoneJson)
    BY <1>9, QueueParts DEF deliverMsgBothRemove, Types
  <2> QED
    BY <1>9, <2>1 DEF deliverMsgBothRemove, telephony, network, ui, Types
<1>10. ASSUME NEW t \in Threads, deliverMsgThrows(t) PROVE Types'
  <2>1. CASE processDies
    BY <1>10, <2>1, DiesTypes DEF deliverMsgThrows, Types
  <2>2. CASE loseConnection
    BY <1>10, <2>1, <2>2, CloseTypes DEF deliverMsgThrows, telephony, Types
  <2> QED
    BY <1>10, <2>1, <2>2 DEF deliverMsgThrows
<1>11. ASSUME NEW t \in Threads, updateState(t) PROVE Types'
  <2>1. mainQueue' \in Seq(PhoneJson)
    BY <1>11 DEF updateState, Types
  <2> QED
    BY <1>11, <2>1
    DEF updateState, deliverMsgFrom, telephony, network, ui, Types
<1>12. CASE onCreate \/ onServiceConnected
  BY <1>12 DEF onCreate, onServiceConnected, deliverMsgFrom, telephony,
               network, listener, Types, Threads
<1>13. ASSUME NEW n \in Numbers, Rings(n) PROVE Types'
  <2>1. calls' \in 0..MaxCalls
    BY <1>13 DEF Rings, Types
  <2> QED
    BY <1>13, <2>1, CallStateTypes DEF Rings, listener, ui, Types
<1>14. ASSUME NEW n \in Numbers,
              MSG_IDLE_CALL(n) \/ MSG_INCOMING_CALL(n) \/ MSG_ACTIVE_CALL(n)
       PROVE  Types'
  <2>1. mainQueue' \in Seq(PhoneJson)
    BY <1>14, QueueParts
    DEF MSG_IDLE_CALL, MSG_INCOMING_CALL, MSG_ACTIVE_CALL, handleMessage, Types
  <2> QED
    BY <1>14, <2>1
    DEF MSG_IDLE_CALL, MSG_INCOMING_CALL, MSG_ACTIVE_CALL, dismissFloatUI,
        telephony, network, listener, ui, Types
<1>15. ASSUME NEW n \in Numbers, acceptCall(n) \/ rejectCall(n) \/ ignore(n)
       PROVE  Types'
  <2>1. clicks' \in 0..MaxClicks
    BY <1>15 DEF acceptCall, rejectCall, ignore, click, Types
  <2>2. ASSUME NEW state \in {"ACTIVE", "DISCONNECTING"},
               sendData(packPhoneJson(state, n))
        PROVE  tabletTasks' \in Seq(PhoneJson)
    <3>1. packPhoneJson(state, n) \in PhoneJson
      BY Wire, WireStates
    <3> QED
      BY <2>2, <3>1 DEF sendData, Types
  <2>3. CASE acceptCall(n)
    <3>1. CASE processDies
      BY <2>1, <2>3, <3>1, DiesTypes DEF acceptCall
    <3>2. CASE ~ processDies
      <4>1. /\ sendData(packPhoneJson("ACTIVE", n))
            /\ UNCHANGED <<phoneTasks, up, missed, listener, mainQueue,
                           service, mFloatViewMap, mCallMap, telephony>>
        BY <2>3, <3>2 DEF acceptCall
      <4> QED
        BY <2>1, <2>2, <4>1 DEF listener, telephony, Types
    <3> QED BY <3>1, <3>2
  <2>4. CASE rejectCall(n)
    BY <2>1, <2>2, <2>4
    DEF rejectCall, dismissFloatUI, telephony, Types
  <2>5. CASE ignore(n)
    BY <2>1, <2>5
    DEF ignore, dismissFloatUI, telephony, network, Types
  <2> QED BY <1>15, <2>3, <2>4, <2>5
<1> QED
  BY <1>1, <1>2, <1>3, <1>4, <1>5, <1>6, <1>7, <1>8, <1>9, <1>10, <1>11,
     <1>12, <1>13, <1>14, <1>15
  DEF Next, deliverMsg

(* Type correctness of both ends, with any number of calls at a time and   *)
(* with their queues at any length.                                        *)
THEOREM CallTyping == Spec => []TypeOK
<1> DEFINE Flags == (up \in BOOLEAN) /\ (raced \in BOOLEAN)
           Inv == Types /\ CallsInv /\ Flags
<1>1. Init => Inv
  <2>1. Init => Types
    BY BoundsAssumption DEF Init, Types, Threads
  <2>2. Init => Flags
    BY DEF Init
  <2> QED BY <2>1, <2>2, CallsInvInit
<1>2. Inv /\ [Next]_vars => Inv'
  <2>1. Flags /\ [Next]_vars => Flags'
    BY Zenon
    DEF Next, vars, network, listener, ConnectionLost, Reconnect,
        AnsweredOnPhone, Ends, onMessageActive, onMessageDisconnecting,
        onMessageAdd, onMessageTest, deliverMsg, deliverMsgRemove,
        deliverMsgThrows, updateState, deliverMsgBothRemove, onCreate,
        onServiceConnected, Rings, MSG_IDLE_CALL, MSG_INCOMING_CALL,
        MSG_ACTIVE_CALL, acceptCall, rejectCall, ignore, loseConnection, close,
        processDies
  <2> QED BY <2>1, TypesStep, CallsInvStep
<1>3. Inv => TypeOK
  BY DEF Types, CallsInv, Sound, TypeOK
<1> QED
  BY <1>1, <1>2, <1>3, PTL DEF Spec

-----------------------------------------------------------------------------
(* The listener.  Unless an event has come while setHandler delivered, at  *)
(* most one of the two threads is in deliverMsg, it holds what it removed, *)
(* and the handler it delivers to stays; what is left in the list waits    *)
(* for the service to come up.                                             *)
Holding ==
    \A t \in Threads : pc[t] # "post" => item[t] = <<>>

Delivering ==
    /\ \A t \in Threads : pc[t] \in {"remove", "post"} => handler
    /\ service = "bound" => handler

OneDelivers ==
    /\ pc["main"] = "idle" \/ pc["reader"] = "idle"
    /\ pc["main"] = "idle" /\ pc["reader"] = "idle" /\ jsonList # <<>> =>
          service \in {"starting", "created"}

(* The events the tablet has received and its windows have not seen yet,   *)
(* first the one they will see first.                                      *)
received == mainQueue \o ((item["main"] \o item["reader"]) \o jsonList)

Event(e, state, n) == StateOf(e) = state /\ e.serialno = n

Has(s, state, n) == \E i \in 1..Len(s) : Event(s[i], state, n)

(* Every beginning of n's call in s is followed by its end. *)
BegunEnds(s, n) ==
    \A i \in 1..Len(s) :
        Event(s[i], "INCOMING", n) =>
            \E j \in (i + 1)..Len(s) : Event(s[j], "IDLE", n)

(* A caller whose call is over and whose end was not missed: the end comes *)
(* after every beginning that is under way, and is under way if the tablet *)
(* knows the call.                                                         *)
Over(n) == n \notin missed \cup ongoing

EndComes(n) ==
    /\ Has(phoneTasks, "INCOMING", n) => Has(phoneTasks, "IDLE", n)
    /\ ~ Has(phoneTasks, "IDLE", n) =>
          /\ BegunEnds(received, n)
          /\ n \in mCallMap => Has(received, "IDLE", n)

EndsInv ==
    ~ raced => /\ OneDelivers
               /\ \A n \in Numbers : Over(n) => EndComes(n)
-----------------------------------------------------------------------------
(* Sequences: what is added at the end of the second part of a sequence,   *)
(* and what is taken from the beginning of its first.                      *)
LEMMA ConcatAppend ==
    ASSUME NEW S, NEW a \in Seq(S), NEW b \in Seq(S), NEW e \in S
    PROVE  a \o Append(b, e) = Append(a \o b, e)
<1>1. a \o b \in Seq(S) /\ <<e>> \in Seq(S)
  BY ConcatProperties
<1>2. Append(b, e) = b \o <<e>> /\ Append(a \o b, e) = (a \o b) \o <<e>>
  BY <1>1, AppendIsConcat
<1> QED
  BY <1>1, <1>2, ConcatAssociative

LEMMA HeadConcatTail ==
    ASSUME NEW S, NEW s \in Seq(S), s # <<>>
    PROVE  <<Head(s)>> \o Tail(s) = s /\ <<Head(s)>> \in Seq(S)
<1>1. Len(s) \in Nat \ {0}
  BY EmptySeq
<1>2. SubSeq(s, 1, Len(s)) = <<s[1]>> \o SubSeq(s, 2, Len(s))
  BY <1>1, SubSeqRecursiveFirst
<1>3. s[1] = Head(s) /\ Head(s) \in S
  BY <1>1, HeadTailProperties
<1>4. SubSeq(s, 1, Len(s)) = s /\ Tail(s) = SubSeq(s, 2, Len(s))
  BY <1>1, SubSeqFull, TailIsSubSeq
<1> QED
  BY <1>2, <1>3, <1>4

LEMMA TailConcat ==
    ASSUME NEW S, NEW a \in Seq(S), NEW b \in Seq(S), a # <<>>
    PROVE  /\ a \o b # <<>>
           /\ Head(a \o b) = Head(a)
           /\ Tail(a \o b) = Tail(a) \o b
<1>1. Len(a) \in Nat \ {0} /\ Len(b) \in Nat
  BY EmptySeq, LenProperties
<1>2. /\ a \o b \in Seq(S) /\ Len(a \o b) = Len(a) + Len(b)
      /\ \A i \in 1..Len(a) + Len(b) :
            (a \o b)[i] = IF i <= Len(a) THEN a[i] ELSE b[i - Len(a)]
  BY ConcatProperties
<1>3. a \o b # <<>>
  BY <1>1, <1>2
<1>4. /\ Tail(a) \in Seq(S) /\ Len(Tail(a)) = Len(a) - 1
      /\ \A i \in 1..Len(Tail(a)) : Tail(a)[i] = a[i + 1]
  BY HeadTailProperties
<1>5. /\ Tail(a) \o b \in Seq(S)
      /\ Len(Tail(a) \o b) = Len(a) - 1 + Len(b)
      /\ \A i \in 1..Len(Tail(a)) + Len(b) :
            (Tail(a) \o b)[i] = IF i <= Len(Tail(a)) THEN Tail(a)[i]
                                ELSE b[i - Len(Tail(a))]
  BY <1>4, ConcatProperties
<1>6. /\ Tail(a \o b) \in Seq(S) /\ Len(Tail(a \o b)) = Len(a) + Len(b) - 1
      /\ \A i \in 1..Len(Tail(a \o b)) : Tail(a \o b)[i] = (a \o b)[i + 1]
  BY <1>2, <1>3, HeadTailProperties
<1>7. ASSUME NEW i \in 1..Len(Tail(a \o b))
      PROVE  Tail(a \o b)[i] = (Tail(a) \o b)[i]
  <2>1. i \in Int /\ 1 <= i /\ i <= Len(a) + Len(b) - 1
    BY <1>1, <1>6
  <2>2. Tail(a \o b)[i] = IF i + 1 <= Len(a) THEN a[i + 1]
                          ELSE b[(i + 1) - Len(a)]
    BY <1>1, <1>2, <1>6, <2>1
  <2>3. (Tail(a) \o b)[i] = IF i <= Len(a) - 1 THEN Tail(a)[i]
                            ELSE b[i - (Len(a) - 1)]
    BY <1>1, <1>4, <1>5, <2>1
  <2>4. CASE i <= Len(a) - 1
    BY <1>1, <1>4, <2>1, <2>2, <2>3, <2>4
  <2>5. CASE ~ (i <= Len(a) - 1)
    <3>1. (i + 1) - Len(a) = i - (Len(a) - 1) /\ ~ (i + 1 <= Len(a))
      BY <1>1, <2>1, <2>5
    <3> QED BY <2>2, <2>3, <2>5, <3>1
  <2> QED BY <2>4, <2>5
<1>8. Tail(a \o b) = Tail(a) \o b
  BY <1>1, <1>5, <1>6, <1>7, SeqEqual
<1>9. Head(a \o b) = Head(a)
  BY <1>1, <1>2
<1> QED
  BY <1>3, <1>8, <1>9

-----------------------------------------------------------------------------
(* How a queue comes to have an event, and what becomes of the order of    *)
(* its events.                                                             *)
LEMMA HasAppend ==
    ASSUME NEW s \in Seq(PhoneJson), NEW e \in PhoneJson, NEW state, NEW n
    PROVE  Has(Append(s, e), state, n) <=> Has(s, state, n) \/ Event(e, state, n)
<1> DEFINE t == Append(s, e)
<1>1. /\ Len(s) \in Nat /\ Len(t) = Len(s) + 1
      /\ \A i \in 1..Len(s) : t[i] = s[i]
      /\ t[Len(s) + 1] = e
  BY AppendProperties, LenProperties
<1> HIDE DEF t
<1>2. \A i : i \in 1..Len(t) <=> i \in 1..Len(s) \/ i = Len(s) + 1
  BY <1>1
<1>3. Has(t, state, n) <=> Has(s, state, n) \/ Event(e, state, n)
  BY <1>1, <1>2 DEF Has
<1> QED
  BY <1>3 DEF t

LEMMA HasFront ==
    ASSUME NEW s \in Seq(PhoneJson), s # <<>>, NEW state, NEW n
    PROVE  Has(s, state, n) <=>
               Has(Front(s), state, n) \/ Event(Last(s), state, n)
<1> DEFINE f == Front(s)
           m == Len(s)
<1>1. m \in Nat \ {0} /\ \A i \in 1..m : s[i] \in PhoneJson
  BY EmptySeq, ElementOfSeq
<1>2. /\ Len(f) = m - 1
      /\ \A i \in 1..(m - 1) : f[i] = s[i]
  <2>1. \A i \in 1..(m - 1) : s[i] \in PhoneJson
    BY <1>1
  <2>2. /\ Len(f) = IF 1 <= m - 1 THEN m - 1 - 1 + 1 ELSE 0
        /\ \A i \in 1..(m - 1 - 1 + 1) : f[i] = s[1 + i - 1]
    BY <1>1, <2>1, SubSeqProperties DEF Front
  <2> HIDE DEF f, m
  <2>3. /\ m - 1 - 1 + 1 = m - 1 /\ (~ (1 <= m - 1) => m - 1 = 0)
        /\ \A i \in 1..(m - 1) : 1 + i - 1 = i
    BY <1>1
  <2> QED
    BY <2>2, <2>3
<1> HIDE DEF f, m
<1>3. \A i : i \in 1..m <=> i \in 1..(m - 1) \/ i = m
  BY <1>1
<1>4. Has(s, state, n) <=> Has(f, state, n) \/ Event(s[m], state, n)
  BY <1>2, <1>3 DEF Has, m
<1> QED
  BY <1>4 DEF f, m, Last

LEMMA HasTail ==
    ASSUME NEW s \in Seq(PhoneJson), s # <<>>, NEW state, NEW n
    PROVE  Has(s, state, n) <=>
               Event(Head(s), state, n) \/ Has(Tail(s), state, n)
<1>1. /\ Len(s) \in Nat \ {0} /\ Len(Tail(s)) = Len(s) - 1
      /\ \A i \in 1..Len(Tail(s)) : Tail(s)[i] = s[i + 1]
      /\ Head(s) = s[1]
  BY EmptySeq, HeadTailProperties
<1>2. \A i \in 1..Len(s) : i = 1 \/ (i - 1 \in 1..Len(Tail(s)) /\ (i - 1) + 1 = i)
  BY <1>1
<1>3. 1 \in 1..Len(s) /\ \A i \in 1..Len(Tail(s)) : i + 1 \in 1..Len(s)
  BY <1>1
<1> QED
  BY <1>1, <1>2, <1>3 DEF Has

LEMMA BegunAppend ==
    ASSUME NEW s \in Seq(PhoneJson), NEW e \in PhoneJson, NEW n,
           \/ Event(e, "IDLE", n)
           \/ BegunEnds(s, n) /\ ~ Event(e, "INCOMING", n)
    PROVE  BegunEnds(Append(s, e), n)
<1> DEFINE t == Append(s, e)
<1>1. /\ Len(s) \in Nat /\ Len(t) = Len(s) + 1
      /\ \A i \in 1..Len(s) : t[i] = s[i]
      /\ t[Len(s) + 1] = e
  BY AppendProperties, LenProperties
<1> HIDE DEF t
<1> SUFFICES ASSUME NEW i \in 1..Len(t), Event(t[i], "INCOMING", n)
             PROVE  \E j \in (i + 1)..Len(t) : Event(t[j], "IDLE", n)
  BY DEF BegunEnds, t
<1>2. CASE Event(e, "IDLE", n)
  <2>1. i # Len(s) + 1
    BY <1>1, <1>2 DEF Event
  <2>2. Len(s) + 1 \in (i + 1)..Len(t)
    BY <1>1, <2>1
  <2> QED BY <1>1, <1>2, <2>2
<1>3. CASE BegunEnds(s, n) /\ ~ Event(e, "INCOMING", n)
  <2>1. i \in 1..Len(s)
    BY <1>1, <1>3
  <2>2. PICK j \in (i + 1)..Len(s) : Event(s[j], "IDLE", n)
    BY <1>1, <1>3, <2>1 DEF BegunEnds
  <2>3. j \in 1..Len(s) /\ j \in (i + 1)..Len(t)
    BY <1>1, <2>1, <2>2
  <2> QED BY <1>1, <2>2, <2>3
<1> QED BY <1>2, <1>3

LEMMA BegunTail ==
    ASSUME NEW s \in Seq(PhoneJson), s # <<>>, NEW n, BegunEnds(s, n)
    PROVE  /\ BegunEnds(Tail(s), n)
           /\ Event(Head(s), "INCOMING", n) => Has(Tail(s), "IDLE", n)
<1>1. /\ Len(s) \in Nat \ {0} /\ Len(Tail(s)) = Len(s) - 1
      /\ \A i \in 1..Len(Tail(s)) : Tail(s)[i] = s[i + 1]
      /\ Head(s) = s[1]
  BY EmptySeq, HeadTailProperties
<1>2. ASSUME NEW i \in 1..Len(s), Event(s[i], "INCOMING", n)
      PROVE  \E k \in i..Len(Tail(s)) :
                k \in 1..Len(Tail(s)) /\ Event(Tail(s)[k], "IDLE", n)
  <2>1. PICK j \in (i + 1)..Len(s) : Event(s[j], "IDLE", n)
    BY <1>2 DEF BegunEnds
  <2>2. j - 1 \in i..Len(Tail(s)) /\ j - 1 \in 1..Len(Tail(s)) /\ (j - 1) + 1 = j
    BY <1>1, <2>1
  <2> QED BY <1>1, <2>1, <2>2
<1>3. Event(Head(s), "INCOMING", n) => Has(Tail(s), "IDLE", n)
  <2>1. 1 \in 1..Len(s)
    BY <1>1
  <2> QED BY <1>1, <1>2, <2>1 DEF Has
<1>4. ASSUME NEW i \in 1..Len(Tail(s)), Event(Tail(s)[i], "INCOMING", n)
      PROVE  \E k \in (i + 1)..Len(Tail(s)) : Event(Tail(s)[k], "IDLE", n)
  <2>1. i + 1 \in 1..Len(s) /\ Event(s[i + 1], "INCOMING", n)
    BY <1>1, <1>4
  <2> QED BY <1>2, <2>1
<1> QED
  BY <1>3, <1>4 DEF BegunEnds
-----------------------------------------------------------------------------
(* Once given, the handler stays until the process dies: the windows that  *)
(* are dismissed are of calls, so the call table is not empty.             *)
LEMMA HandlerStays ==
    ASSUME CallsInv, [Next]_vars, handler, ~ processDies
    PROVE  handler'
<1>1. ASSUME NEW n \in Numbers, n \in mFloatViewMap, dismissFloatUI(n)
      PROVE  handler'
  BY <1>1 DEF dismissFloatUI, CallsInv, WindowsAreCalls
<1>2. CASE onServiceConnected
  BY <1>2 DEF onServiceConnected
<1>3. ASSUME NEW n \in Numbers,
             MSG_IDLE_CALL(n) \/ rejectCall(n) \/ ignore(n)
      PROVE  handler'
  BY <1>1, <1>3 DEF MSG_IDLE_CALL, rejectCall, ignore, click
<1>4. CASE UNCHANGED handler
  BY <1>4
<1> QED
  BY <1>2, <1>3, <1>4
  DEF Next, vars, listener, ConnectionLost, Reconnect, AnsweredOnPhone, Ends,
      onMessageActive, onMessageDisconnecting, onMessageAdd, onMessageTest,
      deliverMsg, deliverMsgRemove, deliverMsgThrows, updateState,
      deliverMsgBothRemove, onCreate, Rings, MSG_INCOMING_CALL,
      MSG_ACTIVE_CALL, acceptCall

(* Every step keeps what a thread holds, and the handler it delivers to.   *)
LEMMA HoldingStep ==
    ASSUME Types, CallsInv, Holding, Delivering, [Next]_vars
    PROVE  Holding' /\ Delivering'
<1>1. CASE processDies
  BY <1>1 DEF processDies, Holding, Delivering
<1>2. CASE ~ processDies
  <2>1. handler => handler'
    BY <1>2, HandlerStays
  <2> USE DEF Types, Holding, Delivering
  <2>2. CASE UNCHANGED <<pc, item, service>>
    BY <2>1, <2>2
  <2>3. CASE onMessageAdd
    BY <2>1, <2>3 DEF onMessageAdd, ui, Threads
  <2>4. CASE onMessageTest
    BY <2>1, <2>4 DEF onMessageTest, deliverMsgFrom, Threads
  <2>5. ASSUME NEW t \in Threads, deliverMsgRemove(t)
        PROVE  Holding' /\ Delivering'
    BY <2>1, <2>5 DEF deliverMsgRemove, ui
  <2>6. CASE deliverMsgBothRemove
    BY <2>1, <2>6 DEF deliverMsgBothRemove, ui, Threads
  <2>7. ASSUME NEW t \in Threads, deliverMsgThrows(t)
        PROVE  Holding' /\ Delivering'
    BY <1>2, <2>1, <2>7 DEF deliverMsgThrows
  <2>8. ASSUME NEW t \in Threads, updateState(t)
        PROVE  Holding' /\ Delivering'
    BY <2>1, <2>8 DEF updateState, deliverMsgFrom, ui
  <2>9. CASE onCreate
    BY <2>1, <2>9 DEF onCreate, listener
  <2>10. CASE onServiceConnected
    BY <2>10 DEF onServiceConnected, deliverMsgFrom, MainIsFree, Threads
  <2>11. ASSUME NEW n \in Numbers, MSG_IDLE_CALL(n)
         PROVE  Holding' /\ Delivering'
    BY <2>1, <2>11 DEF MSG_IDLE_CALL
  <2> QED
    BY <1>2, <2>2, <2>3, <2>4, <2>5, <2>6, <2>7, <2>8, <2>9, <2>10, <2>11
    DEF Next, vars, listener, ui, ConnectionLost, Reconnect, AnsweredOnPhone,
        Ends, onMessageActive, onMessageDisconnecting, deliverMsg, Rings,
        MSG_INCOMING_CALL, MSG_ACTIVE_CALL, acceptCall, rejectCall, ignore
<1> QED BY <1>1, <1>2

(* Without a race the two threads are never in deliverMsg together, and    *)
(* nothing stays in the list but what waits for the service.               *)
LEMMA OneDeliversStep ==
    ASSUME Types, CallsInv, Delivering, OneDelivers, [Next]_vars, ~ raced'
    PROVE  OneDelivers'
<1> USE DEF Types, OneDelivers, Threads
<1>1. CASE processDies
  BY <1>1 DEF processDies
<1>2. CASE UNCHANGED <<pc, jsonList, service>>
  BY <1>2
<1>3. CASE onMessageAdd
  BY <1>3 DEF onMessageAdd
<1>4. CASE onMessageTest
  <2>1. pc["main"] = "idle" /\ pc'["main"] = "idle"
    BY <1>4 DEF onMessageTest, deliverMsgFrom
  <2>2. CASE handler
    <3>1. pc'["reader"] = "idle" => jsonList' = <<>>
      BY <1>4, <2>2 DEF onMessageTest, deliverMsgFrom
    <3> QED BY <2>1, <3>1
  <2>3. CASE ~ handler
    BY <1>4, <2>1, <2>3 DEF onMessageTest, Delivering
  <2> QED BY <2>2, <2>3
<1>5. ASSUME NEW t \in Threads, deliverMsgRemove(t) PROVE OneDelivers'
  BY <1>5 DEF deliverMsgRemove, ui
<1>6. CASE deliverMsgBothRemove
  BY <1>6 DEF deliverMsgBothRemove
<1>7. ASSUME NEW t \in Threads, deliverMsgThrows(t) PROVE OneDelivers'
  BY <1>1, <1>7 DEF deliverMsgThrows
<1>8. ASSUME NEW t \in Threads, updateState(t) PROVE OneDelivers'
  BY <1>8 DEF updateState, deliverMsgFrom, ui
<1>9. CASE onCreate
  BY <1>9 DEF onCreate, listener
<1>10. CASE onServiceConnected
  BY <1>10 DEF onServiceConnected, deliverMsgFrom
<1>11. ASSUME NEW n \in Numbers, MSG_IDLE_CALL(n) PROVE OneDelivers'
  <2>1. handler /\ service \notin {"starting", "created"}
    BY <1>11 DEF MSG_IDLE_CALL, handleMessage, CallsInv
  <2> QED
    BY <1>11, <2>1 DEF MSG_IDLE_CALL
<1> QED
  BY <1>1, <1>2, <1>3, <1>4, <1>5, <1>6, <1>7, <1>8, <1>9, <1>10, <1>11
  DEF Next, vars, listener, ui, ConnectionLost, Reconnect, AnsweredOnPhone,
      Ends, onMessageActive, onMessageDisconnecting, deliverMsg, Rings,
      MSG_INCOMING_CALL, MSG_ACTIVE_CALL, acceptCall, rejectCall, ignore
-----------------------------------------------------------------------------
(* What the steps do to received. *)
LEMMA ReceivedIsSeq ==
    ASSUME Types
    PROVE  /\ item["main"] \in Seq(PhoneJson) /\ item["reader"] \in Seq(PhoneJson)
           /\ item["main"] \o item["reader"] \in Seq(PhoneJson)
           /\ (item["main"] \o item["reader"]) \o jsonList \in Seq(PhoneJson)
           /\ received \in Seq(PhoneJson)
BY ConcatProperties DEF Types, Threads, received

LEMMA ReceivedAdds ==
    ASSUME Types, NEW e \in PhoneJson, jsonList' = Append(jsonList, e),
           UNCHANGED <<mainQueue, item>>
    PROVE  received' = Append(received, e)
<1> DEFINE held == item["main"] \o item["reader"]
<1>1. held \in Seq(PhoneJson) /\ held \o jsonList \in Seq(PhoneJson)
  BY ReceivedIsSeq
<1>2. received' = mainQueue \o (held \o Append(jsonList, e))
  BY DEF received
<1> HIDE DEF held
<1>5. mainQueue \in Seq(PhoneJson) /\ jsonList \in Seq(PhoneJson)
  BY DEF Types
<1>3. held \o Append(jsonList, e) = Append(held \o jsonList, e)
  BY <1>1, <1>5, ConcatAppend
<1>4. mainQueue \o Append(held \o jsonList, e)
        = Append(mainQueue \o (held \o jsonList), e)
  BY <1>1, <1>5, ConcatAppend
<1> QED
  BY <1>2, <1>3, <1>4 DEF received, held

LEMMA ReceivedRemoves ==
    ASSUME Types, Holding, OneDelivers, NEW t \in Threads, deliverMsgRemove(t)
    PROVE  received' = received
<1>1. /\ item["main"] = <<>> /\ item["reader"] = <<>>
      /\ jsonList # <<>> /\ jsonList' = Tail(jsonList)
      /\ mainQueue' = mainQueue
  BY DEF Types, Holding, OneDelivers, Threads, deliverMsgRemove
<1>2. item'["main"] \o item'["reader"] = <<Head(jsonList)>>
  <2>1. <<Head(jsonList)>> \in Seq(PhoneJson)
    BY <1>1, QueueParts DEF Types
  <2>2. \/ item'["main"] = <<Head(jsonList)>> /\ item'["reader"] = <<>>
        \/ item'["reader"] = <<Head(jsonList)>> /\ item'["main"] = <<>>
    BY <1>1 DEF Types, Threads, deliverMsgRemove
  <2> QED
    BY <2>1, <2>2, ConcatEmptySeq
<1>3. <<Head(jsonList)>> \o Tail(jsonList) = jsonList
  BY <1>1, HeadConcatTail DEF Types
<1>4. (item["main"] \o item["reader"]) \o jsonList = jsonList
  <2>1. <<>> \in Seq(PhoneJson)
    OBVIOUS
  <2>2. item["main"] \o item["reader"] = <<>>
    BY <1>1, <2>1, ConcatEmptySeq
  <2> QED
    BY <2>2, ConcatEmptySeq DEF Types
<1>5. received' = mainQueue \o ((item'["main"] \o item'["reader"]) \o Tail(jsonList))
  BY <1>1 DEF received
<1> QED
  BY <1>2, <1>3, <1>4, <1>5 DEF received

LEMMA ReceivedPosts ==
    ASSUME Types, Holding, Delivering, OneDelivers,
           NEW t \in Threads, updateState(t)
    PROVE  received' = received
<1>1. /\ handler /\ mainQueue' = mainQueue \o item[t]
      /\ jsonList' = jsonList /\ item' = [item EXCEPT ![t] = <<>>]
  BY DEF updateState, Delivering
<1>2. \A u \in Threads : u # t => item[u] = <<>>
  BY DEF updateState, Types, Holding, OneDelivers, Threads
<1>3. item[t] \in Seq(PhoneJson)
  BY DEF Types
<1>4. item["main"] \o item["reader"] = item[t]
  BY <1>2, <1>3, ConcatEmptySeq DEF Threads
<1>5. item'["main"] = <<>> /\ item'["reader"] = <<>>
  BY <1>1, <1>2 DEF Types, Threads
<1>6. (item'["main"] \o item'["reader"]) \o jsonList = jsonList
  <2>1. <<>> \in Seq(PhoneJson)
    OBVIOUS
  <2>2. item'["main"] \o item'["reader"] = <<>>
    BY <1>5, <2>1, ConcatEmptySeq
  <2> QED
    BY <2>2, ConcatEmptySeq DEF Types
<1>7. (mainQueue \o item[t]) \o jsonList = mainQueue \o (item[t] \o jsonList)
  <2>1. mainQueue \in Seq(PhoneJson) /\ jsonList \in Seq(PhoneJson)
    BY DEF Types
  <2> DEFINE a == mainQueue
             b == item[t]
             c == jsonList
  <2>2. a \in Seq(PhoneJson) /\ b \in Seq(PhoneJson) /\ c \in Seq(PhoneJson)
    BY <1>3, <2>1
  <2> HIDE DEF a, b, c
  <2>3. (a \o b) \o c = a \o (b \o c)
    BY <2>2, ConcatAssociative
  <2> QED BY <2>3 DEF a, b, c
<1>8. received' = (mainQueue \o item[t])
                     \o ((item'["main"] \o item'["reader"]) \o jsonList)
  BY <1>1 DEF received
<1> QED
  BY <1>4, <1>6, <1>7, <1>8 DEF received

LEMMA ReceivedHandled ==
    ASSUME Types, NEW state, NEW k, handleMessage(state, k),
           UNCHANGED <<item, jsonList>>
    PROVE  /\ received # <<>> /\ received' = Tail(received)
           /\ Event(Head(received), state, k)
<1> DEFINE rest == (item["main"] \o item["reader"]) \o jsonList
<1>1. rest \in Seq(PhoneJson)
  BY ReceivedIsSeq
<1>2. /\ mainQueue # <<>> /\ mainQueue' = Tail(mainQueue)
      /\ Event(Head(mainQueue), state, k)
  BY DEF handleMessage, Event
<1>3. received' = Tail(mainQueue) \o rest
  BY <1>2 DEF received
<1> HIDE DEF rest
<1>4. /\ mainQueue \o rest # <<>>
      /\ Head(mainQueue \o rest) = Head(mainQueue)
      /\ Tail(mainQueue \o rest) = Tail(mainQueue) \o rest
  BY <1>1, <1>2, TailConcat DEF Types
<1> QED
  BY <1>2, <1>3, <1>4 DEF received, rest
-----------------------------------------------------------------------------
(* A queue of one event. *)
LEMMA OneEvent ==
    ASSUME NEW e \in PhoneJson, NEW state, NEW n, Event(e, state, n)
    PROVE  n \in InState(state, <<e>>)
<1>1. <<e>> \in Seq(PhoneJson)
  OBVIOUS
<1>2. 1 \in 1..Len(<<e>>) /\ <<e>>[1] = e
  OBVIOUS
<1>3. \E i \in 1..Len(<<e>>) :
         StateOf(<<e>>[i]) = state /\ <<e>>[i].serialno = n
  BY <1>2 DEF Event
<1> QED
  BY <1>1, <1>3, InStateNumbers

(* EndComes, over the values the queues and the call table have.           *)
LEMMA EndComesNext ==
    ASSUME NEW n
    PROVE  EndComes(n)' <=>
              /\ Has(phoneTasks', "INCOMING", n) => Has(phoneTasks', "IDLE", n)
              /\ ~ Has(phoneTasks', "IDLE", n) =>
                    /\ BegunEnds(received', n)
                    /\ n \in mCallMap' => Has(received', "IDLE", n)
BY DEF EndComes, Has, BegunEnds, Event

(* The phone's side: a change of its call state, and a lost connection.    *)
LEMMA EndOfCallIsSent ==
    ASSUME Types, \/ answered
                  \/ \E k \in Numbers : ended(k) \/ Rings(k),
           UNCHANGED <<received, mCallMap>>,
           NEW n \in Numbers, Over(n) => EndComes(n), Over(n)'
    PROVE  EndComes(n)'
<1>1. PICK r, o : Fits(r, o) /\ callsBecome(r, o)
  BY CallsChange
<1>2. /\ ongoing' = o
      /\ missed' = missed \cup ((ongoing \ o) \ InState("IDLE", phoneTasks'))
  BY <1>1 DEF callsBecome
<1>3. phoneTasks \in Seq(PhoneJson) /\ phoneTasks' \in Seq(PhoneJson)
  BY CallStateTypes DEF Types
<1>4. CASE Has(phoneTasks', "IDLE", n)
  BY <1>4, EndComesNext
<1>5. CASE ~ Has(phoneTasks', "IDLE", n)
  <2>1. n \notin InState("IDLE", phoneTasks')
    BY <1>3, <1>5, InStateNumbers DEF Has, Event
  <2>2. n \notin o /\ n \notin missed /\ n \notin ongoing
    BY <1>2, <2>1 DEF Over
  <2>3. EndComes(n)
    BY <2>2 DEF Over
  <2>4. \A st \in {"IDLE", "INCOMING"} :
           Has(phoneTasks', st, n) <=> Has(phoneTasks, st, n)
    <3>1. CASE UNCHANGED phoneTasks
      BY <3>1
    <3>2. ASSUME NEW e \in PhoneJson, phoneTasks' = Append(phoneTasks, e),
                 StateOf(e) = "INCOMING" => e.serialno \in o
          PROVE  \A st \in {"IDLE", "INCOMING"} :
                    Has(phoneTasks', st, n) <=> Has(phoneTasks, st, n)
      <4>1. \A st : Has(phoneTasks', st, n) <=>
                       Has(phoneTasks, st, n) \/ Event(e, st, n)
        BY <1>3, <3>2, HasAppend
      <4>2. ~ Event(e, "INCOMING", n) /\ ~ Event(e, "IDLE", n)
        BY <1>5, <2>2, <3>2, <4>1 DEF Event
      <4> QED BY <4>1, <4>2
    <3> QED
      BY <1>1, <3>1, <3>2, WhatIsSent
  <2> QED
    BY <2>3, <2>4, EndComesNext DEF EndComes
<1> QED BY <1>4, <1>5

LEMMA LostEndIsMissed ==
    ASSUME Types, loseConnection, UNCHANGED <<telephony, received, mCallMap>>,
           NEW n \in Numbers, Over(n) => EndComes(n), Over(n)'
    PROVE  EndComes(n)'
<1>1. Over(n) /\ n \notin InState("IDLE", phoneTasks) /\ phoneTasks' = <<>>
  BY DEF loseConnection, close, telephony, Over
<1>2. ~ Has(phoneTasks, "IDLE", n)
  BY <1>1, InStateNumbers DEF Types, Has, Event
<1>3. \A st : ~ Has(phoneTasks', st, n)
  <2>1. 1..Len(<<>>) = {}
    OBVIOUS
  <2> QED BY <1>1, <2>1 DEF Has
<1> QED
  BY <1>1, <1>2, <1>3, EndComesNext DEF EndComes

(* The tablet's side: an event received, and an event shown. *)
LEMMA EndIsReceived ==
    ASSUME Types, onMessageAdd, pc["main"] = "idle",
           NEW n \in Numbers, Over(n) => EndComes(n), Over(n)'
    PROVE  EndComes(n)'
<1> DEFINE e == Last(phoneTasks)
           f == Front(phoneTasks)
<1>1. /\ phoneTasks # <<>> /\ phoneTasks' = f
      /\ missed' = missed \cup (InState("IDLE", <<e>>) \cap InState("INCOMING", f))
      /\ jsonList' = Append(jsonList, e)
      /\ UNCHANGED <<ongoing, mainQueue, item, mCallMap>>
  BY DEF onMessageAdd, telephony, ui
<1>2. /\ e \in PhoneJson /\ f \in Seq(PhoneJson) /\ <<e>> \in Seq(PhoneJson)
      /\ \A st : Has(phoneTasks, st, n) <=> Has(f, st, n) \/ Event(e, st, n)
  BY <1>1, QueueParts, HasFront DEF Types
<1> HIDE DEF e, f
<1>3. received \in Seq(PhoneJson) /\ received' = Append(received, e)
  BY <1>1, <1>2, ReceivedIsSeq, ReceivedAdds
<1>4. EndComes(n)
  BY <1>1 DEF Over
<1>5. \A st : Has(received', st, n) <=> Has(received, st, n) \/ Event(e, st, n)
  BY <1>2, <1>3, HasAppend
<1>6. ~ (Event(e, "IDLE", n) /\ Has(f, "INCOMING", n))
  <2>1. Event(e, "IDLE", n) => n \in InState("IDLE", <<e>>)
    BY <1>2, OneEvent
  <2>2. Has(f, "INCOMING", n) => n \in InState("INCOMING", f)
    BY <1>2, InStateNumbers DEF Event, Has
  <2> QED BY <1>1, <2>1, <2>2 DEF Over
<1>7. CASE Event(e, "IDLE", n)
  BY <1>1, <1>2, <1>3, <1>5, <1>6, <1>7, BegunAppend, EndComesNext
<1>8. CASE ~ Event(e, "IDLE", n)
  <2>1. Has(f, "IDLE", n) <=> Has(phoneTasks, "IDLE", n)
    BY <1>2, <1>8
  <2>2. Has(f, "INCOMING", n) => Has(f, "IDLE", n)
    BY <1>2, <1>4, <2>1 DEF EndComes
  <2>3. ASSUME ~ Has(f, "IDLE", n)
        PROVE  BegunEnds(received', n)
               /\ (n \in mCallMap' => Has(received', "IDLE", n))
    <3>1. /\ ~ Event(e, "INCOMING", n) /\ BegunEnds(received, n)
          /\ n \in mCallMap => Has(received, "IDLE", n)
      BY <1>2, <1>4, <2>1, <2>3 DEF EndComes
    <3> QED
      BY <1>1, <1>2, <1>3, <1>5, <3>1, BegunAppend
  <2> QED
    BY <1>1, <2>2, <2>3, EndComesNext
<1> QED BY <1>7, <1>8

LEMMA EndIsShown ==
    ASSUME Types, NEW state, NEW k, handleMessage(state, k),
           UNCHANGED <<telephony, network, item, jsonList>>,
           NEW n \in Numbers, Over(n) => EndComes(n), Over(n)',
           n \in mCallMap' =>
              \/ n \in mCallMap /\ ~ (state = "IDLE" /\ k = n)
              \/ state = "INCOMING" /\ k = n
    PROVE  EndComes(n)'
<1>1. /\ received \in Seq(PhoneJson) /\ received # <<>>
      /\ received' = Tail(received) /\ Event(Head(received), state, k)
  BY ReceivedIsSeq, ReceivedHandled
<1>2. EndComes(n) /\ phoneTasks' = phoneTasks
  BY DEF Over, telephony, network
<1>3. Has(received, "IDLE", n) <=>
         Event(Head(received), "IDLE", n) \/ Has(Tail(received), "IDLE", n)
  BY <1>1, HasTail
<1>4. Event(Head(received), "IDLE", n) <=> state = "IDLE" /\ k = n
  BY <1>1 DEF Event
<1>5. ASSUME ~ Has(phoneTasks, "IDLE", n)
      PROVE  /\ BegunEnds(Tail(received), n)
             /\ n \in mCallMap' => Has(Tail(received), "IDLE", n)
  <2>1. BegunEnds(received, n) /\ (n \in mCallMap => Has(received, "IDLE", n))
    BY <1>2, <1>5 DEF EndComes
  <2>2. /\ BegunEnds(Tail(received), n)
        /\ Event(Head(received), "INCOMING", n) => Has(Tail(received), "IDLE", n)
    BY <1>1, <2>1, BegunTail
  <2>3. state = "INCOMING" /\ k = n => Event(Head(received), "INCOMING", n)
    BY <1>1
  <2> QED
    BY <1>3, <1>4, <2>1, <2>2, <2>3
<1> QED
  BY <1>1, <1>2, <1>5, EndComesNext DEF EndComes

(* Every step keeps, for each caller, the end of a call that is over.      *)
LEMMA EndComesStep ==
    ASSUME Types, CallsInv, Holding, Delivering, [Next]_vars,
           OneDelivers, ~ raced', ~ processDies,
           NEW n \in Numbers, Over(n) => EndComes(n), Over(n)'
    PROVE  EndComes(n)'
<1>1. ASSUME UNCHANGED <<ongoing, missed, phoneTasks, received>>,
             mCallMap' \subseteq mCallMap
      PROVE  EndComes(n)'
  BY <1>1, EndComesNext DEF Over, EndComes
<1>2. ASSUME UNCHANGED <<mainQueue, listener>> PROVE received' = received
  BY <1>2 DEF listener, received
<1>3. CASE ConnectionLost
  BY <1>2, <1>3, LostEndIsMissed DEF ConnectionLost, ui
<1>4. CASE Reconnect \/ UNCHANGED vars
  BY <1>1, <1>2, <1>4 DEF Reconnect, vars, telephony, network, ui
<1>5. CASE AnsweredOnPhone \/ \E k \in Numbers : Ends(k)
  BY <1>2, <1>5, EndOfCallIsSent DEF AnsweredOnPhone, Ends, ui
<1>6. ASSUME NEW k \in Numbers, Rings(k) PROVE EndComes(n)'
  BY <1>2, <1>6, EndOfCallIsSent DEF Rings, ui
<1>7. CASE onMessageActive
  <2>1. received' = received /\ mCallMap' = mCallMap
    BY <1>2, <1>7 DEF onMessageActive, ui
  <2>2. CASE loseConnection /\ UNCHANGED telephony
    BY <2>1, <2>2, LostEndIsMissed
  <2>3. CASE answered
    BY <2>1, <2>3, EndOfCallIsSent
  <2> QED
    BY <1>7, <2>2, <2>3 DEF onMessageActive
<1>8. CASE onMessageDisconnecting
  <2>1. received' = received /\ mCallMap' = mCallMap
    BY <1>2, <1>8 DEF onMessageDisconnecting, ui
  <2>2. CASE \E k \in Numbers : ended(k)
    BY <2>1, <2>2, EndOfCallIsSent
  <2>3. CASE UNCHANGED <<ringing, ongoing, phoneTasks, missed>>
    BY <1>1, <2>1, <2>3
  <2> QED
    BY <1>8, <2>2, <2>3 DEF onMessageDisconnecting, ended, Types
<1>9. CASE onMessageAdd
  <2>1. pc["main"] = "idle"
    BY <1>9 DEF onMessageAdd
  <2> QED
    BY <1>9, <2>1, EndIsReceived
<1>10. CASE onMessageTest \/ onServiceConnected
  <2>1. UNCHANGED <<ongoing, missed, phoneTasks, received, mCallMap>>
    BY <1>10 DEF onMessageTest, onServiceConnected, telephony, network, received
  <2> QED BY <1>1, <2>1
<1>11. ASSUME NEW t \in Threads, deliverMsgRemove(t) \/ updateState(t)
       PROVE  EndComes(n)'
  <2>1. received' = received
    BY <1>11, ReceivedRemoves, ReceivedPosts
  <2> QED
    BY <1>1, <1>11, <2>1
    DEF deliverMsgRemove, updateState, telephony, network, ui
<1>12. CASE deliverMsgBothRemove
  BY <1>12 DEF deliverMsgBothRemove, OneDelivers, Threads
<1>13. ASSUME NEW t \in Threads, deliverMsgThrows(t) PROVE EndComes(n)'
  <2>1. /\ loseConnection
        /\ UNCHANGED <<jsonList, item, mainQueue, mCallMap, telephony>>
    BY <1>13 DEF deliverMsgThrows
  <2>2. received' = received
    BY <2>1 DEF received
  <2> QED BY <2>1, <2>2, LostEndIsMissed
<1>14. CASE onCreate
  BY <1>1, <1>2, <1>14 DEF onCreate, telephony, network
<1>15. ASSUME NEW k \in Numbers, MSG_IDLE_CALL(k) PROVE EndComes(n)'
  BY <1>15, EndIsShown DEF MSG_IDLE_CALL
<1>16. ASSUME NEW k \in Numbers, MSG_INCOMING_CALL(k) PROVE EndComes(n)'
  BY <1>16, EndIsShown DEF MSG_INCOMING_CALL, listener
<1>17. ASSUME NEW k \in Numbers, MSG_ACTIVE_CALL(k) PROVE EndComes(n)'
  BY <1>17, EndIsShown DEF MSG_ACTIVE_CALL, listener, ui
<1>18. ASSUME NEW k \in Numbers, acceptCall(k) \/ rejectCall(k) \/ ignore(k)
       PROVE  EndComes(n)'
  <2>1. UNCHANGED <<ongoing, missed, phoneTasks, mCallMap>>
    BY <1>18 DEF acceptCall, rejectCall, ignore, telephony, network
  <2>2. UNCHANGED <<mainQueue, item, jsonList>>
    BY <1>18 DEF acceptCall, rejectCall, ignore, listener
  <2>3. received' = received
    BY <2>2 DEF received
  <2> QED BY <1>1, <2>1, <2>3
<1> QED
  BY <1>3, <1>4, <1>5, <1>6, <1>7, <1>8, <1>9, <1>10, <1>11, <1>12, <1>13,
     <1>14, <1>15, <1>16, <1>17, <1>18
  DEF Next, deliverMsg
(* Every step keeps EndsInv; the end of the process forgets everything.    *)
LEMMA EndsStep ==
    ASSUME Types, CallsInv, Holding, Delivering, EndsInv, [Next]_vars, ~ raced'
    PROVE  OneDelivers' /\ \A n \in Numbers : Over(n)' => EndComes(n)'
<1>1. CASE processDies
  <2>1. OneDelivers'
    BY <1>1 DEF processDies, OneDelivers, Threads
  <2>2. phoneTasks' = <<>> /\ received' = <<>> /\ mCallMap' = {}
    BY <1>1, ConcatEmptySeq DEF processDies, close, received, Threads
  <2>3. ASSUME NEW n \in Numbers PROVE EndComes(n)'
    <3>1. 1..Len(<<>>) = {}
      OBVIOUS
    <3>2. /\ ~ Has(phoneTasks', "INCOMING", n) /\ BegunEnds(received', n)
          /\ n \notin mCallMap'
      BY <2>2, <3>1 DEF Has, BegunEnds
    <3> QED
      BY <3>2, EndComesNext
  <2> QED BY <2>1, <2>3
<1>2. CASE ~ processDies
  <2>1. ~ raced
    BY <1>2
    DEF Next, vars, listener, ConnectionLost, Reconnect, AnsweredOnPhone, Ends,
        onMessageActive, onMessageDisconnecting, onMessageAdd, onMessageTest,
        deliverMsg, deliverMsgRemove, deliverMsgThrows, updateState,
        deliverMsgBothRemove, onCreate, onServiceConnected, Rings,
        MSG_IDLE_CALL, MSG_INCOMING_CALL, MSG_ACTIVE_CALL, acceptCall,
        rejectCall, ignore
  <2>2. OneDelivers /\ \A n \in Numbers : Over(n) => EndComes(n)
    BY <2>1 DEF EndsInv
  <2> QED
    BY <1>2, <2>2, OneDeliversStep, EndComesStep
<1> QED BY <1>1, <1>2

(* When nothing is under way the tablet has seen the end of every call     *)
(* that is over, except those whose end no IDLE named and those of which   *)
(* the connection or the phone's last-in first-out sender took the end:    *)
(* for any number of callers, of calls at a time, and of pending events.   *)
THEOREM EndedAreForgotten == Spec => []EndedCallsAreForgotten
<1> DEFINE Inv == Types /\ CallsInv /\ Holding /\ Delivering /\ EndsInv
<1>1. Init => Inv
  <2> SUFFICES ASSUME Init PROVE Inv
    OBVIOUS
  <2>1. Types /\ Holding /\ Delivering /\ OneDelivers
    BY BoundsAssumption
    DEF Init, Types, Holding, Delivering, OneDelivers, Threads
  <2>2. received = <<>> /\ phoneTasks = <<>> /\ mCallMap = {}
    BY ConcatEmptySeq DEF Init, received, Threads
  <2>3. 1..Len(<<>>) = {}
    OBVIOUS
  <2>4. \A n \in Numbers : EndComes(n)
    BY <2>2, <2>3 DEF EndComes, Has, BegunEnds
  <2> QED BY <2>1, <2>4, CallsInvInit DEF EndsInv
<1>2. Inv /\ [Next]_vars => Inv'
  <2> SUFFICES ASSUME Inv, [Next]_vars PROVE Inv'
    OBVIOUS
  <2>1. Types' /\ CallsInv' /\ Holding' /\ Delivering'
    BY TypesStep, CallsInvStep, HoldingStep
  <2>2. EndsInv'
    <3>1. CASE raced'
      BY <3>1 DEF EndsInv
    <3>2. CASE ~ raced'
      BY <3>2, EndsStep DEF EndsInv
    <3> QED BY <3>1, <3>2
  <2> QED BY <2>1, <2>2
<1>3. Inv => EndedCallsAreForgotten
  <2> SUFFICES ASSUME Inv, Quiet, ~ raced
               PROVE  jsonList = <<>> /\ mCallMap \subseteq missed
    BY DEF EndedCallsAreForgotten
  <2>1. OneDelivers /\ \A n \in Numbers : Over(n) => EndComes(n)
    BY DEF EndsInv
  <2>2. /\ ongoing = {} /\ phoneTasks = <<>> /\ mainQueue = <<>>
        /\ pc["main"] = "idle" /\ pc["reader"] = "idle"
        /\ service \notin {"starting", "created"}
    BY DEF Quiet, Threads
  <2>3. jsonList = <<>>
    BY <2>1, <2>2 DEF OneDelivers
  <2>4. item["main"] = <<>> /\ item["reader"] = <<>>
    BY <2>2 DEF Holding, Threads
  <2>5. received = <<>>
    BY <2>2, <2>3, <2>4, ConcatEmptySeq DEF received
  <2>6. 1..Len(<<>>) = {}
    OBVIOUS
  <2>7. ASSUME NEW n \in mCallMap, n \notin missed PROVE FALSE
    <3>1. n \in Numbers /\ Over(n)
      BY <2>2, <2>7 DEF Types, Over
    <3>2. EndComes(n)
      BY <2>1, <3>1
    <3> QED
      BY <2>2, <2>5, <2>6, <2>7, <3>2 DEF EndComes, Has
  <2> QED BY <2>3, <2>7
<1> QED
  BY <1>1, <1>2, <1>3, PTL DEF Spec
=============================================================================
