---------------------------- MODULE VoiceEngine ----------------------------
(***************************************************************************)
(* What an AudioManager does to the voice engine: the calls of its         *)
(* startVoiceEngine() and stopVoiceEngine(), through the JNI functions     *)
(* VoE_*, to VoEBaseImpl.  They are made one after the other on the main   *)
(* thread, so each is a function from engine to engine.  How the engine's  *)
(* own threads follow is module VoiceThreads.                              *)
(***************************************************************************)
EXTENDS Integers

None == -1

(* What may fail in a start: VoiceEngine::Create, the device in Init(),    *)
(* Channel::Init(), the start of playout or of recording; one at a time.   *)
Steps == {"create", "init", "channel", "playout", "recording"}
Outcomes == {[s \in Steps |-> s # f] : f \in Steps \cup {"none"}}

(* The engine, with the AudioManager's voiceChannel, which is 4 at first.  *)
NoEngine ==
    [created |-> FALSE, processThread |-> FALSE, initialized |-> FALSE,
     channels |-> {}, last |-> -1, receiving |-> {}, playing |-> {},
     sending |-> {}, transport |-> None, devicePlaying |-> FALSE,
     deviceRecording |-> FALSE, voiceChannel |-> 4]

Engines ==
    [created : BOOLEAN, processThread : BOOLEAN, initialized : BOOLEAN,
     channels : SUBSET Nat, last : Nat \cup {-1}, receiving : SUBSET Nat,
     playing : SUBSET Nat, sending : SUBSET Nat, transport : Nat \cup {None},
     devicePlaying : BOOLEAN, deviceRecording : BOOLEAN,
     voiceChannel : Nat \cup {None}]

(* The call is not refused: there is a base pointer, the engine is         *)
(* initialized and has the channel.                                        *)
Located(e, c) == e.created /\ e.initialized /\ c \in e.channels

-----------------------------------------------------------------------------
(* setupVoE: an engine is created once and kept.  An Init() that failed    *)
(* has left its thread running, and the next one fails for that.           *)
VoE_Create(e, ok) == [e EXCEPT !.created = @ \/ ok]

VoE_Init(e, ok) ==
    IF ~ e.created \/ e.initialized \/ e.processThread THEN e
    ELSE [e EXCEPT !.processThread = TRUE, !.initialized = ok]

(* prepareAudio ignores what setupVoE returns. *)
prepareAudio(e, ok) == VoE_Init(VoE_Create(e, ok.create), ok.init)

-----------------------------------------------------------------------------
(* startVoiceEngine *)

(* CreateChannel gives no channel, and the assert of VoiceChannelTransport *)
(* (its file undefines NDEBUG) ends the process.                           *)
Aborts(e, ok) == e.created /\ ~ (e.initialized /\ ok.channel)

(* The transport of an earlier channel goes; the channel itself stays.     *)
VoE_CreateChannel(e) ==
    [e EXCEPT !.last = @ + 1, !.channels = @ \cup {e.last + 1},
              !.voiceChannel = e.last + 1, !.transport = e.last + 1]

VoE_StartListen(e, c) ==
    IF Located(e, c) THEN [e EXCEPT !.receiving = @ \cup {c}] ELSE e

VoE_StartPlayout(e, c, ok) ==
    IF Located(e, c) /\ (e.devicePlaying \/ ok)
    THEN [e EXCEPT !.playing = @ \cup {c}, !.devicePlaying = TRUE]
    ELSE e

VoE_StartSend(e, c, ok) ==
    IF Located(e, c) /\ (e.deviceRecording \/ ok)
    THEN [e EXCEPT !.sending = @ \cup {c}, !.deviceRecording = TRUE]
    ELSE e

(* Without an engine CreateChannel returns -1 and nothing is started.      *)
startVoiceEngine(e, ok) ==
    IF ~ e.created THEN [e EXCEPT !.voiceChannel = None]
    ELSE LET c == e.last + 1
             listening == VoE_StartListen(VoE_CreateChannel(e), c)
             playing == VoE_StartPlayout(listening, c, ok.playout)
         IN  VoE_StartSend(playing, c, ok.recording)

-----------------------------------------------------------------------------
(* stopVoiceEngine *)

(* The device stops when its last channel does. *)
VoE_StopSend(e, c) ==
    IF ~ Located(e, c) THEN e
    ELSE [e EXCEPT !.sending = @ \ {c},
                   !.deviceRecording = @ /\ e.sending \ {c} # {}]

VoE_StopPlayout(e, c) ==
    IF ~ Located(e, c) THEN e
    ELSE [e EXCEPT !.playing = @ \ {c},
                   !.devicePlaying = @ /\ e.playing \ {c} # {}]

(* The JNI function calls StartReceive. *)
VoE_StopListen(e, c) == VoE_StartListen(e, c)

VoE_DeleteChannel(e, c) ==
    LET e1 == IF e.created THEN [e EXCEPT !.transport = None] ELSE e
    IN  IF ~ Located(e1, c) THEN e1
        ELSE [VoE_StopPlayout(VoE_StopSend(e1, c), c) EXCEPT
                 !.channels = @ \ {c}, !.receiving = @ \ {c}]

(* Slip: the channels are destroyed and the device is left to them. *)
VoE_Terminate_LeavesDevice(e) ==
    IF ~ e.created THEN e
    ELSE [e EXCEPT !.channels = {}, !.receiving = {}, !.playing = {},
                   !.sending = {}, !.processThread = FALSE,
                   !.initialized = FALSE]

VoE_Terminate(e) ==
    IF ~ e.created THEN e
    ELSE [e EXCEPT !.channels = {}, !.receiving = {}, !.playing = {},
                   !.sending = {}, !.devicePlaying = FALSE,
                   !.deviceRecording = FALSE, !.processThread = FALSE,
                   !.initialized = FALSE]

stopVoiceEngine(e) ==
    LET c == e.voiceChannel
        stopped == VoE_StopPlayout(VoE_StopListen(VoE_StopSend(e, c), c), c)
        deleted == [VoE_DeleteChannel(stopped, c) EXCEPT !.voiceChannel = None]
    IN  VoE_Terminate(deleted)

-----------------------------------------------------------------------------
Sounds(e) ==
    \/ e.devicePlaying \/ e.deviceRecording
    \/ e.playing # {} \/ e.sending # {} \/ e.receiving # {}
=============================================================================
