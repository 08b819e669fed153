---------------------------- MODULE VoiceThreads ----------------------------
(***************************************************************************)
(* The voice engine's threads together: the application's thread calls     *)
(* VoEBaseImpl (Init, CreateChannel, DeleteChannel, Terminate, one at a    *)
(* time under the engine's crit_sec()), the audio device's thread visits   *)
(* the channels with a ChannelManager::Iterator, and the module thread     *)
(* calls the modules.  A channel is deleted by whoever lets go of it last, *)
(* on that thread.                                                         *)
(*                                                                         *)
(* The two components are ProcessThread and ChannelManager: every step     *)
(* here is a step of the one, of the other, of both (~Channel), or of      *)
(* neither.                                                                *)
(***************************************************************************)
EXTENDS ProcessThread, ChannelManager

VARIABLES
    call,           \* where the application's thread is in VoEBaseImpl
    audio,          \* the audio thread: "idle" or in its callback, "iterate"
    audioDevice,    \* _audioDevicePtr: the ADM's number, 0 for NULL
    initialized     \* statistics().Initialized()

own == <<call, audio, audioDevice, initialized>>
vtVars == <<ptVars, cmVars, own>>

(* The modules: the RTP module of a channel, and the audio device module   *)
(* that the k-th Init() has created.                                       *)
Rtp(c) == <<"rtp", c>>
Adm(k) == <<"adm", k>>
VoiceModules == {Rtp(c) : c \in Channels} \cup {Adm(k) : k \in Threads}

(* Who may own a channel: the ChannelOwner of a call, `reference` in       *)
(* DestroyChannel, and the audio thread's Iterator.                        *)
VoiceHolders == {"owner", "reference", "iterator"}
Application == {"owner", "reference"}

ASSUME VoiceAssumption == Modules = VoiceModules /\ Holders = VoiceHolders

LetGo(H) == \A h \in H : held[h] = {} /\ deleting[h] = {}

VTInit ==
    /\ PTInit
    /\ CMInit
    /\ call = "none"
    /\ audio = "idle"
    /\ audioDevice = 0
    /\ initialized = FALSE

at(from, to) ==
    /\ call = from
    /\ call' = to
    /\ UNCHANGED audio

-----------------------------------------------------------------------------
(* VoEBaseImpl::Init: a thread that an Init() before has left running      *)
(* makes Start() fail, and nothing changes.                                *)
InitStart ==
    /\ at("none", "start")
    /\ ~ initialized
    /\ Start
    /\ UNCHANGED <<cmVars, audioDevice, initialized>>

(* The ADM cannot be created. *)
InitNoAdm ==
    /\ at("start", "none")
    /\ api = "idle"
    /\ UNCHANGED <<ptVars, cmVars, audioDevice, initialized>>

InitRegister ==
    /\ at("start", "adm")
    /\ api = "idle"
    /\ RegisterModule(Adm(created))
    /\ audioDevice' = created
    /\ UNCHANGED <<cmVars, initialized>>

(* The device may fail, which leaves thread and ADM as they are.           *)
InitReturn ==
    /\ at("adm", "none")
    /\ initialized' \in BOOLEAN
    /\ UNCHANGED <<ptVars, cmVars, audioDevice>>

-----------------------------------------------------------------------------
(* VoEBaseImpl::CreateChannel, InitializeChannel and DeleteChannel         *)
VoECreateChannel ==
    /\ at("none", "initialize")
    /\ initialized
    /\ CreateChannel("owner")
    /\ UNCHANGED <<ptVars, audioDevice, initialized>>

ChannelInit ==
    /\ at("initialize", "initialized")
    /\ RegisterModule(Rtp(last_channel_id))
    /\ UNCHANGED <<cmVars, audioDevice, initialized>>

ChannelInitFails ==
    /\ at("initialized", "return")
    /\ DestroyChannels("reference", {last_channel_id})
    /\ UNCHANGED <<ptVars, audioDevice, initialized>>

ChannelInitSucceeds ==
    /\ at("initialized", "return")
    /\ UNCHANGED <<ptVars, cmVars, audioDevice, initialized>>

(* The owner by which DeleteChannel first finds the channel goes while the *)
(* manager still has its own, so that it makes no difference.              *)
VoEDeleteChannel(c) ==
    /\ at("none", "return")
    /\ initialized
    /\ DestroyChannels("reference", {c})
    /\ UNCHANGED <<ptVars, audioDevice, initialized>>

CallReturns ==
    /\ at("return", "none")
    /\ LetGo(Application)
    /\ UNCHANGED <<ptVars, cmVars, audioDevice, initialized>>

-----------------------------------------------------------------------------
(* ~ChannelOwner and ~Channel, on the application's or the audio thread.   *)
(* A call keeps its owner until it has finished with the channel; the      *)
(* Iterator keeps the channels it has passed as well.                      *)
OwnerDrop(h, c) ==
    /\ call \in {"return", "destroy"} \/ h = "iterator"
    /\ Drop(h, c)
    /\ UNCHANGED <<ptVars, own>>

ChannelDtor(h, c) ==
    /\ Delete(h, c)
    /\ DeRegisterModule(Rtp(c))
    /\ UNCHANGED own

-----------------------------------------------------------------------------
(* VoEBaseImpl::Terminate and TerminateInternal                            *)
Terminate ==
    /\ at("none", "destroy")
    /\ DestroyChannels("reference", channels)
    /\ UNCHANGED <<ptVars, audioDevice, initialized>>

TerminateDeRegister ==
    /\ at("destroy", "stop")
    /\ LetGo(Application)
    /\ \/ audioDevice # 0 /\ DeRegisterModule(Adm(audioDevice))
       \/ audioDevice = 0 /\ UNCHANGED ptVars
    /\ UNCHANGED <<cmVars, audioDevice, initialized>>

TerminateStop ==
    /\ at("stop", "stopped")
    /\ Stop \/ (thread = 0 /\ UNCHANGED ptVars)
    /\ UNCHANGED <<cmVars, audioDevice, initialized>>

(* Slip: the callback may still be under way. *)
TerminateAdm_NoWait ==
    /\ at("stopped", "none")
    /\ api = "idle"
    /\ audioDevice' = 0
    /\ initialized' = FALSE
    /\ UNCHANGED <<ptVars, cmVars>>

(* RegisterAudioCallback(NULL) needs the lock that AudioDeviceBuffer holds *)
(* during a callback.                                                      *)
TerminateAdm ==
    /\ at("stopped", "none")
    /\ api = "idle"
    /\ audio = "idle"
    /\ audioDevice' = 0
    /\ initialized' = FALSE
    /\ UNCHANGED <<ptVars, cmVars>>

-----------------------------------------------------------------------------
(* The audio thread: TransmitMixer::DemuxAndMix and EncodeAndSend          *)
AudioCallback ==
    /\ audio = "idle"
    /\ audioDevice # 0
    /\ audio' = "iterate"
    /\ GetChannels("iterator", channels)
    /\ UNCHANGED <<ptVars, call, audioDevice, initialized>>

AudioReturn ==
    /\ audio = "iterate"
    /\ LetGo({"iterator"})
    /\ audio' = "idle"
    /\ UNCHANGED <<ptVars, cmVars, call, audioDevice, initialized>>

-----------------------------------------------------------------------------
ThreadStep == (StartGoesOn \/ StopGoesOn) /\ UNCHANGED <<cmVars, own>>
RunStep(t) == Run(t) /\ UNCHANGED <<cmVars, own>>

CallBegins ==
    \/ InitStart \/ VoECreateChannel \/ Terminate
    \/ \E c \in Channels : VoEDeleteChannel(c)

CallGoesOn ==
    \/ InitNoAdm \/ InitRegister \/ InitReturn
    \/ ChannelInit \/ ChannelInitFails \/ ChannelInitSucceeds
    \/ CallReturns
    \/ TerminateDeRegister \/ TerminateStop \/ TerminateAdm
    \/ ThreadStep

LetsGo(h) == \E c \in Channels : OwnerDrop(h, c) \/ ChannelDtor(h, c)

VTNext ==
    \/ CallBegins \/ CallGoesOn
    \/ AudioCallback \/ AudioReturn
    \/ \E h \in Holders : LetsGo(h)
    \/ \E t \in Threads : RunStep(t)

(* Every thread goes on.  A lock that is free again and again is taken at  *)
(* last by a thread that waits for it.                                     *)
VTFairness ==
    /\ SF_vtVars(CallGoesOn)
    /\ SF_vtVars(\E h \in Application : LetsGo(h))
    /\ SF_vtVars(LetsGo("iterator"))
    /\ WF_vtVars(AudioReturn)
    /\ \A t \in Threads : SF_vtVars(RunStep(t))

VTSpec == VTInit /\ [][VTNext]_vtVars /\ VTFairness

-----------------------------------------------------------------------------
(* The type of the state. *)
VTTypeOK ==
    /\ PTTypeOK
    /\ CMTypeOK
    /\ call \in {"none", "start", "adm", "initialize", "initialized", "return",
                 "destroy", "stop", "stopped"}
    /\ audio \in {"idle", "iterate"}
    /\ audioDevice \in 0..created
    /\ initialized \in BOOLEAN

(* When Terminate() returns, whatever callback it met, every channel is    *)
(* deleted, no module is registered and no module thread is in use.  If    *)
(* its Stop() gave up after ten seconds, the thread it left behind may     *)
(* still run; that thread has no module left to call.                      *)
TerminatedIsClean ==
    [][call = "stopped" /\ call' = "none" =>
          /\ deletedChannels' = 0..last_channel_id'
          /\ modules' = {} /\ visiting' = {}
          /\ thread' = 0
          /\ \A t \in Threads : run'[t] \in Over \/ t \notin deletedThreads'
      ]_vtVars

(* Every call of the API returns, however the module thread and the audio  *)
(* thread are timed.                                                       *)
EveryVoECallReturns == call # "none" ~> call = "none"

(* A module thread that has begun when Stop() takes its alive_ comes to    *)
(* its end, even if Stop() gives up waiting for it and a new thread is     *)
(* started, whose _thread makes the old one's own test pass.               *)
StopEndsModuleThread ==
    \A t \in Threads :
        stopping = t /\ ~ alive[t] /\ run[t] # "begin" ~> run[t] \in Over
=============================================================================
