------------------------- MODULE VoiceThreads_proofs -------------------------
(***************************************************************************)
(* Proofs about ProcessThread, ChannelManager and their composition        *)
(* VoiceThreads, for any number of threads and channels.                   *)
(***************************************************************************)
EXTENDS VoiceThreads, TLAPS, FiniteSetTheorems

(* dead_ may be true of a running thread only between pthread_create and   *)
(* the line of Start() that takes it back, and no Stop() comes between.    *)
ThreadInv ==
    /\ PTTypeOK
    /\ api \in {"created", "wait"} => thread # 0
    /\ api \in {"stop", "poll"} => stopping # 0
    /\ \A t \in Threads : t > created => run[t] = "none"
    /\ \A t \in Threads :
          dead[t] => run[t] \in Over \/ (api = "created" /\ t = thread)
    /\ deletedThreads \subseteq 1..created
    /\ DeletedThreadIsOver

LEMMA ThreadInvInit == PTInit => ThreadInv
BY MaxThreadsAssumption
   DEF PTInit, ThreadInv, PTTypeOK, DeletedThreadIsOver, Over, Threads

LEMMA ThreadInvStep == ThreadInv /\ [PTNext]_ptVars => ThreadInv'
<1> SUFFICES ASSUME ThreadInv, [PTNext]_ptVars PROVE ThreadInv'
  OBVIOUS
<1> USE MaxThreadsAssumption
    DEF ThreadInv, PTTypeOK, DeletedThreadIsOver, Over, Threads
<1>1. CASE Start
  BY <1>1 DEF Start
<1>2. CASE StartNotDead
  BY <1>2 DEF StartNotDead
<1>3. CASE StartReturn
  BY <1>3 DEF StartReturn
<1>4. CASE Stop
  BY <1>4 DEF Stop
<1>5. CASE StopNotAlive
  BY <1>5 DEF StopNotAlive
<1>6. CASE StopReturn
  <2>1. CASE dead[stopping] /\ deletedThreads' = deletedThreads \cup {stopping}
    <3>1. stopping \in 1..created /\ stopping \in Threads /\ run[stopping] \in Over
      BY <1>6, <2>1 DEF StopReturn
    <3> QED
      BY <1>6, <2>1, <3>1 DEF StopReturn
  <2>2. CASE UNCHANGED deletedThreads
    BY <1>6, <2>2 DEF StopReturn
  <2> QED
    BY <1>6, <2>1, <2>2 DEF StopReturn
<1>7. ASSUME NEW m \in Modules, RegisterModule(m) \/ DeRegisterModule(m)
      PROVE  ThreadInv'
  BY <1>7 DEF RegisterModule, DeRegisterModule, threads
<1>8. ASSUME NEW t \in Threads, RunBegin(t) PROVE ThreadInv'
  BY <1>8 DEF RunBegin, goto
<1>9. ASSUME NEW t \in Threads, Process(t) PROVE ThreadInv'
  <2>1. CASE ProcessDue(t) \/ ProcessNotDue(t) \/ ProcessWait(t)
    BY <2>1 DEF ProcessDue, ProcessNotDue, ProcessWait, goto, threads
  <2>2. CASE ProcessCheck(t)
    BY <2>2 DEF ProcessCheck, goto
  <2>3. CASE ProcessLock(t) \/ ProcessUnlock(t)
    BY <2>3 DEF ProcessLock, ProcessUnlock, goto, threads
  <2>4. ASSUME NEW m \in Modules, ProcessVisit(t, m) PROVE ThreadInv'
    BY <2>4 DEF ProcessVisit, threads
  <2> QED
    BY <1>9, <2>1, <2>2, <2>3, <2>4 DEF Process
<1>10. ASSUME NEW t \in Threads, RunLoop(t) PROVE ThreadInv'
  BY <1>10 DEF RunLoop, goto, threads
<1>11. ASSUME NEW t \in Threads, RunDead(t) PROVE ThreadInv'
  BY <1>11 DEF RunDead, goto
<1>12. CASE UNCHANGED ptVars
  BY <1>12 DEF ptVars, threads
<1> QED
  BY <1>1, <1>2, <1>3, <1>4, <1>5, <1>6, <1>7, <1>8, <1>9, <1>10, <1>11, <1>12
     DEF PTNext, StartGoesOn, StopGoesOn, Run

(* Stop() never deletes a thread object that is still running, however     *)
(* often the engine is started and stopped and however long Stop() waits.  *)
THEOREM DeletedThreadsAreOver == PTSpec => []DeletedThreadIsOver
<1>1. ThreadInv => DeletedThreadIsOver
  BY DEF ThreadInv
<1> QED
  BY <1>1, ThreadInvInit, ThreadInvStep, PTL DEF PTSpec

-----------------------------------------------------------------------------
(* Who has the lock: Start() while it waits, or the one thread that visits *)
(* the modules; only in the second case are there modules to be visited.   *)
LockInv ==
    /\ critSectModules \in {"free", "start", "process"}
    /\ run \in [Threads -> {"none", "begin", "scan", "wait", "check", "process",
                            "visit", "loop", "exit", "dead"}]
    /\ api \in {"created", "wait"} => critSectModules = "start"
    /\ \A t \in Threads : run[t] = "visit" => critSectModules = "process"
    /\ \A s, t \in Threads : run[s] = "visit" /\ run[t] = "visit" => s = t
    /\ visiting \subseteq modules
    /\ critSectModules # "process" => visiting = {}
    /\ modules \cap destroyed = {}
    /\ critSectModules = "process" => api \notin {"created", "wait"}

LEMMA LockInvInit == PTInit => LockInv
BY MaxThreadsAssumption DEF PTInit, LockInv, Threads

LEMMA LockInvStep == PTTypeOK /\ LockInv /\ [PTNext]_ptVars => LockInv'
<1> SUFFICES ASSUME PTTypeOK, LockInv, [PTNext]_ptVars PROVE LockInv'
  OBVIOUS
<1> USE MaxThreadsAssumption DEF LockInv
<1>1. CASE Start
  BY <1>1 DEF Start, Threads, PTTypeOK
<1>2. CASE StartGoesOn
  BY <1>2 DEF StartGoesOn, StartNotDead, StartReturn
<1>3. CASE Stop \/ StopGoesOn
  BY <1>3 DEF Stop, StopGoesOn, StopNotAlive, StopReturn
<1>4. ASSUME NEW m \in Modules, RegisterModule(m) \/ DeRegisterModule(m)
      PROVE  LockInv'
  BY <1>4 DEF RegisterModule, DeRegisterModule, threads
<1>5. ASSUME NEW t \in Threads, RunBegin(t) \/ RunLoop(t) \/ RunDead(t)
      PROVE  LockInv'
  BY <1>5 DEF RunBegin, RunLoop, RunDead, goto, threads
<1>6. ASSUME NEW t \in Threads, Process(t) PROVE LockInv'
  <2>1. CASE ProcessDue(t) \/ ProcessNotDue(t) \/ ProcessWait(t)
    BY <2>1 DEF ProcessDue, ProcessNotDue, ProcessWait, goto, threads
  <2>2. CASE ProcessCheck(t)
    BY <2>2 DEF ProcessCheck, goto
  <2>3. CASE ProcessLock(t)
    BY <2>3 DEF ProcessLock, goto, threads
  <2>4. ASSUME NEW m \in Modules, ProcessVisit(t, m) PROVE LockInv'
    BY <2>4 DEF ProcessVisit, threads
  <2>5. CASE ProcessUnlock(t)
    BY <2>5 DEF ProcessUnlock, goto, threads
  <2> QED
    BY <1>6, <2>1, <2>2, <2>3, <2>4, <2>5 DEF Process
<1>7. CASE UNCHANGED ptVars
  BY <1>7 DEF ptVars, threads
<1> QED
  BY <1>1, <1>2, <1>3, <1>4, <1>5, <1>6, <1>7 DEF PTNext, Run

(* The module thread never calls a module that has been destroyed, for any *)
(* modules and however registration, passes and restarts interleave.       *)
THEOREM ModulesExist == PTSpec => []VisitedModulesExist
<1>1. ThreadInv => PTTypeOK
  BY DEF ThreadInv
<1>2. LockInv => VisitedModulesExist
  BY DEF LockInv, VisitedModulesExist
<1> QED
  BY <1>1, <1>2, ThreadInvInit, ThreadInvStep, LockInvInit, LockInvStep, PTL
     DEF PTSpec

-----------------------------------------------------------------------------
(* ChannelManager: ref_count counts the references there are, and of those *)
(* who let go of a channel one only saw it reach zero.                     *)
Refs(c) == {h \in Holders : c \in held[h]}
Deleters(c) == {h \in Holders : c \in deleting[h]}
InManager(c) == IF c \in channels THEN 1 ELSE 0

CountOf(c) ==
    /\ ref_count[c] = Cardinality(Refs(c)) + InManager(c)
    /\ c > last_channel_id =>
          c \notin channels /\ Refs(c) = {} /\ Deleters(c) = {}
          /\ c \notin deletedChannels
    /\ Deleters(c) # {} \/ c \in deletedChannels =>
          c \notin channels /\ Refs(c) = {}
    /\ c \in deletedChannels => Deleters(c) = {}
    /\ \A g, h \in Deleters(c) : g = h
    /\ c <= last_channel_id =>
          c \in channels \/ Refs(c) # {} \/ Deleters(c) # {}
          \/ c \in deletedChannels

CountInv == CMTypeOK /\ \A c \in Channels : CountOf(c)

LEMMA CountInvInit == CMInit => CountInv
<1> SUFFICES ASSUME CMInit PROVE CountInv
  OBVIOUS
<1>1. CMTypeOK
  BY MaxChannelsAssumption DEF CMInit, CMTypeOK, Channels
<1>2. ASSUME NEW c \in Channels PROVE CountOf(c)
  <2>1. Refs(c) = {} /\ Deleters(c) = {} /\ InManager(c) = 0
    BY DEF CMInit, Refs, Deleters, InManager
  <2> QED
    BY <2>1, FS_EmptySet, MaxChannelsAssumption DEF CMInit, CountOf, Channels
<1> QED
  BY <1>1, <1>2 DEF CountInv

LEMMA CountFacts ==
    ASSUME CountInv, NEW c \in Channels
    PROVE  /\ IsFiniteSet(Refs(c)) /\ Cardinality(Refs(c)) \in Nat
           /\ InManager(c) \in {0, 1} /\ ref_count[c] \in Int
           /\ c \in Nat /\ last_channel_id \in Int
           /\ Refs(c) \subseteq Holders
BY HoldersAssumption, MaxChannelsAssumption, FS_Subset, FS_CardinalityType
   DEF CountInv, CMTypeOK, Refs, InManager, Channels

(* A channel that a step does not touch keeps its count.                   *)
LEMMA CountKept ==
    ASSUME CountInv, NEW c \in Channels,
           Refs(c)' = Refs(c), Deleters(c)' = Deleters(c),
           ref_count'[c] = ref_count[c],
           c \in channels' <=> c \in channels,
           c \in deletedChannels' <=> c \in deletedChannels,
           (c <= last_channel_id') <=> (c <= last_channel_id),
           last_channel_id' \in Int
    PROVE  CountOf(c)'
<1>1. InManager(c)' = InManager(c)
  BY DEF InManager
<1>2. c > last_channel_id' <=> c > last_channel_id
  BY CountFacts
<1>3. CountOf(c)
  BY DEF CountInv
<1> QED
  BY <1>1, <1>2, <1>3 DEF CountOf

LEMMA CountInvStep == CountInv /\ [CMNext]_cmVars => CountInv'
<1> SUFFICES ASSUME CountInv, [CMNext]_cmVars PROVE CountInv'
  OBVIOUS
<1> USE MaxChannelsAssumption
<1>1. CMTypeOK /\ \A c \in Channels : CountOf(c)
  BY DEF CountInv
<1>2. ASSUME NEW h \in Holders, CreateChannel(h) PROVE CountInv'
  <2>0. PICK new \in Channels : new = last_channel_id + 1
    BY <1>2 DEF CreateChannel
  <2>1. last_channel_id' = new /\ last_channel_id \in Int /\ new \in Int
    BY <1>1, <1>2, <2>0 DEF CreateChannel, CMTypeOK
  <2>2. CMTypeOK'
    BY <1>1, <1>2 DEF CreateChannel, CMTypeOK, Channels
  <2>3. CountOf(new)'
    <3>1. Refs(new) = {} /\ Deleters(new) = {} /\ new \notin deletedChannels
      BY <1>1, <2>0, <2>1 DEF CountOf
    <3>2. Refs(new)' = {h} /\ Deleters(new)' = {} /\ InManager(new)' = 1
      BY <1>1, <1>2, <2>0, <3>1
         DEF CreateChannel, Refs, Deleters, InManager, CMTypeOK
    <3>3. ref_count'[new] = 2 /\ new \notin deletedChannels'
      BY <1>1, <1>2, <2>0, <3>1 DEF CreateChannel, CMTypeOK
    <3>4. Cardinality({h}) = 1
      BY FS_Singleton
    <3> QED
      BY <2>1, <3>2, <3>3, <3>4 DEF CountOf
  <2>4. ASSUME NEW c \in Channels, c # new PROVE CountOf(c)'
    <3>1. Refs(c)' = Refs(c) /\ Deleters(c)' = Deleters(c)
      BY <1>1, <1>2, <2>0, <2>4 DEF CreateChannel, Refs, Deleters, CMTypeOK
    <3>2. /\ ref_count'[c] = ref_count[c]
          /\ c \in channels' <=> c \in channels
          /\ c \in deletedChannels' <=> c \in deletedChannels
      BY <1>1, <1>2, <2>0, <2>4 DEF CreateChannel, CMTypeOK
    <3>3. (c <= last_channel_id') <=> (c <= last_channel_id)
      BY <2>0, <2>1, <2>4, CountFacts
    <3> QED
      BY <2>1, <3>1, <3>2, <3>3, CountKept
  <2> QED
    BY <2>2, <2>3, <2>4 DEF CountInv
<1>3. ASSUME NEW h \in Holders, NEW C \in SUBSET channels,
             GetChannels(h, C) \/ DestroyChannels(h, C)
      PROVE  CountInv'
  <2>1. /\ CMTypeOK' /\ C \subseteq Channels /\ held[h] = {}
        /\ held' = [held EXCEPT ![h] = C]
        /\ UNCHANGED <<last_channel_id, deleting, deletedChannels>>
    <3>1. CASE GetChannels(h, C)
      BY <1>1, <3>1 DEF GetChannels, CMTypeOK
    <3>2. CASE DestroyChannels(h, C)
      BY <1>1, <3>2 DEF DestroyChannels, CMTypeOK
    <3> QED
      BY <1>3, <3>1, <3>2
  <2>2. last_channel_id' \in Int
    BY <1>1, <2>1 DEF CMTypeOK
  <2>3. ASSUME NEW c \in C PROVE CountOf(c)'
    <3>1. c \in Channels /\ c \in channels /\ h \notin Refs(c) /\ CountOf(c)
      BY <1>1, <2>1 DEF Refs
    <3>2. Refs(c)' = Refs(c) \cup {h} /\ Deleters(c)' = Deleters(c)
      BY <1>1, <2>1, <3>1 DEF Refs, Deleters, CMTypeOK
    <3>3. Cardinality(Refs(c)') = Cardinality(Refs(c)) + 1
      BY <3>1, <3>2, CountFacts, FS_AddElement
    <3>4. ref_count'[c] = Cardinality(Refs(c)') + InManager(c)'
      <4>1. CASE GetChannels(h, C)
        <5>1. ref_count'[c] = ref_count[c] + 1 /\ c \in channels'
          BY <3>1, <4>1 DEF GetChannels
        <5> QED
          BY <3>1, <3>3, <5>1, CountFacts DEF CountOf, InManager
      <4>2. CASE DestroyChannels(h, C)
        <5>1. ref_count'[c] = ref_count[c] /\ c \notin channels'
          BY <3>1, <4>2 DEF DestroyChannels
        <5> QED
          BY <3>1, <3>3, <5>1, CountFacts DEF CountOf, InManager
      <4> QED
        BY <1>3, <4>1, <4>2
    <3>5. Deleters(c) = {} /\ c \notin deletedChannels /\ ~ (c > last_channel_id)
      BY <3>1 DEF CountOf
    <3> QED
      BY <2>1, <3>2, <3>4, <3>5 DEF CountOf
  <2>4. ASSUME NEW c \in Channels, c \notin C PROVE CountOf(c)'
    <3>1. Refs(c)' = Refs(c) /\ Deleters(c)' = Deleters(c)
      BY <1>1, <2>1, <2>4 DEF Refs, Deleters, CMTypeOK
    <3>2. ref_count'[c] = ref_count[c] /\ (c \in channels' <=> c \in channels)
      <4>1. CASE GetChannels(h, C)
        BY <2>4, <4>1, CountFacts DEF GetChannels
      <4>2. CASE DestroyChannels(h, C)
        BY <2>4, <4>2 DEF DestroyChannels
      <4> QED
        BY <1>3, <4>1, <4>2
    <3> QED
      BY <2>1, <2>2, <3>1, <3>2, CountKept
  <2> QED
    BY <2>1, <2>3, <2>4 DEF CountInv
<1>4. ASSUME NEW h \in Holders, NEW c \in Channels, Drop(h, c) PROVE CountInv'
  <2>1. /\ CMTypeOK' /\ last_channel_id' \in Int
        /\ UNCHANGED <<last_channel_id, channels, deletedChannels>>
    BY <1>1, <1>4 DEF Drop, CMTypeOK
  <2>2. ASSUME NEW d \in Channels, d # c PROVE CountOf(d)'
    <3>1. Refs(d)' = Refs(d) /\ Deleters(d)' = Deleters(d)
      BY <1>1, <1>4, <2>2 DEF Drop, Refs, Deleters, CMTypeOK
    <3>2. ref_count'[d] = ref_count[d]
      BY <1>1, <1>4, <2>2 DEF Drop, CMTypeOK
    <3> QED
      BY <2>1, <3>1, <3>2, CountKept
  <2>3. CountOf(c)'
    <3>1. /\ h \in Refs(c) /\ Refs(c)' = Refs(c) \ {h}
          /\ ref_count'[c] = ref_count[c] - 1
      BY <1>1, <1>4 DEF Drop, Refs, CMTypeOK
    <3>2. Deleters(c) = {} /\ c \notin deletedChannels /\ ~ (c > last_channel_id)
          /\ ref_count[c] = Cardinality(Refs(c)) + InManager(c)
      BY <1>1, <3>1 DEF CountOf
    <3>3. Cardinality(Refs(c)') = Cardinality(Refs(c)) - 1
      BY <3>1, CountFacts, FS_RemoveElement
    <3>4. InManager(c)' = InManager(c)
      BY <2>1 DEF InManager
    <3>5. ref_count'[c] = Cardinality(Refs(c)') + InManager(c)'
      BY <3>1, <3>2, <3>3, <3>4, CountFacts
    <3>6. IsFiniteSet(Refs(c)') /\ Cardinality(Refs(c)') \in Nat
      BY <3>1, CountFacts, FS_RemoveElement, FS_CardinalityType
    <3>7. CASE ref_count[c] = 1
      <4>1. Cardinality(Refs(c)') = 0 /\ InManager(c)' = 0
        BY <3>1, <3>2, <3>3, <3>4, <3>6, <3>7, CountFacts
      <4>2. Refs(c)' = {} /\ c \notin channels'
        BY <3>6, <4>1, FS_EmptySet DEF InManager
      <4>3. Deleters(c)' = {h}
        BY <1>1, <1>4, <3>2, <3>7 DEF Drop, Deleters, CMTypeOK
      <4> QED
        BY <2>1, <3>2, <3>5, <4>2, <4>3 DEF CountOf
    <3>8. CASE ref_count[c] # 1
      <4>1. Deleters(c)' = {}
        BY <1>1, <1>4, <3>2, <3>8 DEF Drop, Deleters, CMTypeOK
      <4>2. Refs(c)' # {} \/ c \in channels'
        <5>1. Cardinality(Refs(c)') # 0 \/ InManager(c)' # 0
          BY <3>1, <3>2, <3>5, <3>8, CountFacts
        <5> QED
          BY <5>1, FS_EmptySet DEF InManager
      <4> QED
        BY <2>1, <3>2, <3>5, <4>1, <4>2 DEF CountOf
    <3> QED
      BY <3>7, <3>8
  <2> QED
    BY <2>1, <2>2, <2>3 DEF CountInv
<1>5. ASSUME NEW h \in Holders, NEW c \in Channels, Delete(h, c)
      PROVE  CountInv'
  <2>1. /\ CMTypeOK' /\ last_channel_id' \in Int
        /\ UNCHANGED <<last_channel_id, channels, held, ref_count>>
    BY <1>1, <1>5 DEF Delete, CMTypeOK
  <2>2. ASSUME NEW d \in Channels, d # c PROVE CountOf(d)'
    <3>1. Refs(d)' = Refs(d) /\ Deleters(d)' = Deleters(d)
      BY <1>1, <1>5, <2>2 DEF Delete, Refs, Deleters, CMTypeOK
    <3>2. d \in deletedChannels' <=> d \in deletedChannels
      BY <1>5, <2>2 DEF Delete
    <3> QED
      BY <2>1, <3>1, <3>2, CountKept
  <2>3. CountOf(c)'
    <3>1. h \in Deleters(c) /\ CountOf(c)
      BY <1>1, <1>5 DEF Delete, Deleters
    <3>2. Deleters(c)' = {} /\ c \in deletedChannels'
      BY <1>1, <1>5, <3>1 DEF Delete, Deleters, CountOf, CMTypeOK
    <3>3. Refs(c)' = Refs(c) /\ InManager(c)' = InManager(c)
      BY <2>1 DEF Refs, InManager
    <3> QED
      BY <2>1, <3>1, <3>2, <3>3 DEF CountOf
  <2> QED
    BY <2>1, <2>2, <2>3 DEF CountInv
<1>6. CASE UNCHANGED cmVars
  <2>1. /\ UNCHANGED <<last_channel_id, channels, held, ref_count, deleting,
                       deletedChannels>>
        /\ CMTypeOK' /\ last_channel_id' \in Int
    BY <1>1, <1>6 DEF cmVars, CMTypeOK
  <2>2. ASSUME NEW c \in Channels PROVE CountOf(c)'
    BY <2>1, CountKept DEF Refs, Deleters
  <2> QED
    BY <2>1, <2>2 DEF CountInv
<1> QED
  BY <1>2, <1>3, <1>4, <1>5, <1>6 DEF CMNext

(* A channel is alive as long as somebody refers to it, and is deleted     *)
(* once, by the last to let go, for any number of channels and holders.    *)
THEOREM ChannelsLiveWhileHeld == CMSpec => []HeldXorDeleted
<1>1. CountInv => HeldXorDeleted
  <2> SUFFICES ASSUME CountInv, NEW c \in 0..last_channel_id
               PROVE  LET referred == c \in channels \/
                                         \E h \in Holders : c \in held[h]
                          deleters == {h \in Holders : c \in deleting[h]}
                      IN  /\ referred => deleters = {} /\ c \notin deletedChannels
                          /\ ~ referred => (c \in deletedChannels <=> deleters = {})
                          /\ \A g, h \in deleters : g = h
    BY DEF HeldXorDeleted
  <2>1. c \in Channels /\ c <= last_channel_id
    BY MaxChannelsAssumption DEF CountInv, CMTypeOK, Channels
  <2>2. CountOf(c)
    BY <2>1 DEF CountInv
  <2> QED
    BY <2>1, <2>2 DEF CountOf, Refs, Deleters
<1> QED
  BY <1>1, CountInvInit, CountInvStep, PTL DEF CMSpec

-----------------------------------------------------------------------------
(* The composition.  What the application's and the audio thread hold at   *)
(* each point, ...                                                         *)
CallInv ==
    /\ call \in {"none", "start", "adm", "initialize", "initialized", "return",
                 "destroy", "stop", "stopped"}
    /\ audio \in {"idle", "iterate"}
    /\ audioDevice \in 0..created
    /\ initialized \in BOOLEAN
    /\ audioDevice = 0 => audio = "idle"
    /\ audio = "idle" => held["iterator"] = {} /\ deleting["iterator"] = {}
    /\ call \notin {"initialize", "initialized", "return", "destroy"} =>
          /\ held["owner"] = {} /\ deleting["owner"] = {}
          /\ held["reference"] = {} /\ deleting["reference"] = {}
    /\ call \in {"start", "adm"} => thread # 0 /\ ~ initialized
    /\ call = "start" => audioDevice = 0
    /\ call = "adm" => audioDevice # 0
    /\ call \in {"initialize", "initialized"} => last_channel_id \in held["owner"]
    /\ call \in {"initialize", "initialized", "return"} => initialized
    /\ initialized /\ call # "stopped" => thread # 0 /\ audioDevice # 0
    /\ audioDevice # 0 /\ thread = 0 => call = "stopped"
    /\ ~ initialized \/ call \in {"destroy", "stop", "stopped"} => channels = {}
    /\ call = "stopped" => thread = 0

(* ... and which modules may be registered. *)
ModuleInv ==
    \A m \in modules :
        \/ \E c \in Channels : /\ m = Rtp(c) /\ c <= last_channel_id
                               /\ c \notin deletedChannels
        \/ m = Adm(audioDevice) /\ audioDevice # 0
           /\ call \notin {"stop", "stopped"}

VTInv == ThreadInv /\ LockInv /\ CountInv /\ CallInv /\ ModuleInv

LEMMA VTInvInit == VTInit => VTInv
<1>1. VTInit => CallInv
  <2>1. ASSUME VTInit, NEW h \in VoiceHolders PROVE held[h] = {} /\ deleting[h] = {}
    BY <2>1, VoiceAssumption DEF VTInit, CMInit
  <2>2. ASSUME VTInit
        PROVE  /\ call = "none" /\ audio = "idle" /\ audioDevice = 0
               /\ initialized = FALSE /\ created = 0 /\ channels = {}
    BY <2>2 DEF VTInit, PTInit, CMInit
  <2> QED
    BY <2>1, <2>2 DEF CallInv, VoiceHolders
<1>2. VTInit => ModuleInv
  BY DEF VTInit, PTInit, ModuleInv
<1> QED
  BY <1>1, <1>2, ThreadInvInit, LockInvInit, CountInvInit DEF VTInit, VTInv

(* A step of the composition is one of each component or leaves it alone.  *)
LEMMA ComponentSteps ==
    VTInv /\ [VTNext]_vtVars => [PTNext]_ptVars /\ [CMNext]_cmVars
<1> SUFFICES ASSUME VTInv, [VTNext]_vtVars
             PROVE  [PTNext]_ptVars /\ [CMNext]_cmVars
  OBVIOUS
<1> USE VoiceAssumption, MaxThreadsAssumption, MaxChannelsAssumption
<1>1. /\ \A k \in Threads : Adm(k) \in Modules
      /\ \A c \in Channels : Rtp(c) \in Modules
      /\ "owner" \in Holders /\ "reference" \in Holders
      /\ "iterator" \in Holders
  BY DEF VoiceModules, VoiceHolders
<1>2. CASE InitStart
  BY <1>2 DEF InitStart, PTNext
<1>3. CASE \/ InitNoAdm \/ InitReturn \/ ChannelInitSucceeds \/ CallReturns
           \/ TerminateAdm \/ AudioReturn
  BY <1>3 DEF InitNoAdm, InitReturn, ChannelInitSucceeds, CallReturns,
              TerminateAdm, AudioReturn
<1>4. CASE InitRegister
  <2>1. created \in Threads
    BY <1>4 DEF InitRegister, at, VTInv, CallInv, ThreadInv, PTTypeOK, Threads
  <2> QED
    BY <1>1, <1>4, <2>1 DEF InitRegister, PTNext
<1>5. CASE VoECreateChannel
  BY <1>1, <1>5 DEF VoECreateChannel, CMNext
<1>6. CASE ChannelInit
  <2>1. last_channel_id \in Channels
    BY <1>1, <1>6 DEF ChannelInit, at, VTInv, CallInv, CountInv, CMTypeOK
  <2> QED
    BY <1>1, <1>6, <2>1 DEF ChannelInit, PTNext
<1>7. CASE ChannelInitFails
  <2>1. DestroyChannels("reference", {last_channel_id})
        /\ {last_channel_id} \in SUBSET channels
    BY <1>7 DEF ChannelInitFails, DestroyChannels
  <2> QED
    BY <1>1, <1>7, <2>1 DEF ChannelInitFails, CMNext
<1>8. ASSUME NEW c \in Channels, VoEDeleteChannel(c)
      PROVE  [PTNext]_ptVars /\ [CMNext]_cmVars
  <2>1. DestroyChannels("reference", {c}) /\ {c} \in SUBSET channels
    BY <1>8 DEF VoEDeleteChannel, DestroyChannels
  <2> QED
    BY <1>1, <1>8, <2>1 DEF VoEDeleteChannel, CMNext
<1>9. CASE Terminate
  BY <1>1, <1>9 DEF Terminate, CMNext
<1>10. CASE TerminateDeRegister
  <2>1. audioDevice # 0 => audioDevice \in Threads
    BY DEF VTInv, CallInv, ThreadInv, PTTypeOK, Threads
  <2> QED
    BY <1>1, <1>10, <2>1 DEF TerminateDeRegister, PTNext
<1>11. CASE TerminateStop
  BY <1>11 DEF TerminateStop, PTNext
<1>12. CASE ThreadStep
  BY <1>12 DEF ThreadStep, PTNext
<1>13. CASE AudioCallback
  BY <1>1, <1>13 DEF AudioCallback, CMNext
<1>14. ASSUME NEW h \in Holders, NEW c \in Channels, OwnerDrop(h, c)
       PROVE  [PTNext]_ptVars /\ [CMNext]_cmVars
  BY <1>14 DEF OwnerDrop, CMNext
<1>15. ASSUME NEW h \in Holders, NEW c \in Channels, ChannelDtor(h, c)
       PROVE  [PTNext]_ptVars /\ [CMNext]_cmVars
  BY <1>1, <1>15 DEF ChannelDtor, PTNext, CMNext
<1>16. ASSUME NEW t \in Threads, RunStep(t)
       PROVE  [PTNext]_ptVars /\ [CMNext]_cmVars
  BY <1>16 DEF RunStep, PTNext
<1>17. CASE UNCHANGED vtVars
  BY <1>17 DEF vtVars
<1> QED
  BY <1>2, <1>3, <1>4, <1>5, <1>6, <1>7, <1>8, <1>9, <1>10, <1>11, <1>12,
     <1>13, <1>14, <1>15, <1>16, <1>17
     DEF VTNext, CallBegins, CallGoesOn, LetsGo

(* Of ChannelManager's steps: whose references they change.                *)
LEMMA HolderSteps ==
    ASSUME CMTypeOK, NEW h \in Holders, NEW g \in Holders, g # h, NEW c, NEW C,
           CreateChannel(h) \/ GetChannels(h, C) \/ DestroyChannels(h, C)
           \/ Drop(h, c) \/ Delete(h, c)
    PROVE  held'[g] = held[g] /\ deleting'[g] = deleting[g]
BY DEF CMTypeOK, CreateChannel, GetChannels, DestroyChannels, Drop, Delete

LEMMA CallInvStep == VTInv /\ [VTNext]_vtVars => CallInv'
<1> SUFFICES ASSUME VTInv, [VTNext]_vtVars PROVE CallInv'
  OBVIOUS
<1>1. PTTypeOK /\ CMTypeOK /\ CallInv
  BY DEF VTInv, ThreadInv, CountInv
<1>2. /\ "owner" \in Holders /\ "reference" \in Holders
      /\ "iterator" \in Holders /\ Holders = {"owner", "reference", "iterator"}
  BY VoiceAssumption DEF VoiceHolders
<1> USE DEF CallInv
<1>3. ASSUME UNCHANGED cmVars
      PROVE  UNCHANGED <<held, deleting, channels, last_channel_id>>
  BY <1>3 DEF cmVars
<1>4. CASE InitStart
  BY <1>1, <1>3, <1>4 DEF InitStart, at, Start, PTTypeOK
<1>5. CASE InitNoAdm
  BY <1>1, <1>3, <1>5 DEF InitNoAdm, at, ptVars, threads
<1>6. CASE InitRegister
  BY <1>1, <1>3, <1>6 DEF InitRegister, at, RegisterModule, threads, PTTypeOK
<1>7. CASE InitReturn
  BY <1>1, <1>3, <1>7 DEF InitReturn, at, ptVars, threads
<1>8. CASE VoECreateChannel
  <2>1. /\ held'["reference"] = held["reference"]
        /\ deleting'["reference"] = deleting["reference"]
        /\ held'["iterator"] = held["iterator"]
        /\ deleting'["iterator"] = deleting["iterator"]
    BY <1>1, <1>2, <1>8, HolderSteps DEF VoECreateChannel
  <2>2. last_channel_id' \in held'["owner"]
    BY <1>1, <1>2, <1>8 DEF VoECreateChannel, CreateChannel, CMTypeOK
  <2> QED
    BY <1>1, <1>8, <2>1, <2>2 DEF VoECreateChannel, at, ptVars, threads
<1>9. CASE ChannelInit
  BY <1>1, <1>3, <1>9 DEF ChannelInit, at, RegisterModule, threads
<1>10. CASE ChannelInitSucceeds \/ CallReturns
  BY <1>1, <1>3, <1>10 DEF ChannelInitSucceeds, CallReturns, LetGo, Application,
                           at, ptVars, threads
<1>11. ASSUME NEW C, DestroyChannels("reference", C)
       PROVE  /\ held'["iterator"] = held["iterator"]
              /\ deleting'["iterator"] = deleting["iterator"]
              /\ channels' \subseteq channels
              /\ UNCHANGED last_channel_id
  BY <1>1, <1>2, <1>11, HolderSteps DEF DestroyChannels
<1>12. CASE ChannelInitFails
  BY <1>1, <1>11, <1>12 DEF ChannelInitFails, at, ptVars, threads
<1>13. ASSUME NEW c \in Channels, VoEDeleteChannel(c) PROVE CallInv'
  BY <1>1, <1>11, <1>13 DEF VoEDeleteChannel, at, ptVars, threads
<1>14. CASE Terminate
  <2>1. channels' = {}
    BY <1>14 DEF Terminate, DestroyChannels
  <2> QED
    BY <1>1, <1>11, <1>14, <2>1 DEF Terminate, at, ptVars, threads
<1>15. CASE TerminateDeRegister
  BY <1>1, <1>3, <1>15 DEF TerminateDeRegister, LetGo, Application, at,
                           DeRegisterModule, ptVars, threads
<1>16. CASE TerminateStop
  BY <1>1, <1>3, <1>16 DEF TerminateStop, at, Stop, ptVars, threads
<1>17. CASE TerminateAdm
  BY <1>1, <1>3, <1>17 DEF TerminateAdm, at, ptVars, threads, PTTypeOK
<1>18. CASE ThreadStep
  BY <1>1, <1>3, <1>18 DEF ThreadStep, StartGoesOn, StopGoesOn, StartNotDead,
                           StartReturn, StopNotAlive, StopReturn, own
<1>19. CASE AudioCallback
  <2>1. /\ held'["reference"] = held["reference"]
        /\ deleting'["reference"] = deleting["reference"]
        /\ held'["owner"] = held["owner"]
        /\ deleting'["owner"] = deleting["owner"]
        /\ UNCHANGED <<channels, last_channel_id>>
    <3>1. GetChannels("iterator", channels)
      BY <1>19 DEF AudioCallback
    <3>2. UNCHANGED <<channels, last_channel_id>>
      BY <3>1 DEF GetChannels
    <3> QED
      BY <1>1, <1>2, <3>1, <3>2, HolderSteps
  <2> QED
    BY <1>1, <1>19, <2>1 DEF AudioCallback, ptVars, threads
<1>20. CASE AudioReturn
  BY <1>1, <1>3, <1>20 DEF AudioReturn, LetGo, ptVars, threads
<1>21. ASSUME NEW h \in Holders, NEW c \in Channels,
              OwnerDrop(h, c) \/ ChannelDtor(h, c)
       PROVE  CallInv'
  <2>1. /\ Drop(h, c) \/ Delete(h, c)
        /\ c \in held[h] \/ c \in deleting[h]
        /\ UNCHANGED <<own, thread, created, channels, last_channel_id>>
    BY <1>21 DEF OwnerDrop, ChannelDtor, Drop, Delete, DeRegisterModule, ptVars,
                 threads
  <2>2. ASSUME NEW g \in Holders, g # h
        PROVE  held'[g] = held[g] /\ deleting'[g] = deleting[g]
    BY <1>1, <2>1, <2>2, HolderSteps
  <2>3. h = "owner" /\ call \in {"initialize", "initialized"} =>
            held'["owner"] = held["owner"]
    BY <1>21 DEF OwnerDrop, ChannelDtor, Delete
  <2>4. CASE h = "iterator"
    BY <1>1, <1>2, <2>1, <2>2, <2>4 DEF own
  <2>5. CASE h # "iterator"
    BY <1>1, <1>2, <2>1, <2>2, <2>3, <2>5 DEF own
  <2> QED
    BY <2>4, <2>5
<1>22. ASSUME NEW t \in Threads, RunStep(t) PROVE CallInv'
  <2>1. UNCHANGED <<thread, created>>
    BY <1>22 DEF RunStep, Run, RunBegin, RunLoop, RunDead, Process, ProcessDue,
       ProcessNotDue, ProcessWait, ProcessCheck, ProcessLock, ProcessVisit,
       ProcessUnlock, threads
  <2> QED
    BY <1>1, <1>3, <1>22, <2>1 DEF RunStep, own
<1>23. CASE UNCHANGED vtVars
  BY <1>1, <1>3, <1>23 DEF vtVars, own, ptVars, threads
<1> QED
  BY <1>4, <1>5, <1>6, <1>7, <1>8, <1>9, <1>10, <1>12, <1>13, <1>14, <1>15,
     <1>16, <1>17, <1>18, <1>19, <1>20, <1>21, <1>22, <1>23
     DEF VTNext, CallBegins, CallGoesOn, LetsGo

LEMMA ModuleInvStep == VTInv /\ [VTNext]_vtVars => ModuleInv'
<1> SUFFICES ASSUME VTInv, [VTNext]_vtVars PROVE ModuleInv'
  OBVIOUS
<1> USE VoiceAssumption, MaxChannelsAssumption
<1>1. PTTypeOK /\ CMTypeOK /\ CallInv /\ ModuleInv /\ CountInv
  BY DEF VTInv, ThreadInv, CountInv
<1>2. ASSUME modules' \subseteq modules,
             UNCHANGED <<deletedChannels, audioDevice>>,
             last_channel_id' \in Int, last_channel_id <= last_channel_id',
             call' \in {"stop", "stopped"} => call \in {"stop", "stopped"}
      PROVE  ModuleInv'
  BY <1>1, <1>2 DEF ModuleInv, CMTypeOK, Channels
<1>3. ASSUME UNCHANGED <<modules, deletedChannels, audioDevice, last_channel_id>>,
             call' \in {"stop", "stopped"} => call \in {"stop", "stopped"}
      PROVE  ModuleInv'
  BY <1>1, <1>3 DEF ModuleInv
<1>4. CASE InitStart \/ InitNoAdm \/ InitReturn \/ ChannelInitSucceeds
           \/ CallReturns
  BY <1>3, <1>4 DEF InitStart, InitNoAdm, InitReturn, ChannelInitSucceeds,
     CallReturns, at, Start, ptVars, cmVars
<1>5. CASE InitRegister
  <2>1. /\ audioDevice = 0 /\ audioDevice' = created /\ call' = "adm"
        /\ modules' = modules \cup {Adm(created)} /\ created # 0
        /\ UNCHANGED <<deletedChannels, last_channel_id>>
    BY <1>1, <1>5 DEF InitRegister, at, RegisterModule, CallInv, PTTypeOK, cmVars
  <2> QED
    BY <1>1, <2>1 DEF ModuleInv
<1>6. CASE VoECreateChannel
  <2>1. /\ UNCHANGED <<modules, deletedChannels, audioDevice>>
        /\ last_channel_id' = last_channel_id + 1 /\ last_channel_id \in Int
        /\ call' = "initialize"
    BY <1>1, <1>6 DEF VoECreateChannel, at, CreateChannel, CMTypeOK, ptVars
  <2> QED
    BY <1>2, <2>1
<1>7. CASE ChannelInit
  <2>1. /\ last_channel_id \in Channels /\ last_channel_id \in held["owner"]
        /\ last_channel_id \notin deletedChannels
    <3>1. last_channel_id \in Channels /\ last_channel_id \in held["owner"]
      BY <1>1, <1>7 DEF ChannelInit, at, CallInv, CMTypeOK, VoiceHolders
    <3> QED
      BY <1>1, <3>1 DEF CountInv, CountOf, Refs, VoiceHolders
  <2>2. /\ modules' = modules \cup {Rtp(last_channel_id)}
        /\ UNCHANGED <<deletedChannels, audioDevice, last_channel_id>>
        /\ call = "initialize" /\ call' = "initialized"
    BY <1>7 DEF ChannelInit, at, RegisterModule, cmVars
  <2>3. last_channel_id <= last_channel_id
    BY <2>1 DEF Channels
  <2> QED
    BY <1>1, <2>1, <2>2, <2>3 DEF ModuleInv
<1>8. ASSUME ChannelInitFails \/ Terminate
             \/ \E c \in Channels : VoEDeleteChannel(c)
      PROVE  ModuleInv'
  BY <1>3, <1>8 DEF ChannelInitFails, Terminate, VoEDeleteChannel, at,
                    DestroyChannels, ptVars
<1>9. CASE TerminateDeRegister
  <2>1. /\ UNCHANGED <<deletedChannels, audioDevice, last_channel_id>>
        /\ modules' \subseteq modules
        /\ audioDevice # 0 => Adm(audioDevice) \notin modules'
    BY <1>9 DEF TerminateDeRegister, DeRegisterModule, cmVars, ptVars
  <2> QED
    BY <1>1, <2>1 DEF ModuleInv
<1>10. CASE TerminateStop
  BY <1>3, <1>10 DEF TerminateStop, at, Stop, ptVars, cmVars
<1>11. CASE TerminateAdm
  <2>1. /\ call = "stopped"
        /\ UNCHANGED <<modules, deletedChannels, last_channel_id>>
    BY <1>11 DEF TerminateAdm, at, ptVars, cmVars
  <2> QED
    BY <1>1, <2>1 DEF ModuleInv
<1>12. CASE ThreadStep
  BY <1>3, <1>12 DEF ThreadStep, StartGoesOn, StopGoesOn, StartNotDead,
                     StartReturn, StopNotAlive, StopReturn, own, cmVars
<1>13. CASE AudioCallback \/ AudioReturn
  BY <1>3, <1>13 DEF AudioCallback, AudioReturn, GetChannels, ptVars, cmVars
<1>14. ASSUME NEW h \in Holders, NEW c \in Channels, OwnerDrop(h, c)
       PROVE  ModuleInv'
  BY <1>3, <1>14 DEF OwnerDrop, Drop, own, ptVars
<1>15. ASSUME NEW h \in Holders, NEW c \in Channels, ChannelDtor(h, c)
       PROVE  ModuleInv'
  <2>1. /\ modules' = modules \ {Rtp(c)}
        /\ deletedChannels' = deletedChannels \cup {c}
        /\ UNCHANGED <<audioDevice, call, last_channel_id>>
    BY <1>15 DEF ChannelDtor, Delete, DeRegisterModule, own
  <2> QED
    BY <1>1, <2>1 DEF ModuleInv
<1>16. ASSUME NEW t \in Threads, RunStep(t) PROVE ModuleInv'
  <2>1. UNCHANGED modules
    BY <1>16 DEF RunStep, Run, RunBegin, RunLoop, RunDead, Process, ProcessDue,
       ProcessNotDue, ProcessWait, ProcessCheck, ProcessLock, ProcessVisit,
       ProcessUnlock
  <2> QED
    BY <1>3, <1>16, <2>1 DEF RunStep, own, cmVars
<1>17. CASE UNCHANGED vtVars
  BY <1>3, <1>17 DEF vtVars, own, ptVars, cmVars
<1> QED
  BY <1>4, <1>5, <1>6, <1>7, <1>8, <1>9, <1>10, <1>11, <1>12, <1>13, <1>14,
     <1>15, <1>16, <1>17
     DEF VTNext, CallBegins, CallGoesOn, LetsGo

LEMMA VTInvStep == VTInv /\ [VTNext]_vtVars => VTInv'
<1> SUFFICES ASSUME VTInv, [VTNext]_vtVars PROVE VTInv'
  OBVIOUS
<1>1. [PTNext]_ptVars /\ [CMNext]_cmVars
  BY ComponentSteps
<1>2. ThreadInv /\ PTTypeOK /\ LockInv /\ CountInv
  BY DEF VTInv, ThreadInv
<1> QED
  BY <1>1, <1>2, ThreadInvStep, LockInvStep, CountInvStep, CallInvStep,
     ModuleInvStep
     DEF VTInv

LEMMA VTInvAlways == VTSpec => []VTInv
BY VTInvInit, VTInvStep, PTL DEF VTSpec

(* The engine's three threads together implement the module thread and the *)
(* channel manager: what is proved of these holds of the engine.           *)
THEOREM ImplementsComponents == VTSpec => PTSpec /\ CMSpec
<1>1. VTInit => PTInit /\ CMInit
  BY DEF VTInit
<1> QED
  BY <1>1, ComponentSteps, VTInvAlways, PTL DEF VTSpec, PTSpec, CMSpec

(* Type correctness of the engine's threads, for any number of restarts    *)
(* and channels.                                                           *)
THEOREM VTTyping == VTSpec => []VTTypeOK
<1>1. VTInv => VTTypeOK
  BY DEF VTInv, ThreadInv, CountInv, CallInv, VTTypeOK
<1> QED
  BY <1>1, VTInvAlways, PTL

(* Past Stop(), and with no callback under way, every channel that was     *)
(* ever created is gone, and so are the modules.                           *)
LEMMA NothingLeft ==
    ASSUME VTInv, call = "stopped", audio = "idle"
    PROVE  modules = {} /\ visiting = {} /\ deletedChannels = 0..last_channel_id
<1>1. channels = {}
  BY DEF VTInv, CallInv
<1>2. ASSUME NEW c \in Channels PROVE Refs(c) = {} /\ Deleters(c) = {}
  BY VoiceAssumption DEF VTInv, CallInv, Refs, Deleters, VoiceHolders
<1>3. ASSUME NEW c \in Channels
      PROVE  c \in deletedChannels <=> c <= last_channel_id
  <2>1. CountOf(c) /\ (c > last_channel_id <=> ~ (c <= last_channel_id))
    BY MaxChannelsAssumption DEF VTInv, CountInv, CMTypeOK, Channels
  <2> QED
    BY <1>1, <1>2, <2>1 DEF CountOf
<1>4. deletedChannels = 0..last_channel_id
  <2>1. deletedChannels \subseteq Channels
    BY DEF VTInv, CountInv, CMTypeOK
  <2>2. ASSUME NEW c PROVE c \in 0..last_channel_id <=>
                             c \in Channels /\ c <= last_channel_id
    BY MaxChannelsAssumption DEF VTInv, CountInv, CMTypeOK, Channels
  <2> QED
    BY <1>3, <2>1, <2>2
<1>5. modules = {}
  BY <1>3 DEF VTInv, ModuleInv
<1>6. visiting = {}
  BY <1>5 DEF VTInv, LockInv
<1> QED
  BY <1>4, <1>5, <1>6

(* Terminate() returns with every channel deleted, even one that an audio  *)
(* callback held when it began, no module registered and no module thread  *)
(* in use; a thread that still runs is one that Stop() gave up on, and it  *)
(* has nothing to visit.                                                   *)
THEOREM TerminateCleans == VTSpec => TerminatedIsClean
<1> DEFINE Returns == call = "stopped" /\ call' = "none"
           Clean == /\ deletedChannels' = 0..last_channel_id'
                    /\ modules' = {} /\ visiting' = {}
                    /\ thread' = 0
                    /\ \A t \in Threads :
                          run'[t] \in Over \/ t \notin deletedThreads'
<1>1. ASSUME VTInv, [VTNext]_vtVars, Returns PROVE Clean
  <2>1. TerminateAdm
    BY <1>1
    DEF VTNext, CallBegins, CallGoesOn, LetsGo, InitStart, VoECreateChannel,
        Terminate, VoEDeleteChannel, InitNoAdm, InitRegister, InitReturn,
        ChannelInit, ChannelInitFails, ChannelInitSucceeds, CallReturns,
        TerminateDeRegister, TerminateStop, ThreadStep, AudioCallback,
        AudioReturn, OwnerDrop, ChannelDtor, RunStep, at, own, vtVars
  <2>2. modules = {} /\ visiting = {} /\ deletedChannels = 0..last_channel_id
    BY <1>1, <2>1, NothingLeft DEF TerminateAdm
  <2>3. thread = 0 /\ DeletedThreadIsOver
    BY <1>1 DEF VTInv, ThreadInv, CallInv
  <2>4. UNCHANGED <<ptVars, cmVars>>
    BY <2>1 DEF TerminateAdm
  <2> QED
    BY <2>2, <2>3, <2>4
    DEF ptVars, threads, cmVars, DeletedThreadIsOver
<1> QED
  BY <1>1, VTInvAlways, PTL DEF VTSpec, TerminatedIsClean
=============================================================================
