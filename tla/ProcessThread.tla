---------------------------- MODULE ProcessThread ----------------------------
(***************************************************************************)
(* The voice engine's module thread: ProcessThreadImpl, which calls the    *)
(* Process() of every registered module, on a ThreadPosix.                 *)
(*                                                                         *)
(* Every start creates a new ThreadPosix object.  Start() holds the lock   *)
(* _critSectModules until the new thread reports by an event, Process()    *)
(* holds it while it visits the modules; elsewhere a critical section is   *)
(* one step.  EventPosix::Wait has a time limit and no loop around its     *)
(* condition variable, so it may return at any moment, whatever has been   *)
(* Set(): the events decide when a step is taken, never whether.           *)
(***************************************************************************)
EXTENDS Integers

CONSTANTS
    Modules,        \* what may be registered
    MaxThreads      \* bound: the ThreadPosix objects created

ASSUME MaxThreadsAssumption == MaxThreads \in Nat

Threads == 1..MaxThreads

VARIABLES
    critSectModules,    \* "free", "start" or "process"
    thread,             \* _thread, 0 for NULL
    created,            \* the number of ThreadPosix objects so far
    api,                \* where the call of Start() or Stop() is
    stopping,           \* the object that Stop() waits for, 0 for none
    alive, dead,        \* alive_ and dead_ of each object
    run,                \* where each object's Run() is
    deletedThreads,     \* objects that Stop() has deleted
    modules,            \* _modules
    visiting,           \* modules that the present pass has yet to visit
    destroyed           \* modules that no longer exist

threads == <<thread, created, api, stopping, alive, dead, deletedThreads>>
ptVars == <<critSectModules, threads, run, modules, visiting, destroyed>>

Over == {"none", "dead"}

PTInit ==
    /\ critSectModules = "free"
    /\ thread = 0
    /\ created = 0
    /\ api = "idle"
    /\ stopping = 0
    /\ alive = [t \in Threads |-> FALSE]
    /\ dead = [t \in Threads |-> TRUE]
    /\ run = [t \in Threads |-> "none"]
    /\ deletedThreads = {}
    /\ modules = {}
    /\ visiting = {}
    /\ destroyed = {}

-----------------------------------------------------------------------------
(* ProcessThreadImpl::Start and ThreadPosix::Start                         *)

(* pthread_create may fail.  Its result, a bool, is compared with >= 0, so *)
(* that even then Start() returns 0 and keeps the object.                  *)
Start ==
    /\ api = "idle"
    /\ critSectModules = "free"
    /\ thread = 0
    /\ created < MaxThreads
    /\ created' = created + 1
    /\ thread' = created + 1
    /\ \/ /\ run' = [run EXCEPT ![created + 1] = "begin"]
          /\ api' = "created"
          /\ critSectModules' = "start"
       \/ UNCHANGED <<run, api, critSectModules>>
    /\ UNCHANGED <<stopping, alive, dead, deletedThreads, modules, visiting,
                   destroyed>>

(* Slip: the object is not marked as living. *)
StartNotDead_Omitted ==
    /\ api = "created"
    /\ api' = "wait"
    /\ UNCHANGED <<critSectModules, thread, created, stopping, alive, dead, run,
                   deletedThreads, modules, visiting, destroyed>>

StartNotDead ==
    /\ api = "created"
    /\ dead' = [dead EXCEPT ![thread] = FALSE]
    /\ api' = "wait"
    /\ UNCHANGED <<critSectModules, thread, created, stopping, alive, run,
                   deletedThreads, modules, visiting, destroyed>>

(* The event was set, ten seconds went by, or the wakeup was spurious.     *)
StartReturn ==
    /\ api = "wait"
    /\ api' = "idle"
    /\ critSectModules' = "free"
    /\ UNCHANGED <<thread, created, stopping, alive, dead, run, deletedThreads,
                   modules, visiting, destroyed>>

-----------------------------------------------------------------------------
(* ProcessThreadImpl::Stop and ThreadPosix::Stop                           *)

Stop ==
    /\ api = "idle"
    /\ critSectModules = "free"
    /\ thread # 0
    /\ alive' = [alive EXCEPT ![thread] = FALSE]
    /\ stopping' = thread
    /\ thread' = 0
    /\ api' = "stop"
    /\ UNCHANGED <<critSectModules, created, dead, run, deletedThreads, modules,
                   visiting, destroyed>>

StopNotAlive ==
    /\ api = "stop"
    /\ alive' = [alive EXCEPT ![stopping] = FALSE]
    /\ api' = "poll"
    /\ UNCHANGED <<critSectModules, thread, created, stopping, dead, run,
                   deletedThreads, modules, visiting, destroyed>>

(* The object is dead and is deleted, or ten seconds have passed and it is *)
(* left behind.                                                            *)
StopReturn ==
    /\ api = "poll"
    /\ api' = "idle"
    /\ stopping' = 0
    /\ \/ /\ dead[stopping]
          /\ deletedThreads' = deletedThreads \cup {stopping}
       \/ /\ ~ dead[stopping]
          /\ UNCHANGED deletedThreads
    /\ UNCHANGED <<critSectModules, thread, created, alive, dead, run, modules,
                   visiting, destroyed>>

-----------------------------------------------------------------------------
(* RegisterModule, and DeRegisterModule before the module is destroyed     *)

RegisterModule(m) ==
    /\ critSectModules = "free"
    /\ m \notin modules \cup destroyed
    /\ modules' = modules \cup {m}
    /\ UNCHANGED <<critSectModules, threads, run, visiting, destroyed>>

(* Slip: the list is changed without the lock. *)
DeRegisterModule_Unlocked(m) ==
    /\ modules' = modules \ {m}
    /\ destroyed' = destroyed \cup {m}
    /\ UNCHANGED <<critSectModules, threads, run, visiting>>

(* A module that was never registered is just destroyed.                   *)
DeRegisterModule(m) ==
    /\ critSectModules = "free"
    /\ modules' = modules \ {m}
    /\ destroyed' = destroyed \cup {m}
    /\ UNCHANGED <<critSectModules, threads, run, visiting>>

-----------------------------------------------------------------------------
(* ThreadPosix::Run and ProcessThreadImpl::Process                         *)

goto(t, from, to) ==
    /\ run[t] = from
    /\ run' = [run EXCEPT ![t] = to]

(* alive_ becomes true, even if a Stop() has already come and gone.        *)
RunBegin(t) ==
    /\ goto(t, "begin", "scan")
    /\ alive' = [alive EXCEPT ![t] = TRUE]
    /\ UNCHANGED <<critSectModules, thread, created, api, stopping, dead,
                   deletedThreads, modules, visiting, destroyed>>

(* Some module is due at once, or the thread waits.                        *)
ProcessDue(t) ==
    /\ critSectModules = "free"
    /\ modules # {}
    /\ goto(t, "scan", "process")
    /\ UNCHANGED <<critSectModules, threads, modules, visiting, destroyed>>

ProcessNotDue(t) ==
    /\ critSectModules = "free"
    /\ goto(t, "scan", "wait")
    /\ UNCHANGED <<critSectModules, threads, modules, visiting, destroyed>>

(* _timeEvent was set, its time is up, or Wait() failed.                   *)
ProcessWait(t) ==
    /\ goto(t, "wait", "check") \/ goto(t, "wait", "loop")
    /\ UNCHANGED <<critSectModules, threads, modules, visiting, destroyed>>

(* Slip: the early return leaves the lock taken. *)
ProcessCheck_KeepsLock(t) ==
    /\ critSectModules = "free"
    /\ \/ /\ thread = 0
          /\ goto(t, "check", "exit")
          /\ alive' = [alive EXCEPT ![t] = FALSE]
          /\ critSectModules' = "process"
       \/ /\ thread # 0
          /\ goto(t, "check", "process")
          /\ UNCHANGED <<alive, critSectModules>>
    /\ UNCHANGED <<thread, created, api, stopping, dead, deletedThreads,
                   modules, visiting, destroyed>>

(* No _thread: Process() returns false and Run() takes alive_ back.        *)
ProcessCheck(t) ==
    /\ critSectModules = "free"
    /\ \/ /\ thread = 0
          /\ goto(t, "check", "exit")
          /\ alive' = [alive EXCEPT ![t] = FALSE]
       \/ /\ thread # 0
          /\ goto(t, "check", "process")
          /\ UNCHANGED alive
    /\ UNCHANGED <<critSectModules, thread, created, api, stopping, dead,
                   deletedThreads, modules, visiting, destroyed>>

ProcessLock(t) ==
    /\ critSectModules = "free"
    /\ goto(t, "process", "visit")
    /\ critSectModules' = "process"
    /\ visiting' = modules
    /\ UNCHANGED <<threads, modules, destroyed>>

(* The Process() of one module, if it is due. *)
ProcessVisit(t, m) ==
    /\ run[t] = "visit"
    /\ m \in visiting
    /\ visiting' = visiting \ {m}
    /\ UNCHANGED <<critSectModules, threads, run, modules, destroyed>>

ProcessUnlock(t) ==
    /\ visiting = {}
    /\ goto(t, "visit", "loop")
    /\ critSectModules' = "free"
    /\ UNCHANGED <<threads, modules, visiting, destroyed>>

(* Slip: only the result of Process() ends the loop. *)
RunLoop_IgnoresAlive(t) ==
    /\ goto(t, "loop", "scan")
    /\ UNCHANGED <<critSectModules, threads, modules, visiting, destroyed>>

RunLoop(t) ==
    /\ goto(t, "loop", IF alive[t] THEN "scan" ELSE "exit")
    /\ UNCHANGED <<critSectModules, threads, modules, visiting, destroyed>>

RunDead(t) ==
    /\ goto(t, "exit", "dead")
    /\ dead' = [dead EXCEPT ![t] = TRUE]
    /\ UNCHANGED <<critSectModules, thread, created, api, stopping, alive,
                   deletedThreads, modules, visiting, destroyed>>

Process(t) ==
    \/ ProcessDue(t) \/ ProcessNotDue(t) \/ ProcessWait(t) \/ ProcessCheck(t)
    \/ ProcessLock(t) \/ (\E m \in Modules : ProcessVisit(t, m))
    \/ ProcessUnlock(t)

Run(t) == RunBegin(t) \/ Process(t) \/ RunLoop(t) \/ RunDead(t)

StartGoesOn == StartNotDead \/ StartReturn
StopGoesOn == StopNotAlive \/ StopReturn

PTNext ==
    \/ Start \/ StartGoesOn \/ Stop \/ StopGoesOn
    \/ \E m \in Modules : RegisterModule(m) \/ DeRegisterModule(m)
    \/ \E t \in Threads : Run(t)

PTSpec == PTInit /\ [][PTNext]_ptVars

-----------------------------------------------------------------------------
(* The type of the state. *)
PTTypeOK ==
    /\ critSectModules \in {"free", "start", "process"}
    /\ thread \in 0..created
    /\ created \in 0..MaxThreads
    /\ api \in {"idle", "created", "wait", "stop", "poll"}
    /\ stopping \in 0..created
    /\ alive \in [Threads -> BOOLEAN]
    /\ dead \in [Threads -> BOOLEAN]
    /\ run \in [Threads -> {"none", "begin", "scan", "wait", "check", "process",
                            "visit", "loop", "exit", "dead"}]
    /\ deletedThreads \in SUBSET Threads
    /\ modules \in SUBSET Modules
    /\ visiting \in SUBSET Modules
    /\ destroyed \in SUBSET Modules

(* A ThreadPosix that Stop() deletes is no longer running, although dead_  *)
(* is true while a thread is being created and only Start() takes it back. *)
DeletedThreadIsOver == \A t \in deletedThreads : run[t] \in Over

(* The module thread visits only modules that exist, whoever deregisters   *)
(* and destroys one during a pass.                                         *)
VisitedModulesExist == visiting \cap destroyed = {} /\ modules \cap destroyed = {}
=============================================================================
