SPECIFICATION VTSpec
CONSTANTS
    Modules <- MCModules
    Holders <- MCHolders
    MaxThreads = 2
    MaxChannels = 1
INVARIANTS
    VTTypeOK
    DeletedThreadIsOver
    VisitedModulesExist
    HeldXorDeleted
PROPERTIES
    TerminatedIsClean
    EveryVoECallReturns
    StopEndsModuleThread
CHECK_DEADLOCK FALSE
