SPECIFICATION FairSpec
CONSTANTS
    r1 = r1
    r2 = r2
    d1 = d1
    d2 = d2
    n1 = n1
    n2 = n2
    m1 = m1
    m2 = m2
    None = None
    Requests = {r1, r2}
    Devices = {d1, d2}
    DeviceOf <- MCDeviceOf
    Names = {n1, n2}
    Macs = {m1, m2}
    NameOf <- MCNameOf
    MacOf <- MCMacOf
INVARIANTS
    TypeOK
    DialogsMatchWaiters
    SoleVerdict
    NoStaleApproval
PROPERTIES
    EveryCallReturns
CHECK_DEADLOCK FALSE
