SPECIFICATION FairSpec
CONSTANTS
    Jobs <- OneJob
    Cancellers <- OneCanceller
    PersistMayFail = FALSE
    VenvMayBeMissing = FALSE
    LaunchMayFail = FALSE
    KillMayTimeOut = FALSE
    MaxRestarts = 0
    j1 = j1
    j2 = j2
    k1 = k1
    k2 = k2
PROPERTIES
    CancelTerminates
