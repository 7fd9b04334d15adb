SPECIFICATION FairSpec
CONSTANTS
    Jobs <- TwoJobs
    Cancellers <- TwoCancellers
    PersistMayFail = FALSE
    VenvMayBeMissing = FALSE
    LaunchMayFail = TRUE
    KillMayTimeOut = TRUE
    MaxRestarts = 1
    j1 = j1
    j2 = j2
    k1 = k1
    k2 = k2
INVARIANTS
    OneUncancelledRun
    OrphansAreClosed
    SettledWhenIdle
PROPERTIES
    OutcomeIsStable
    EveryJobSettles
    CancelAfterBeginTerminates
