SPECIFICATION Spec
CONSTANTS
    Jobs <- TwoJobs
    Cancellers <- TwoCancellers
    PersistMayFail = TRUE
    VenvMayBeMissing = TRUE
    LaunchMayFail = TRUE
    KillMayTimeOut = TRUE
    MaxRestarts = 1
    j1 = j1
    j2 = j2
    k1 = k1
    k2 = k2
SYMMETRY RequestSymmetry
INVARIANTS
    CompletedMeansExitZero
