SPECIFICATION Spec
CONSTANTS
    Tracks <- OneTrack
    QueueSize = 1
    MaxCalls = 2
    MaxSubmissions = 1
    t1 = t1
    t2 = t2
    t3 = t3
INVARIANTS
    FailOpenHolds
