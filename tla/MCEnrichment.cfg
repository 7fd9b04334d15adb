SPECIFICATION FairSpec
CONSTANTS
    Tracks <- ThreeTracks
    QueueSize = 1
    MaxCalls = 3
    MaxSubmissions = 2
    t1 = t1
    t2 = t2
    t3 = t3
INVARIANTS
    JobsMatchPending
    ClassifiedOnce
    EveryTrackAnswered
    WorkerIdleAtEnd
PROPERTIES
    RunAndWorkerEnd
