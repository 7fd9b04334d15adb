SPECIFICATION FairSpec
CONSTANTS
    CameraCount = 2
    Workers <- OneWorker
    FrameQueueSize = 1
    BufferSize = 2
    BatchSize = 1
    FrameLimit = Unlimited
    Unlimited = Unlimited
    SourceFrames = 2
    FaultyCameras <- FirstCamera
    StopOnCameraError = FALSE
    ConsumerFails = TRUE
    JoinTimeouts = TRUE
    w1 = w1
    w2 = w2
PROPERTIES
    EveryFrameDelivered
    StopEndsThreads
    RunEndsUnlessStranded
INVARIANT StopReleasesReaders
