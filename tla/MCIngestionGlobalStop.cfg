SPECIFICATION FairSpec
CONSTANTS
    CameraCount = 2
    Workers <- OneWorker
    FrameQueueSize = 1
    BufferSize = 2
    BatchSize = 1
    FrameLimit = Unlimited
    Unlimited = Unlimited
    SourceFrames = 1
    FaultyCameras <- FirstCamera
    StopOnCameraError = TRUE
    ConsumerFails = FALSE
    JoinTimeouts = FALSE
    w1 = w1
    w2 = w2
PROPERTIES
    GlobalStopEndsRun
