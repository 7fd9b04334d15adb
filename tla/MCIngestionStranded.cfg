SPECIFICATION FairSpec
CONSTANTS
    CameraCount = 1
    Workers <- OneWorker
    FrameQueueSize = 1
    BufferSize = 2
    BatchSize = 1
    FrameLimit = Unlimited
    Unlimited = Unlimited
    SourceFrames = 1
    FaultyCameras <- NoCameras
    StopOnCameraError = FALSE
    ConsumerFails = FALSE
    JoinTimeouts = FALSE
    w1 = w1
    w2 = w2
PROPERTIES
    EveryCameraRetires
