SPECIFICATION Spec
CONSTANTS
    CameraCount = 2
    Workers <- TwoWorkers
    FrameQueueSize = 1
    BufferSize = 2
    BatchSize = 2
    FrameLimit = 2
    Unlimited = Unlimited
    SourceFrames = 3
    FaultyCameras <- FirstCamera
    StopOnCameraError = TRUE
    ConsumerFails = TRUE
    JoinTimeouts = FALSE
    w1 = w1
    w2 = w2
SYMMETRY WorkerSymmetry
INVARIANTS
    OneJobPerCamera
    NoJobDropped
    CamerasRetireOnce
    FramesArriveInOrder
    ThreadsEndOnlyWhenDone
PROPERTIES
    ImplementsDelivery
    WaitingCamerasAdvance
