SPECIFICATION ServicesSpec
CONSTANTS
    a1 = a1
    a2 = a2
    b1 = b1
    b2 = b2
    b3 = b3
    EvTracks <- Twins
    Places <- Twins
    Scores = {1, 2}
    MaxCandidates = 2
    SimilarGap = 1
    LastEvFrame = 3
    MaxDetections = 2
    ZoneTracks = {t1}
    CropScores = {1, 2}
    CaptureProfiles <- SomeProfiles
    Heights = {0, 1, 2}
    Confirmed = 2
    LastZoneFrame = 5
    Imports = 2
    LiveTracks <- Twins
    Clients = {c1}
    QueueSize = 2
    MaxUpdates = 3
    ConfigNames <- Twins
    GoodConfigs = {"plain"}
    BadConfigs = {"invalid", "quoted", "nested"}
    Cleaning <- SomeCleaning
    Requests <- Triple
    PlateTracks <- Triple
    PlateCameras = {"cam"}
    PlateTexts = {"P"}
    PlateFrames = {0, 2, 3, 5}
    OwnScores = {2, 3}
    OtherScores = {0, 4}
    Window = 2
    ConflictMargin = 1
    OwnerMargin = 2
    LastTrack = 3
    PairFacts <- SomeFacts
    PlateReads <- SomeReads
    Near <- OneCharacterApart
    Far <- Unlike
    PlateAssistance = TRUE
    ContradictionVeto = TRUE
    Acceptance = 70
    Margin = 3
    Floor = 58
    ConsistencyWeight = 30
    ConflictPenalty = 10
    ExactFloor = 64
    ExactBonus = 34
    PartialBonus = 18
    WeakPenalty = 20
    TrackRows <- SomeTracks
    MaxRows = 3
    Observations <- SomeObservations
    Enrichments <- SomeEnrichments
    MaxEnrichments = 1
    MaxOutside = 2
    ChatThreads <- Twins
    NumVehicles = 3
    Cars = {2, 3}
    Reds = {1, 2}
    PageSize = 2
    ExactPlates = {1}
    LongerPlates = {2}
    MaxAnswers = 2
    ZoneClasses = {"m"}
    ZoneCameras = {"cam"}
    TopRatios = {0, 2, 4}
    BottomRatios = {}
    LimitValues = {0, 1}
    RouteCameras <- Twins
    RawDetections <- SomeDetections
    MaxRaw = 2
    MaxBatch = 2
    MaxRouted = 2
    Scenarios <- SomeCrops
    VehicleClasses = {"CAR", "TRUCK", "UNKNOWN"}
    Labels = {"red", "blue"}
    BestCrops = 3
    MaxCrops = 2
    Letters <- SomeLetters
    Digits <- SomeDigits
    LookAlikes <- SomeLookAlikes
    StandardPatterns <- SomeStandard
    BharatPatterns <- SomeBharat
    StateLength = 1
    States <- SomeStates
    OcrTexts <- SomeTexts
    MaxPlates = 2
    Tracklets <- SomeFragments
    MaxTracklets = 4
    MaxGap = 3
    MinMotion = 2
    BaseDistance = 2
    SpeedMultiplier = 1
    BehindTolerance = 1
    Nearness <- CloseTo
    WeightMotion = 20
    WeightPosition = 35
    WeightDirection = 20
    WeightColour = 15
    WeightClass = 10
    Compatible <- AlikeColours
    MatchThreshold = 72
    MinimumMargin = 12
    Proposals <- SomeProposals
    ChatQuestions <- SomeQuestions
    RunScopes <- SomeRunScopes
    CamerasOf <- CamerasOfRuns
    Aliases <- SomeAliases
    RecordLists <- SomeRecordLists
    AcceptedPlans <- SomePlans
    IntervalWindow = 2
    MaxPlans = 2
    MaxArchived = 2
    Recordings <- SomeRecordings
    RecordQuestions <- SomeRecordQuestions
    RecordPaths <- SomeRecordPaths
    PlateCases <- SomePlateCases
SYMMETRY Interchangeable
CHECK_DEADLOCK FALSE
INVARIANTS
    CacheFollowsPools
    EvidenceIsKept
    PublishedRunsAreTrue
    NewestIsKept
    LiveViewsAreTrue
    ConfigurationsHold
    PlatesHaveOwners
    IdentitiesAgree
    ImportsAreFaithful
    AnswersAreComplete
    DetectionsReachTrackers
    AttributesAreAccounted
